----------------------------- MODULE JobsProofs -----------------------------
(***************************************************************************)
(* Proofs about Jobs, for any set of jobs of either kind and any number of *)
(* files and crashes: the safety properties of the job manager.  What      *)
(* makes them inductive is JobInv, which says for each step of a goroutine *)
(* what the table, the memory and the clients can know of its job.         *)
(***************************************************************************)
EXTENDS Jobs, TLAPS

-----------------------------------------------------------------------------
(* The inductive invariant.                                                *)

NotRequested(j) ==
    pc[j] = "idle" =>
        /\ db[j] = "none" /\ live[j] = "none"
        /\ applied[j] = 0 /\ told[j] = "none" /\ j \notin refused

(* Not at work yet.                                                        *)
Waiting(j) ==
    /\ pc[j] \in {"inserted", "spawned", "marking"} =>
           /\ db[j] = "queued" /\ applied[j] = 0
           /\ told[j] \notin Terminal /\ j \notin refused
    /\ pc[j] = "inserted" => live[j] = "none"
    /\ pc[j] = "spawned" => live[j] = "queued" /\ j \in cancels
    /\ pc[j] = "marking" => live[j] = "running" /\ j \in cancels

(* At work: a mutation fails after its commit only in reading it back.     *)
AtWork(j) ==
    /\ pc[j] \in {"working", "inserting", "applied", "deciding"} =>
           /\ db[j] = "running" /\ live[j] = "running" /\ j \in cancels
           /\ told[j] \notin Terminal /\ j \notin refused
    /\ pc[j] = "working" /\ j \in Mutations => applied[j] = 0
    /\ pc[j] = "inserting" => j \notin Mutations
    /\ pc[j] = "applied" => j \in Mutations /\ applied[j] = 1
    /\ pc[j] = "deciding" =>
           /\ outcome[j] \in {"ok", "error"}
           /\ j \in Mutations /\ outcome[j] = "ok" => applied[j] = 1
           /\ j \in Mutations /\ outcome[j] = "error" =>
                  applied[j] = 0 \/ (applied[j] = 1 /\ j \in unread)

(* The outcome is known, and true.                                         *)
OutcomeIsTrue(j) ==
    /\ outcome[j] \in Terminal
    /\ j \in Mutations /\ outcome[j] = "succeeded" => applied[j] = 1
    /\ j \in Mutations \ unread /\ outcome[j] = "failed" => applied[j] = 0
    /\ outcome[j] = "canceled" => j \in canceled

Ending(j) ==
    /\ pc[j] \in {"finishing", "persisting", "ended"} => OutcomeIsTrue(j)
    /\ pc[j] = "finishing" =>
           /\ live[j] \in Active /\ db[j] = live[j] /\ j \in cancels
           /\ told[j] \notin Terminal /\ j \notin refused
    /\ pc[j] = "persisting" => live[j] = outcome[j] /\ db[j] \in Active
    /\ pc[j] = "ended" => live[j] = outcome[j] /\ db[j] = outcome[j]
    /\ pc[j] \in {"persisting", "ended"} /\ told[j] \in Terminal => told[j] = live[j]

(* The job of an earlier process.                                          *)
Dead(j) ==
    pc[j] = "dead" =>
        /\ live[j] = "none" /\ db[j] # "none"
        /\ j \in Mutations /\ db[j] = "succeeded" => applied[j] = 1
        /\ up => db[j] \in Terminal
        /\ told[j] \in Terminal => db[j] \in Active \cup {told[j], "failed"}

(* A poll that reads the table of a job it had seen end: after a crash.    *)
Asked(j) == j \in asking /\ told[j] \in Terminal => pc[j] = "dead"

JobInv(j) ==
    /\ NotRequested(j) /\ Waiting(j) /\ AtWork(j) /\ Ending(j) /\ Dead(j)
    /\ Asked(j)

ManagerInv ==
    /\ TypeOK
    /\ \A j \in Jobs : JobInv(j)
    /\ ~up => \A j \in Jobs : pc[j] \in {"idle", "dead"}

-----------------------------------------------------------------------------
LEMMA ManagerInit == Init => ManagerInv
  BY MaxCrashesAssumption, MutationsAssumption
     DEF Init, ManagerInv, TypeOK, Statuses, Steps, Active, Terminal,
         JobInv, NotRequested, Waiting, AtWork, Ending, OutcomeIsTrue, Dead, Asked

(* A step of one job leaves the others alone.                              *)
Others(j) ==
    /\ \A i \in Jobs \ {j} :
           /\ db'[i] = db[i] /\ applied'[i] = applied[i] /\ live'[i] = live[i]
           /\ pc'[i] = pc[i] /\ outcome'[i] = outcome[i] /\ told'[i] = told[i]
           /\ i \in cancels' <=> i \in cancels
           /\ i \in canceled' <=> i \in canceled
           /\ i \in refused' <=> i \in refused
           /\ i \in asking' <=> i \in asking
           /\ i \in unread' <=> i \in unread
    /\ up /\ up'

LEMMA OthersKeepTheirInvariant ==
    ASSUME ManagerInv, NEW j \in Jobs, Others(j), TypeOK', JobInv(j)'
    PROVE  ManagerInv'
<1>1. ASSUME NEW i \in Jobs, i # j PROVE JobInv(i)'
  <2>1. JobInv(i)
    BY DEF ManagerInv
  <2> QED BY <1>1, <2>1
          DEF Others, JobInv, NotRequested, Waiting, AtWork, Ending, OutcomeIsTrue, Dead, Asked
<1> QED BY <1>1 DEF ManagerInv, Others

LEMMA GoroutineKeeps ==
    ASSUME ManagerInv, NEW j \in Jobs,
           InsertRow(j) \/ Goroutine(j) \/ Cancel(j) \/ Get(j) \/ GetRow(j)
    PROVE  TypeOK' /\ Others(j) /\ JobInv(j)'
<1>1. TypeOK /\ JobInv(j)
  BY DEF ManagerInv
<1> USE <1>1 DEF TypeOK, Others, JobInv
<1>2. CASE InsertRow(j)
  BY <1>2 DEF InsertRow, polls,
              NotRequested, Waiting, AtWork, Ending, OutcomeIsTrue, Dead, Asked,
              Statuses, Steps, Active, Terminal
<1>3. CASE Spawn(j)
  BY <1>3 DEF Spawn, durable, polls,
              NotRequested, Waiting, AtWork, Ending, OutcomeIsTrue, Dead, Asked,
              Statuses, Steps, Active, Terminal
<1>4. CASE Start(j)
  BY <1>4 DEF Start, durable, polls,
              NotRequested, Waiting, AtWork, Ending, OutcomeIsTrue, Dead, Asked,
              Statuses, Steps, Active, Terminal
<1>5. CASE PersistRunning(j)
  BY <1>5 DEF PersistRunning, polls,
              NotRequested, Waiting, AtWork, Ending, OutcomeIsTrue, Dead, Asked,
              Statuses, Steps, Active, Terminal
<1>6. CASE Apply(j)
  BY <1>6 DEF Apply, polls,
              NotRequested, Waiting, AtWork, Ending, OutcomeIsTrue, Dead, Asked,
              Statuses, Steps, Active, Terminal
<1>7. CASE OpenFile(j)
  BY <1>7 DEF OpenFile, durable, polls, NotRequested, Waiting, AtWork, Ending,
              OutcomeIsTrue, Dead, Asked, Statuses, Steps, Active, Terminal
<1>8. CASE InsertSample(j)
  BY <1>8 DEF InsertSample, polls, NotRequested, Waiting, AtWork, Ending,
              OutcomeIsTrue, Dead, Asked, Statuses, Steps, Active, Terminal
<1>9. CASE WorkEnds(j)
  BY <1>9 DEF WorkEnds, durable, polls, NotRequested, Waiting, AtWork, Ending,
              OutcomeIsTrue, Dead, Asked, Statuses, Steps, Active, Terminal
<1>10. CASE Fail(j)
  BY <1>10 DEF Fail, durable, polls, NotRequested, Waiting, AtWork, Ending,
              OutcomeIsTrue, Dead, Asked, Statuses, Steps, Active, Terminal
<1>11. CASE WorkReturns(j)
  BY <1>11 DEF WorkReturns, durable, polls,
              NotRequested, Waiting, AtWork, Ending, OutcomeIsTrue, Dead, Asked,
              Statuses, Steps, Active, Terminal
<1>12. CASE Decide(j)
  BY <1>12 DEF Decide, Verdict, durable, polls,
              NotRequested, Waiting, AtWork, Ending, OutcomeIsTrue, Dead, Asked,
              Statuses, Steps, Active, Terminal
<1>13. CASE Finish(j)
  BY <1>13 DEF Finish, durable, polls,
               NotRequested, Waiting, AtWork, Ending, OutcomeIsTrue, Dead, Asked,
               Statuses, Steps, Active, Terminal
<1>14. CASE PersistFinish(j)
  BY <1>14 DEF PersistFinish, polls,
               NotRequested, Waiting, AtWork, Ending, OutcomeIsTrue, Dead, Asked,
               Statuses, Steps, Active, Terminal
<1>15. CASE Cancel(j)
  BY <1>15 DEF Cancel, durable, polls,
               NotRequested, Waiting, AtWork, Ending, OutcomeIsTrue, Dead, Asked,
               Statuses, Steps, Active, Terminal
<1>16. CASE Get(j)
  BY <1>16 DEF Get, durable, memory, polls, NotRequested, Waiting, AtWork, Ending,
               OutcomeIsTrue, Dead, Asked, Statuses, Steps, Active, Terminal
<1>17. CASE GetRow(j)
  BY <1>17 DEF GetRow, durable, memory, NotRequested, Waiting, AtWork, Ending,
              OutcomeIsTrue, Dead, Asked, Statuses, Steps, Active, Terminal
<1> QED BY <1>2, <1>3, <1>4, <1>5, <1>6, <1>7, <1>8, <1>9, <1>10, <1>11, <1>12, <1>13,
           <1>14, <1>15, <1>16, <1>17
        DEF Goroutine

(* A crash leaves jobs that were never requested, and dead ones.           *)
LEMMA CrashKeeps == ManagerInv /\ Crash => ManagerInv'
<1> SUFFICES ASSUME ManagerInv, Crash PROVE ManagerInv'
  OBVIOUS
<1>1. TypeOK'
  <2>1. TypeOK
    BY DEF ManagerInv
  <2>2. crashes' \in 0 .. MaxCrashes
    BY <2>1, MaxCrashesAssumption DEF TypeOK, Crash
  <2> QED BY <2>1, <2>2 DEF TypeOK, Crash, durable, Statuses, Steps
<1>2. ASSUME NEW j \in Jobs PROVE JobInv(j)' /\ pc'[j] \in {"idle", "dead"}
  <2>1. JobInv(j) /\ TypeOK
    BY DEF ManagerInv
  <2>2. /\ pc'[j] = IF pc[j] = "idle" THEN "idle" ELSE "dead"
        /\ live'[j] = "none" /\ db' = db /\ applied' = applied
        /\ told' = told /\ refused' = refused /\ up' = FALSE /\ asking' = {}
    BY DEF Crash, durable
  <2>3. pc[j] # "idle" => db[j] # "none"
    BY <2>1 DEF JobInv, NotRequested, Waiting, AtWork, Ending, OutcomeIsTrue, Dead, Asked,
                TypeOK, Steps, Active, Terminal
  <2>4. pc[j] # "idle" /\ j \in Mutations /\ db[j] = "succeeded" => applied[j] = 1
    BY <2>1 DEF JobInv, NotRequested, Waiting, AtWork, Ending, OutcomeIsTrue, Dead, Asked,
                TypeOK, Steps, Active, Terminal
  <2>5. pc[j] # "idle" /\ told[j] \in Terminal => db[j] \in Active \cup {told[j], "failed"}
    BY <2>1 DEF JobInv, NotRequested, Waiting, AtWork, Ending, OutcomeIsTrue, Dead, Asked,
                TypeOK, Steps, Active, Terminal
  <2> QED BY <2>1, <2>2, <2>3, <2>4, <2>5
          DEF JobInv, NotRequested, Waiting, AtWork, Ending, OutcomeIsTrue, Dead, Asked
<1>3. ~up'
  BY DEF Crash
<1> QED BY <1>1, <1>2, <1>3 DEF ManagerInv

LEMMA RestartKeeps == ManagerInv /\ Restart => ManagerInv'
<1> SUFFICES ASSUME ManagerInv, Restart PROVE ManagerInv'
  OBVIOUS
<1>1. \A j \in Jobs : db'[j] = IF db[j] \in {"queued", "running"} THEN "failed" ELSE db[j]
  BY DEF Restart, MarkInterrupted
<1>2. TypeOK'
  BY <1>1 DEF ManagerInv, TypeOK, Restart, MarkInterrupted, memory, polls,
         Statuses, Active, Terminal
<1>3. ASSUME NEW j \in Jobs PROVE JobInv(j)'
  <2>1. JobInv(j) /\ TypeOK /\ pc[j] \in {"idle", "dead"}
    BY DEF ManagerInv, Restart
  <2> QED BY <1>1, <2>1
          DEF JobInv, NotRequested, Waiting, AtWork, Ending, OutcomeIsTrue, Dead, Asked,
              Restart, memory, polls, TypeOK, Statuses, Active, Terminal
<1>4. up'
  BY DEF Restart
<1> QED BY <1>2, <1>3, <1>4 DEF ManagerInv

LEMMA ManagerNext == ManagerInv /\ [Next]_vars => ManagerInv'
<1> SUFFICES ASSUME ManagerInv, [Next]_vars PROVE ManagerInv'
  OBVIOUS
<1>1. ASSUME NEW j \in Jobs, InsertRow(j) \/ Goroutine(j) \/ Cancel(j) \/ Get(j) \/ GetRow(j)
      PROVE  ManagerInv'
  BY <1>1, GoroutineKeeps, OthersKeepTheirInvariant
<1>2. CASE UNCHANGED vars
  BY <1>2 DEF vars, ManagerInv, TypeOK, JobInv, NotRequested, Waiting, AtWork, Ending,
              OutcomeIsTrue, Dead, Asked
<1> QED BY <1>1, <1>2, CrashKeeps, RestartKeeps DEF Next

LEMMA ManagerCorrect == Spec => []ManagerInv
  BY ManagerInit, ManagerNext, PTL DEF Spec

-----------------------------------------------------------------------------
(* The properties of module Jobs.                                          *)

(* Statuses, goroutines and histories keep their types.                    *)
THEOREM JobsTypeCorrect == Spec => []TypeOK
  BY ManagerCorrect, PTL DEF ManagerInv

(* A commit or undo shown as succeeded did commit; one that failed did not *)
(* unless reading back its commit failed; only an accepted cancel cancels: *)
(* whatever cancels, crashes and polls come between the steps of run.      *)
THEOREM ResultsAreTrue == Spec => []ResultIsTrue
<1>1. ManagerInv => ResultIsTrue
  <2> SUFFICES ASSUME ManagerInv, NEW j \in Jobs
               PROVE  /\ j \in Mutations /\ "succeeded" \in {live[j], db[j]} => applied[j] = 1
                      /\ j \in Mutations \ unread /\ live[j] = "failed" => applied[j] = 0
                      /\ live[j] = "canceled" => j \in canceled
    BY DEF ResultIsTrue
  <2>1. JobInv(j) /\ TypeOK
    BY DEF ManagerInv
  <2> QED BY <2>1 DEF JobInv, NotRequested, Waiting, AtWork, Ending, OutcomeIsTrue, Dead,
                      TypeOK, Steps, Active, Terminal
<1> QED BY <1>1, ManagerCorrect, PTL

(* The table is never ahead of the manager's memory.                       *)
THEOREM TableIsBehind == Spec => []TableFollowsMemory
<1>1. ManagerInv => TableFollowsMemory
  <2> SUFFICES ASSUME ManagerInv, NEW j \in Jobs, live[j] # "none"
               PROVE  /\ db[j] \in Terminal => live[j] = db[j]
                      /\ db[j] = "running" => live[j] # "queued"
    BY DEF TableFollowsMemory
  <2>1. JobInv(j) /\ TypeOK
    BY DEF ManagerInv
  <2> QED BY <2>1 DEF JobInv, NotRequested, Waiting, AtWork, Ending, OutcomeIsTrue, Dead, Asked,
                      TypeOK, Steps, Active, Terminal
<1> QED BY <1>1, ManagerCorrect, PTL

(* In a server that is up, every active job has a goroutine.               *)
THEOREM ActiveJobsRun == Spec => []NoOrphans
<1>1. ManagerInv => NoOrphans
  <2> SUFFICES ASSUME ManagerInv, up, NEW j \in Jobs, db[j] \in Active
               PROVE  pc[j] \notin {"idle", "dead", "ended"}
    BY DEF NoOrphans
  <2>1. JobInv(j)
    BY DEF ManagerInv
  <2> QED BY <2>1 DEF JobInv, NotRequested, Ending, OutcomeIsTrue, Dead, Asked, Active, Terminal
<1> QED BY <1>1, ManagerCorrect, PTL

(* Only a commit or an insert of the job changes what it did.              *)
LEMMA OnlyWorkCommits ==
    ASSUME ManagerInv, [Next]_vars, NEW j \in Jobs, applied'[j] # applied[j]
    PROVE  Apply(j) \/ InsertSample(j)
<1>1. applied \in [Jobs -> Nat]
  BY DEF ManagerInv, TypeOK
<1>2. ~UNCHANGED applied
  OBVIOUS
<1>3. PICK i \in Jobs : Apply(i) \/ InsertSample(i)
  BY <1>2 DEF Next, Goroutine, InsertRow, Spawn, Start, PersistRunning, OpenFile, WorkEnds,
              Fail, WorkReturns, Decide, Finish, PersistFinish, Cancel, Get, GetRow, Crash,
              Restart, vars, durable
<1>4. i = j
  BY <1>1, <1>3 DEF Apply, InsertSample
<1> QED BY <1>3, <1>4

(* No mutation is applied twice, and no job has an effect once the table   *)
(* or the memory says it is over.                                          *)
THEOREM EffectsAreOnTime == Spec => NoLateEffect
<1>1. ManagerInv /\ [Next]_vars =>
          [\A j \in Jobs : applied'[j] # applied[j] =>
               /\ j \in Mutations => applied'[j] = 1
               /\ db[j] = "running"
               /\ live[j] = "running"]_vars
  <2> SUFFICES ASSUME ManagerInv, [Next]_vars, NEW j \in Jobs, applied'[j] # applied[j]
               PROVE  /\ j \in Mutations => applied'[j] = 1
                      /\ db[j] = "running" /\ live[j] = "running"
    OBVIOUS
  <2>1. Apply(j) \/ InsertSample(j)
    BY OnlyWorkCommits
  <2>2. JobInv(j) /\ TypeOK
    BY DEF ManagerInv
  <2>3. /\ pc[j] \in {"working", "inserting"}
        /\ j \in Mutations => pc[j] = "working"
        /\ applied'[j] = applied[j] + 1
    BY <2>1, <2>2 DEF Apply, InsertSample, TypeOK, JobInv, AtWork
  <2> QED BY <2>2, <2>3 DEF JobInv, AtWork
<1> QED BY <1>1, ManagerCorrect, PTL DEF Spec, NoLateEffect

(* A client whose cancel was refused can rely on it.                       *)
THEOREM RefusalsHold == Spec => RefusedIsOver
<1>1. ManagerInv /\ [Next]_vars => [\A j \in refused : applied'[j] = applied[j]]_vars
  <2> SUFFICES ASSUME ManagerInv, [Next]_vars, NEW j \in refused, applied'[j] # applied[j]
               PROVE  FALSE
    OBVIOUS
  <2>1. j \in Jobs
    BY DEF ManagerInv, TypeOK
  <2>2. (Apply(j) \/ InsertSample(j)) /\ JobInv(j)
    BY <2>1, OnlyWorkCommits DEF ManagerInv
  <2> QED BY <2>2 DEF Apply, InsertSample, JobInv, AtWork
<1> QED BY <1>1, ManagerCorrect, PTL DEF Spec, RefusedIsOver

(* Only a restart changes what a poll said of a job that had ended.        *)
THEOREM AnswersAreFinal == Spec => OnlyRestartRewrites
<1>1. ManagerInv /\ [Next]_vars =>
          [\A j \in Jobs : told[j] \in Terminal /\ told'[j] # told[j] =>
               live[j] = "none" /\ told'[j] = "failed"]_vars
  <2> SUFFICES ASSUME ManagerInv, [Next]_vars, NEW j \in Jobs,
                      told[j] \in Terminal, told'[j] # told[j]
               PROVE  live[j] = "none" /\ told'[j] = "failed"
    OBVIOUS
  <2>1. PICK i \in Jobs : Get(i) \/ GetRow(i)
    BY DEF Next, Goroutine, InsertRow, Spawn, Start, PersistRunning, Apply, OpenFile,
           InsertSample, WorkEnds, Fail, WorkReturns, Decide, Finish, PersistFinish, Cancel,
           Crash, Restart, vars, polls
  <2>2. JobInv(j) /\ TypeOK
    BY DEF ManagerInv
  <2>3. i = j /\ up
    BY <2>1, <2>2 DEF Get, GetRow, TypeOK
  <2>4. CASE Get(j)
    <3>1. live[j] # "none" /\ told'[j] = live[j]
      BY <2>2, <2>4 DEF Get, TypeOK
    <3> QED BY <2>2, <3>1 DEF JobInv, NotRequested, Waiting, AtWork, Ending, OutcomeIsTrue,
                 Dead, TypeOK, Steps, Active, Terminal
  <2>5. CASE GetRow(j)
    <3>1. pc[j] = "dead" /\ told'[j] = db[j]
      BY <2>2, <2>5 DEF GetRow, TypeOK, JobInv, Asked
    <3> QED BY <2>2, <2>3, <3>1 DEF JobInv, Dead, Active, Terminal
  <2> QED BY <2>1, <2>3, <2>4, <2>5
<1> QED BY <1>1, ManagerCorrect, PTL DEF Spec, OnlyRestartRewrites
=============================================================================
