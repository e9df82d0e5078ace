-------------------------- MODULE JobServerProofs --------------------------
(***************************************************************************)
(* Theorems about JobServer: for any number of nodes, jobs and batches,    *)
(* and whatever fails, a job has one worker, a migration one job at a      *)
(* time, an ended job stays ended, and a job that succeeded has executed   *)
(* all its batches, but for what an indexer taken up again leaves out.  A  *)
(* lemma for each group of conjuncts of the invariant, and in it a step    *)
(* for each action.                                                        *)
(***************************************************************************)
EXTENDS JobServer, TLAPS

\* A job that a worker works on has been claimed and not given back; it is still
\* under way unless the worker has come to the end of it.
StatusInv ==
    \A w \in Worker : \A j \in Job \ forced : WorksOn(w, j) =>
        /\ status[j] \in {"in_progress", "cancel_requested", "error", "success"}
        /\ worker[w].pc \in {"work", "progress", "finish"} =>
               status[j] \in {"in_progress", "cancel_requested"}

\* All kinds of entities are done, or the last batch of the last one.
Complete(w) == \/ worker[w].phase > Phases
               \/ worker[w].phase = Phases /\ worker[w].batch = Last

\* A worker has executed what comes before where it stands, or somebody has before
\* it: but not what comes, of the further kinds of entities, before where it began.
Covered(w) ==
    \A p \in 1..Phases, b \in 1..Last :
        p < worker[w].phase \/ (p = worker[w].phase /\ b <= worker[w].batch) =>
            <<p, b>> \in done[worker[w].job] \/ (p > 1 /\ b <= worker[w].start)

\* Data never runs ahead of the batches executed.
SavedInv ==
    \A j \in Job : saved[j] <= Last /\ \A b \in 1..saved[j] : <<1, b>> \in done[j]

\* Nor does a worker: only an indexer goes on from kind to kind, and only a worker
\* that has done the last batch comes to setJobSuccess.
WorkersInv ==
    \A w \in Worker :
        /\ worker[w].batch <= Last /\ worker[w].start <= Last
        /\ worker[w].phase > 1 => kind = "indexer"
        /\ worker[w].pc = "work" => worker[w].phase <= Phases
        /\ worker[w].pc \in Working =>
              worker[w].start <= resumedAt[worker[w].job] /\ Covered(w)
        /\ worker[w].pc \notin Working => worker[w].next = "idle" /\ worker[w].phase = 1
        /\ worker[w].pc \in {"finish", "success"} \/ worker[w].next = "success" =>
              Complete(w)

BatchInv == SavedInv /\ WorkersInv

\* Nobody cancels migrations, and one at most is pending or in progress.
MigrationInv ==
    kind = "batch" =>
        /\ asked = {} /\ forced = {}
        /\ \A j \in Job : status[j] # "cancel_requested"
        /\ \A i, j \in Job : Unfinished(i) /\ Unfinished(j) => i = j

IInv == /\ TypeOK /\ OneWorker /\ StatusInv /\ BatchInv /\ SuccessIsComplete
        /\ MigrationInv

USE JobServerAssumption
USE DEF table, history, work

-----------------------------------------------------------------------------
\* The records of the workers.

LEMMA NoJobIsNoJob == NoJob \notin Job
  BY DEF NoJob, Job

LEMMA LastIsNat == TypeOK => Last \in Nat /\ Last <= Batches /\ Last >= 1
  BY DEF TypeOK, Last

LEMMA PhasesIsNat == Phases \in Nat /\ Phases <= Entities /\ Phases >= 1
  BY DEF Phases

\* What may be assigned to the fields of a record
LEMMA WorkerFields ==
  ASSUME NEW r \in WorkerState
  PROVE  /\ r.batch \in 0..Batches /\ r.start \in 0..Batches
         /\ r.phase \in 1..Entities + 1 /\ r.next \in {"idle", "success"}
         /\ \A x \in PCs :
               /\ [r EXCEPT !.pc = x] \in WorkerState
               /\ \A y \in 0..Batches : [r EXCEPT !.pc = x, !.batch = y] \in WorkerState
               /\ \A y, z \in 0..Batches :
                     [r EXCEPT !.pc = x, !.batch = y, !.start = z] \in WorkerState
               /\ \A n \in 1..Entities + 1, y \in 0..Batches :
                     [r EXCEPT !.phase = n, !.batch = y, !.pc = x] \in WorkerState
               /\ \A y \in {"idle", "success"} :
                     [r EXCEPT !.pc = x, !.next = y] \in WorkerState
               /\ \A y \in Job : [r EXCEPT !.pc = x, !.job = y] \in WorkerState
         /\ [r EXCEPT !.cancel = TRUE] \in WorkerState
  BY DEF WorkerState

LEMMA IdleAndOff == Idle \in WorkerState /\ Off \in WorkerState
  <1>1. Idle \in WorkerState BY DEF WorkerState, Idle, PCs
  <1>2. QED BY <1>1, WorkerFields DEF Off, PCs

\* A worker that has or claims a job
LEMMA WorkerJob ==
  ASSUME TypeOK, NEW w \in Worker
  PROVE  /\ worker[w] \in WorkerState /\ worker[w].batch \in 0..Batches
         /\ worker[w].start \in 0..Batches /\ worker[w].phase \in 1..Entities + 1
         /\ worker[w].pc \notin {"off", "idle"} => worker[w].job \in Job
  BY DEF TypeOK, WorkerState

LEMMA RecordTyped ==
  ASSUME worker \in [Worker -> WorkerState], NEW w \in Worker, NEW r \in WorkerState
  PROVE  [worker EXCEPT ![w] = r] \in [Worker -> WorkerState]
  OBVIOUS

\* What Goto, Return and AfterError do to the records
LEMMA GotoTyped ==
  ASSUME TypeOK, NEW w \in Worker, NEW pc \in PCs, Goto(w, pc)
  PROVE  worker' \in [Worker -> WorkerState]
  BY WorkerJob, WorkerFields DEF TypeOK, Goto

LEMMA ReturnTyped ==
  ASSUME TypeOK, NEW w \in Worker, Return(w)
  PROVE  worker' \in [Worker -> WorkerState]
  BY IdleAndOff DEF TypeOK, Return

LEMMA AfterErrorTyped ==
  ASSUME TypeOK, NEW w \in Worker, AfterError(w)
  PROVE  worker' \in [Worker -> WorkerState]
  <1>1. worker[w] \in WorkerState /\ [worker[w] EXCEPT !.pc = "success"] \in WorkerState
    BY WorkerJob, WorkerFields DEF PCs
  <1>2. QED BY <1>1, IdleAndOff DEF TypeOK, AfterError

-----------------------------------------------------------------------------
\* Every step keeps the types, ...

\* ... those of the workers' records, ...
LEMMA WorkerStep ==
  ASSUME TypeOK, BatchInv, Next
  PROVE  worker' \in [Worker -> WorkerState]
  <1>a. worker \in [Worker -> WorkerState] BY DEF TypeOK
  <1> USE DEF PCs
  <1>1. ASSUME NEW w \in Worker, Claim(w) PROVE worker' \in [Worker -> WorkerState]
    <2>1. worker[w] \in WorkerState BY WorkerJob
    <2>2. CASE status[worker[w].job] = "pending"
      <3>1. worker[w].job \in Job BY <1>1, WorkerJob DEF Claim
      <3>2. saved[worker[w].job] \in 0..Batches BY <3>1 DEF TypeOK
      <3> DEFINE start == IF kind = "indexer" THEN saved[worker[w].job] ELSE 0
      <3>3. start \in 0..Batches BY <3>2
      <3>4. Begin(w, worker[w].job) =
               [worker[w] EXCEPT !.pc = "work", !.batch = saved[worker[w].job], !.start = start]
        BY DEF Begin
      <3> HIDE DEF start
      <3>5. Begin(w, worker[w].job) \in WorkerState
        <4>1. "work" \in PCs OBVIOUS
        <4>2. \A y, z \in 0..Batches :
                 [worker[w] EXCEPT !.pc = "work", !.batch = y, !.start = z] \in WorkerState
          BY <2>1, <4>1, WorkerFields, Zenon
        <4>3. QED BY <3>2, <3>3, <3>4, <4>2, Zenon
      <3>6. worker' = [worker EXCEPT ![w] = Begin(w, worker[w].job)]
        BY <1>1, <2>2 DEF Claim
      <3>7. QED BY <3>5, <3>6, <1>a, RecordTyped, Zenon
    <2>3. CASE status[worker[w].job] # "pending"
      BY <1>1, <2>3, <1>a, IdleAndOff DEF Claim
    <2>4. QED BY <2>2, <2>3
  <1>2. ASSUME NEW w \in Worker, DoBatch(w)
      PROVE worker' \in [Worker -> WorkerState]
    <2>1. worker[w] \in WorkerState /\ worker[w].batch \in 0..Batches BY WorkerJob
    <2> DEFINE next == worker[w].batch + 1
               pc == IF next = Last /\ kind # "indexer" THEN "finish" ELSE "progress"
    <2>2. CASE next <= Last /\ worker' = [worker EXCEPT ![w].batch = next, ![w].pc = pc]
      <3>1. worker' = [worker EXCEPT ![w] = [worker[w] EXCEPT !.pc = pc, !.batch = next]]
        BY <2>2, <1>a
      <3>2. next \in 0..Batches /\ pc \in PCs
        BY <2>1, <2>2, LastIsNat
      <3>3. QED BY <1>a, <2>1, <3>1, <3>2, WorkerFields
    <2>3. CASE Goto(w, "finish")
      BY <2>3, GotoTyped
    <2>4. CASE EndPhase(w)
      <3> DEFINE r == [worker[w] EXCEPT !.phase = worker[w].phase + 1,
                                        !.batch = worker[w].start, !.pc = "progress"]
      <3>1. worker' = [worker EXCEPT ![w] = r] BY <2>4, <1>a DEF EndPhase
      <3>2. worker[w].phase + 1 \in 1..Entities + 1 /\ worker[w].start \in 0..Batches
        BY <1>2, WorkerJob, PhasesIsNat DEF DoBatch, BatchInv, WorkersInv
      <3>3. r \in WorkerState BY <2>1, <3>2, WorkerFields
      <3>4. QED BY <1>a, <3>1, <3>3
    <2>5. QED BY <1>2, <2>2, <2>3, <2>4 DEF DoBatch
  <1>3. ASSUME NEW w \in Worker, Progress(w)
      PROVE worker' \in [Worker -> WorkerState]
    BY <1>3, GotoTyped DEF Progress
  <1>4. ASSUME NEW w \in Worker, Finish(w) PROVE worker' \in [Worker -> WorkerState]
    BY <1>4, GotoTyped DEF Finish
  <1>5. ASSUME NEW w \in Worker, Succeed(w)
      PROVE worker' \in [Worker -> WorkerState]
    BY <1>5, ReturnTyped DEF Succeed
  <1>6. ASSUME NEW w \in Worker, SetJobError(w)
      PROVE worker' \in [Worker -> WorkerState]
    BY <1>6, GotoTyped, AfterErrorTyped DEF SetJobError
  <1>7. ASSUME NEW w \in Worker, SetJobErrorCancelled(w)
      PROVE worker' \in [Worker -> WorkerState]
    BY <1>7, AfterErrorTyped DEF SetJobErrorCancelled
  <1>8. ASSUME NEW w \in Worker, Stopped(w)
      PROVE worker' \in [Worker -> WorkerState]
    BY <1>8, <1>a, IdleAndOff DEF Stopped
  <1>9. ASSUME NEW w \in Worker, StopJob(w)
      PROVE worker' \in [Worker -> WorkerState]
    BY <1>9, ReturnTyped DEF StopJob
  <1>10. ASSUME NEW w \in Worker, CancelJob(w)
      PROVE worker' \in [Worker -> WorkerState]
    BY <1>10, ReturnTyped DEF CancelJob
  <1>11. ASSUME NEW w \in Worker, ClaimError(w)
      PROVE worker' \in [Worker -> WorkerState]
    BY <1>11, ReturnTyped DEF ClaimError
  <1>12. ASSUME NEW w \in Worker, BatchError(w)
      PROVE worker' \in [Worker -> WorkerState]
    BY <1>12, GotoTyped DEF BatchError
  <1>13. ASSUME NEW w \in Worker, ProgressError(w)
      PROVE worker' \in [Worker -> WorkerState]
    BY <1>13, GotoTyped DEF ProgressError
  <1>14. ASSUME NEW w \in Worker, FinishError(w)
      PROVE worker' \in [Worker -> WorkerState]
    BY <1>14, <1>a, WorkerJob, WorkerFields DEF FinishError
  <1>15. ASSUME NEW w \in Worker, SucceedError(w)
      PROVE worker' \in [Worker -> WorkerState]
    BY <1>15, <1>a, WorkerJob, WorkerFields DEF SucceedError
  <1>16. ASSUME NEW w \in Worker, SetJobErrorFails(w)
      PROVE worker' \in [Worker -> WorkerState]
    BY <1>16, AfterErrorTyped DEF SetJobErrorFails
  <1>17. ASSUME NEW w \in Worker, ResetJob(w)
      PROVE worker' \in [Worker -> WorkerState]
    BY <1>17, ReturnTyped DEF ResetJob
  <1>18. ASSUME NEW w \in Worker, Crash(w) PROVE worker' \in [Worker -> WorkerState]
    BY <1>18, <1>a, IdleAndOff DEF Crash
  <1>19. ASSUME NEW w \in Worker, StopJobError(w)
      PROVE worker' \in [Worker -> WorkerState]
    BY <1>19, ReturnTyped DEF StopJobError
  <1>20. ASSUME NEW w \in Worker, CancelJobError(w)
      PROVE worker' \in [Worker -> WorkerState]
    BY <1>20, ReturnTyped DEF CancelJobError
  <1>21. ASSUME NEW w \in Worker, Stop(w) PROVE worker' \in [Worker -> WorkerState]
    BY <1>21, <1>a DEF Stop
  <1>22. ASSUME NEW w \in Worker, Start(w) PROVE worker' \in [Worker -> WorkerState]
    BY <1>22, <1>a, IdleAndOff DEF Start
  <1>23. ASSUME NEW w \in Worker, WatchCancellation(w)
      PROVE worker' \in [Worker -> WorkerState]
    BY <1>23, <1>a, WorkerJob, WorkerFields DEF WatchCancellation
  <1>24. ASSUME NEW w \in Worker, NEW j \in Job, Notify(w, j)
      PROVE worker' \in [Worker -> WorkerState]
    BY <1>24, <1>a, WorkerJob, WorkerFields DEF Notify
  <1>25. ASSUME NEW j \in Job, CreateJob(j) \/ CreateJobOnce(j)
      PROVE worker' \in [Worker -> WorkerState]
    BY <1>25, <1>a DEF CreateJob, CreateJobOnce, Insert
  <1>26. ASSUME NEW j \in Job, RequestCancellation(j)
      PROVE worker' \in [Worker -> WorkerState]
    BY <1>26, <1>a DEF RequestCancellation
  <1>27. ASSUME NEW j \in Job, AskWorker(j)
      PROVE worker' \in [Worker -> WorkerState]
    BY <1>27, <1>a DEF AskWorker
  <1>28. ASSUME NEW j \in Job, SetStatus(j)
      PROVE worker' \in [Worker -> WorkerState]
    BY <1>28, <1>a DEF SetStatus
  <1>29. QED
    BY <1>1, <1>2, <1>3, <1>4, <1>5, <1>6, <1>7, <1>8, <1>9, <1>10, <1>11,
       <1>12, <1>13, <1>14, <1>15, <1>16, <1>17, <1>18, <1>19, <1>20, <1>21,
       <1>22, <1>23, <1>24, <1>25, <1>26, <1>27, <1>28
       DEF Next, Run, Watch, Failure

JobsOK == \A v \in Worker : worker[v].job = NoJob <=> worker[v].pc \in {"off", "idle"}

\* ... who have a job when they work, ...
LEMMA WorkerJobStep ==
  ASSUME TypeOK, Next
  PROVE  JobsOK'
  <1>a. /\ worker \in [Worker -> WorkerState] /\ JobsOK
        /\ \A v \in Worker : worker[v] = [pc |-> worker[v].pc, job |-> worker[v].job,
              phase |-> worker[v].phase, batch |-> worker[v].batch,
              start |-> worker[v].start, next |-> worker[v].next, cancel |-> worker[v].cancel]
    BY DEF TypeOK, WorkerState, JobsOK
  <1> USE DEF JobsOK, Idle, Off
  <1>1. ASSUME NEW w \in Worker, Claim(w) PROVE JobsOK'
    BY <1>1, <1>a, NoJobIsNoJob DEF Claim, Begin
  <1>2. ASSUME NEW w \in Worker, DoBatch(w) PROVE JobsOK'
    BY <1>2, <1>a, NoJobIsNoJob DEF DoBatch, EndPhase, Goto
  <1>3. ASSUME NEW w \in Worker, Progress(w) PROVE JobsOK'
    BY <1>3, <1>a, NoJobIsNoJob DEF Progress, Goto
  <1>4. ASSUME NEW w \in Worker, Finish(w) PROVE JobsOK'
    BY <1>4, <1>a, NoJobIsNoJob DEF Finish, Goto
  <1>5. ASSUME NEW w \in Worker, Succeed(w) PROVE JobsOK'
    BY <1>5, <1>a, NoJobIsNoJob DEF Succeed, Return
  <1>6. ASSUME NEW w \in Worker, SetJobError(w) PROVE JobsOK'
    BY <1>6, <1>a, NoJobIsNoJob DEF SetJobError, AfterError, Goto
  <1>7. ASSUME NEW w \in Worker, SetJobErrorCancelled(w) PROVE JobsOK'
    BY <1>7, <1>a, NoJobIsNoJob DEF SetJobErrorCancelled, AfterError
  <1>8. ASSUME NEW w \in Worker, Stopped(w) PROVE JobsOK'
    BY <1>8, <1>a, NoJobIsNoJob DEF Stopped
  <1>9. ASSUME NEW w \in Worker, StopJob(w) PROVE JobsOK'
    BY <1>9, <1>a, NoJobIsNoJob DEF StopJob, Return
  <1>10. ASSUME NEW w \in Worker, CancelJob(w) PROVE JobsOK'
    BY <1>10, <1>a, NoJobIsNoJob DEF CancelJob, Return
  <1>11. ASSUME NEW w \in Worker, ClaimError(w) PROVE JobsOK'
    BY <1>11, <1>a, NoJobIsNoJob DEF ClaimError, Return
  <1>12. ASSUME NEW w \in Worker, BatchError(w) PROVE JobsOK'
    BY <1>12, <1>a, NoJobIsNoJob DEF BatchError, Goto
  <1>13. ASSUME NEW w \in Worker, ProgressError(w) PROVE JobsOK'
    BY <1>13, <1>a, NoJobIsNoJob DEF ProgressError, Goto
  <1>14. ASSUME NEW w \in Worker, FinishError(w) PROVE JobsOK'
    BY <1>14, <1>a, NoJobIsNoJob DEF FinishError
  <1>15. ASSUME NEW w \in Worker, SucceedError(w) PROVE JobsOK'
    BY <1>15, <1>a, NoJobIsNoJob DEF SucceedError
  <1>16. ASSUME NEW w \in Worker, SetJobErrorFails(w) PROVE JobsOK'
    BY <1>16, <1>a, NoJobIsNoJob DEF SetJobErrorFails, AfterError
  <1>17. ASSUME NEW w \in Worker, ResetJob(w) PROVE JobsOK'
    BY <1>17, <1>a, NoJobIsNoJob DEF ResetJob, Return
  <1>18. ASSUME NEW w \in Worker, Crash(w) PROVE JobsOK'
    BY <1>18, <1>a, NoJobIsNoJob DEF Crash
  <1>19. ASSUME NEW w \in Worker, StopJobError(w) PROVE JobsOK'
    BY <1>19, <1>a, NoJobIsNoJob DEF StopJobError, Return
  <1>20. ASSUME NEW w \in Worker, CancelJobError(w) PROVE JobsOK'
    BY <1>20, <1>a, NoJobIsNoJob DEF CancelJobError, Return
  <1>21. ASSUME NEW w \in Worker, Stop(w) PROVE JobsOK'
    BY <1>21, <1>a, NoJobIsNoJob DEF Stop
  <1>22. ASSUME NEW w \in Worker, Start(w) PROVE JobsOK'
    BY <1>22, <1>a, NoJobIsNoJob DEF Start
  <1>23. ASSUME NEW w \in Worker, WatchCancellation(w) PROVE JobsOK'
    BY <1>23, <1>a, NoJobIsNoJob DEF WatchCancellation
  <1>24. ASSUME NEW w \in Worker, NEW j \in Job, Notify(w, j) PROVE JobsOK'
    BY <1>24, <1>a, NoJobIsNoJob DEF Notify
  <1>25. ASSUME NEW j \in Job, CreateJob(j) \/ CreateJobOnce(j)
      PROVE JobsOK'
    BY <1>25, <1>a, NoJobIsNoJob DEF CreateJob, CreateJobOnce, Insert
  <1>26. ASSUME NEW j \in Job, RequestCancellation(j) PROVE JobsOK'
    BY <1>26, <1>a, NoJobIsNoJob DEF RequestCancellation
  <1>27. ASSUME NEW j \in Job, AskWorker(j) PROVE JobsOK'
    BY <1>27, <1>a, NoJobIsNoJob DEF AskWorker
  <1>28. ASSUME NEW j \in Job, SetStatus(j) PROVE JobsOK'
    BY <1>28, <1>a, NoJobIsNoJob DEF SetStatus
  <1>29. QED
    BY <1>1, <1>2, <1>3, <1>4, <1>5, <1>6, <1>7, <1>8, <1>9, <1>10, <1>11,
       <1>12, <1>13, <1>14, <1>15, <1>16, <1>17, <1>18, <1>19, <1>20, <1>21,
       <1>22, <1>23, <1>24, <1>25, <1>26, <1>27, <1>28
       DEF Next, Run, Watch, Failure

TableOK == /\ status \in [Job -> Status] /\ saved \in [Job -> 0..Batches]
           /\ done \in [Job -> SUBSET ((1..Entities) \X (1..Batches))]
           /\ resumedAt \in [Job -> 0..Batches]

\* ... those of the table and of the batches done, ...
LEMMA TableStep ==
  ASSUME TypeOK, BatchInv, Next
  PROVE  TableOK'
  <1>a. TableOK BY DEF TypeOK, TableOK
  <1> USE DEF TableOK, Status, PCs
  <1>1. ASSUME NEW w \in Worker, Claim(w) PROVE TableOK'
    BY <1>1, <1>a, WorkerJob, LastIsNat DEF Claim, UpdateOptimistically, Resumed
  <1>2. ASSUME NEW w \in Worker, DoBatch(w) PROVE TableOK'
    BY <1>2, <1>a, WorkerJob, LastIsNat, PhasesIsNat DEF DoBatch, Execute, BatchInv, WorkersInv
  <1>3. ASSUME NEW w \in Worker, Progress(w) PROVE TableOK'
    BY <1>3, <1>a, WorkerJob, LastIsNat DEF Progress, SaveData
  <1>4. ASSUME NEW w \in Worker, Finish(w) PROVE TableOK'
    BY <1>4, <1>a, WorkerJob, LastIsNat DEF Finish, SaveData
  <1>5. ASSUME NEW w \in Worker, Succeed(w) PROVE TableOK'
    BY <1>5, <1>a, WorkerJob, LastIsNat DEF Succeed, UpdateStatus
  <1>6. ASSUME NEW w \in Worker, SetJobError(w) PROVE TableOK'
    BY <1>6, <1>a, WorkerJob, LastIsNat DEF SetJobError, UpdateOptimistically,
       SaveData
  <1>7. ASSUME NEW w \in Worker, SetJobErrorCancelled(w) PROVE TableOK'
    BY <1>7, <1>a, WorkerJob, LastIsNat DEF SetJobErrorCancelled,
       UpdateOptimistically, SaveData
  <1>8. ASSUME NEW w \in Worker, Stopped(w) PROVE TableOK'
    BY <1>8, <1>a, WorkerJob, LastIsNat DEF Stopped
  <1>9. ASSUME NEW w \in Worker, StopJob(w) PROVE TableOK'
    BY <1>9, <1>a, WorkerJob, LastIsNat DEF StopJob, UpdateStatus
  <1>10. ASSUME NEW w \in Worker, CancelJob(w) PROVE TableOK'
    BY <1>10, <1>a, WorkerJob, LastIsNat DEF CancelJob, UpdateStatus
  <1>11. ASSUME NEW w \in Worker, ClaimError(w) PROVE TableOK'
    BY <1>11, <1>a, WorkerJob, LastIsNat DEF ClaimError, UpdateStatus
  <1>12. ASSUME NEW w \in Worker, BatchError(w) PROVE TableOK'
    BY <1>12, <1>a, WorkerJob, LastIsNat DEF BatchError
  <1>13. ASSUME NEW w \in Worker, ProgressError(w) PROVE TableOK'
    BY <1>13, <1>a, WorkerJob, LastIsNat DEF ProgressError, SaveData
  <1>14. ASSUME NEW w \in Worker, FinishError(w) PROVE TableOK'
    BY <1>14, <1>a, WorkerJob, LastIsNat DEF FinishError, SaveData
  <1>15. ASSUME NEW w \in Worker, SucceedError(w) PROVE TableOK'
    BY <1>15, <1>a, WorkerJob, LastIsNat DEF SucceedError, UpdateStatus
  <1>16. ASSUME NEW w \in Worker, SetJobErrorFails(w) PROVE TableOK'
    BY <1>16, <1>a, WorkerJob, LastIsNat DEF SetJobErrorFails, UpdateOptimistically
  <1>17. ASSUME NEW w \in Worker, ResetJob(w) PROVE TableOK'
    BY <1>17, <1>a, WorkerJob, LastIsNat DEF ResetJob, UpdateOptimistically,
       SaveData
  <1>18. ASSUME NEW w \in Worker, Crash(w) PROVE TableOK'
    BY <1>18, <1>a, WorkerJob, LastIsNat DEF Crash, UpdateStatus
  <1>19. ASSUME NEW w \in Worker, StopJobError(w) PROVE TableOK'
    BY <1>19, <1>a, WorkerJob, LastIsNat DEF StopJobError, UpdateStatus
  <1>20. ASSUME NEW w \in Worker, CancelJobError(w) PROVE TableOK'
    BY <1>20, <1>a, WorkerJob, LastIsNat DEF CancelJobError, UpdateStatus
  <1>21. ASSUME NEW w \in Worker, Stop(w) PROVE TableOK'
    BY <1>21, <1>a, WorkerJob, LastIsNat DEF Stop
  <1>22. ASSUME NEW w \in Worker, Start(w) PROVE TableOK'
    BY <1>22, <1>a, WorkerJob, LastIsNat DEF Start
  <1>23. ASSUME NEW w \in Worker, WatchCancellation(w) PROVE TableOK'
    BY <1>23, <1>a, WorkerJob, LastIsNat DEF WatchCancellation
  <1>24. ASSUME NEW w \in Worker, NEW j \in Job, Notify(w, j) PROVE TableOK'
    BY <1>24, <1>a, WorkerJob, LastIsNat DEF Notify
  <1>25. ASSUME NEW j \in Job, CreateJob(j) \/ CreateJobOnce(j)
      PROVE TableOK'
    BY <1>25, <1>a, WorkerJob, LastIsNat
       DEF CreateJob, CreateJobOnce, Insert, UpdateStatus
  <1>26. ASSUME NEW j \in Job, RequestCancellation(j) PROVE TableOK'
    BY <1>26, <1>a, WorkerJob, LastIsNat DEF RequestCancellation,
       UpdateOptimistically
  <1>27. ASSUME NEW j \in Job, AskWorker(j) PROVE TableOK'
    BY <1>27, <1>a, WorkerJob, LastIsNat DEF AskWorker, UpdateOptimistically
  <1>28. ASSUME NEW j \in Job, SetStatus(j) PROVE TableOK'
    BY <1>28, <1>a, WorkerJob, LastIsNat DEF SetStatus, UpdateStatus
  <1>29. QED
    BY <1>1, <1>2, <1>3, <1>4, <1>5, <1>6, <1>7, <1>8, <1>9, <1>10, <1>11,
       <1>12, <1>13, <1>14, <1>15, <1>16, <1>17, <1>18, <1>19, <1>20, <1>21,
       <1>22, <1>23, <1>24, <1>25, <1>26, <1>27, <1>28
       DEF Next, Run, Watch, Failure

SetsOK == /\ kind \in Kinds /\ stopping \subseteq Worker /\ asked \subseteq Job
          /\ forced \subseteq Job /\ failed \subseteq Job /\ events \in 0..MaxEvents

\* ... and those of the sets and of the counter.
LEMMA SetsStep ==
  ASSUME TypeOK, Next
  PROVE  SetsOK'
  <1>a. SetsOK BY DEF TypeOK, SetsOK
  <1> USE DEF SetsOK, PCs, Working
  <1>1. ASSUME NEW w \in Worker, Claim(w) PROVE SetsOK'
    BY <1>1, <1>a, WorkerJob DEF Claim
  <1>2. ASSUME NEW w \in Worker, DoBatch(w) PROVE SetsOK'
    BY <1>2, <1>a, WorkerJob DEF DoBatch
  <1>3. ASSUME NEW w \in Worker, Progress(w) PROVE SetsOK'
    BY <1>3, <1>a, WorkerJob DEF Progress
  <1>4. ASSUME NEW w \in Worker, Finish(w) PROVE SetsOK'
    BY <1>4, <1>a, WorkerJob DEF Finish
  <1>5. ASSUME NEW w \in Worker, Succeed(w) PROVE SetsOK'
    BY <1>5, <1>a, WorkerJob DEF Succeed
  <1>6. ASSUME NEW w \in Worker, SetJobError(w) PROVE SetsOK'
    BY <1>6, <1>a, WorkerJob DEF SetJobError
  <1>7. ASSUME NEW w \in Worker, SetJobErrorCancelled(w) PROVE SetsOK'
    BY <1>7, <1>a, WorkerJob DEF SetJobErrorCancelled
  <1>8. ASSUME NEW w \in Worker, Stopped(w) PROVE SetsOK'
    BY <1>8, <1>a, WorkerJob DEF Stopped
  <1>9. ASSUME NEW w \in Worker, StopJob(w) PROVE SetsOK'
    BY <1>9, <1>a, WorkerJob DEF StopJob
  <1>10. ASSUME NEW w \in Worker, CancelJob(w) PROVE SetsOK'
    BY <1>10, <1>a, WorkerJob DEF CancelJob
  <1>11. ASSUME NEW w \in Worker, ClaimError(w) PROVE SetsOK'
    BY <1>11, <1>a, WorkerJob DEF ClaimError, Event
  <1>12. ASSUME NEW w \in Worker, BatchError(w) PROVE SetsOK'
    BY <1>12, <1>a, WorkerJob DEF BatchError, Event
  <1>13. ASSUME NEW w \in Worker, ProgressError(w) PROVE SetsOK'
    BY <1>13, <1>a, WorkerJob DEF ProgressError, Event
  <1>14. ASSUME NEW w \in Worker, FinishError(w) PROVE SetsOK'
    BY <1>14, <1>a, WorkerJob DEF FinishError, Event
  <1>15. ASSUME NEW w \in Worker, SucceedError(w) PROVE SetsOK'
    BY <1>15, <1>a, WorkerJob DEF SucceedError, Event
  <1>16. ASSUME NEW w \in Worker, SetJobErrorFails(w) PROVE SetsOK'
    BY <1>16, <1>a, WorkerJob DEF SetJobErrorFails, Event
  <1>17. ASSUME NEW w \in Worker, ResetJob(w) PROVE SetsOK'
    BY <1>17, <1>a, WorkerJob DEF ResetJob, Event
  <1>18. ASSUME NEW w \in Worker, Crash(w) PROVE SetsOK'
    BY <1>18, <1>a, WorkerJob DEF Crash, Event
  <1>19. ASSUME NEW w \in Worker, StopJobError(w) PROVE SetsOK'
    BY <1>19, <1>a, WorkerJob DEF StopJobError, Event
  <1>20. ASSUME NEW w \in Worker, CancelJobError(w) PROVE SetsOK'
    BY <1>20, <1>a, WorkerJob DEF CancelJobError, Event
  <1>21. ASSUME NEW w \in Worker, Stop(w) PROVE SetsOK'
    BY <1>21, <1>a, WorkerJob DEF Stop, Event
  <1>22. ASSUME NEW w \in Worker, Start(w) PROVE SetsOK'
    BY <1>22, <1>a, WorkerJob DEF Start
  <1>23. ASSUME NEW w \in Worker, WatchCancellation(w) PROVE SetsOK'
    BY <1>23, <1>a, WorkerJob DEF WatchCancellation
  <1>24. ASSUME NEW w \in Worker, NEW j \in Job, Notify(w, j) PROVE SetsOK'
    BY <1>24, <1>a, WorkerJob DEF Notify
  <1>25. ASSUME NEW j \in Job, CreateJob(j) \/ CreateJobOnce(j)
      PROVE SetsOK'
    BY <1>25, <1>a, WorkerJob DEF CreateJob, CreateJobOnce, Insert
  <1>26. ASSUME NEW j \in Job, RequestCancellation(j) PROVE SetsOK'
    BY <1>26, <1>a, WorkerJob DEF RequestCancellation, Event
  <1>27. ASSUME NEW j \in Job, AskWorker(j) PROVE SetsOK'
    BY <1>27, <1>a, WorkerJob DEF AskWorker
  <1>28. ASSUME NEW j \in Job, SetStatus(j) PROVE SetsOK'
    BY <1>28, <1>a, WorkerJob DEF SetStatus, Event
  <1>29. QED
    BY <1>1, <1>2, <1>3, <1>4, <1>5, <1>6, <1>7, <1>8, <1>9, <1>10, <1>11,
       <1>12, <1>13, <1>14, <1>15, <1>16, <1>17, <1>18, <1>19, <1>20, <1>21,
       <1>22, <1>23, <1>24, <1>25, <1>26, <1>27, <1>28
       DEF Next, Run, Watch, Failure

LEMMA TypeStep == TypeOK /\ BatchInv /\ Next => TypeOK'
  BY WorkerStep, WorkerJobStep, TableStep, SetsStep DEF TypeOK, TableOK, SetsOK,
     JobsOK

-----------------------------------------------------------------------------
\* Every step keeps what makes it an invariant.

\* A worker that claims a job finds it pending, which no job is that is worked on.
LEMMA OwnerStep ==
  ASSUME TypeOK, TypeOK', OneWorker, StatusInv, Next
  PROVE  OneWorker' /\ StatusInv'
  <1>a. worker \in [Worker -> WorkerState] /\ status \in [Job -> Status] /\ JobsOK
    BY DEF TypeOK, JobsOK
  <1> USE DEF JobsOK, OneWorker, StatusInv, WorksOn, WorkerState, Working, PCs, Status, Idle, Off
  <1>1. ASSUME NEW w \in Worker, Claim(w) PROVE OneWorker' /\ StatusInv'
    BY <1>1, <1>a, NoJobIsNoJob DEF Claim, Begin, UpdateOptimistically
  <1>2. ASSUME NEW w \in Worker, DoBatch(w) PROVE OneWorker' /\ StatusInv'
    <2>1. /\ UNCHANGED <<status, forced>>
          /\ worker' \in [Worker -> WorkerState]
          /\ \A v \in Worker : worker'[v].job = worker[v].job
          /\ \A v \in Worker \ {w} : worker'[v].pc = worker[v].pc
          /\ worker[w].pc = "work" /\ worker'[w].pc \in {"finish", "progress"}
      <3> HIDE DEF OneWorker, StatusInv, WorksOn, WorkerState, Idle, Off
      <3>1. /\ UNCHANGED <<status, forced>> /\ worker[w].pc = "work"
            /\ worker' \in [Worker -> WorkerState]
        BY <1>2 DEF DoBatch, TypeOK
      <3>2. CASE Goto(w, "finish") BY <3>1, <3>2, <1>a DEF Goto
      <3>3. CASE EndPhase(w) BY <3>1, <3>3, <1>a DEF EndPhase
      <3>4. CASE worker' = [worker EXCEPT ![w].batch = worker[w].batch + 1, ![w].pc =
                      IF worker[w].batch + 1 = Last /\ kind # "indexer" THEN "finish" ELSE "progress"]
        BY <3>1, <3>4, <1>a
      <3>5. QED BY <1>2, <3>2, <3>3, <3>4 DEF DoBatch
    <2>2. QED BY <2>1
  <1>3. ASSUME NEW w \in Worker, Progress(w) PROVE OneWorker' /\ StatusInv'
    BY <1>3, <1>a, NoJobIsNoJob DEF Progress, SaveData, Goto
  <1>4. ASSUME NEW w \in Worker, Finish(w) PROVE OneWorker' /\ StatusInv'
    BY <1>4, <1>a, NoJobIsNoJob DEF Finish, SaveData, Goto
  <1>5. ASSUME NEW w \in Worker, Succeed(w) PROVE OneWorker' /\ StatusInv'
    BY <1>5, <1>a, NoJobIsNoJob DEF Succeed, UpdateStatus, Return
  <1>6. ASSUME NEW w \in Worker, SetJobError(w) PROVE OneWorker' /\ StatusInv'
    <2>1. CASE status[worker[w].job] = "in_progress"
      BY <1>6, <2>1, <1>a, NoJobIsNoJob DEF SetJobError, UpdateOptimistically, AfterError
    <2>2. CASE status[worker[w].job] # "in_progress"
      BY <1>6, <2>2, <1>a, NoJobIsNoJob DEF SetJobError, UpdateOptimistically, Goto
    <2>3. QED BY <2>1, <2>2
  <1>7. ASSUME NEW w \in Worker, SetJobErrorCancelled(w)
      PROVE OneWorker' /\ StatusInv'
    BY <1>7, <1>a, NoJobIsNoJob DEF SetJobErrorCancelled, UpdateOptimistically,
       SaveData, AfterError
  <1>8. ASSUME NEW w \in Worker, Stopped(w) PROVE OneWorker' /\ StatusInv'
    BY <1>8, <1>a, NoJobIsNoJob DEF Stopped
  <1>9. ASSUME NEW w \in Worker, StopJob(w) PROVE OneWorker' /\ StatusInv'
    BY <1>9, <1>a, NoJobIsNoJob DEF StopJob, UpdateStatus, Return
  <1>10. ASSUME NEW w \in Worker, CancelJob(w) PROVE OneWorker' /\ StatusInv'
    BY <1>10, <1>a, NoJobIsNoJob DEF CancelJob, UpdateStatus, Return
  <1>11. ASSUME NEW w \in Worker, ClaimError(w) PROVE OneWorker' /\ StatusInv'
    BY <1>11, <1>a, NoJobIsNoJob DEF ClaimError, Event, UpdateStatus, Return
  <1>12. ASSUME NEW w \in Worker, BatchError(w) PROVE OneWorker' /\ StatusInv'
    BY <1>12, <1>a, NoJobIsNoJob DEF BatchError, Event, Goto
  <1>13. ASSUME NEW w \in Worker, ProgressError(w) PROVE OneWorker' /\ StatusInv'
    BY <1>13, <1>a, NoJobIsNoJob DEF ProgressError, Event, SaveData, Goto
  <1>14. ASSUME NEW w \in Worker, FinishError(w) PROVE OneWorker' /\ StatusInv'
    BY <1>14, <1>a, NoJobIsNoJob DEF FinishError, Event, SaveData
  <1>15. ASSUME NEW w \in Worker, SucceedError(w) PROVE OneWorker' /\ StatusInv'
    BY <1>15, <1>a, NoJobIsNoJob DEF SucceedError, Event, UpdateStatus
  <1>16. ASSUME NEW w \in Worker, SetJobErrorFails(w) PROVE OneWorker' /\ StatusInv'
    BY <1>16, <1>a, NoJobIsNoJob DEF SetJobErrorFails, Event,
       UpdateOptimistically, AfterError
  <1>17. ASSUME NEW w \in Worker, ResetJob(w) PROVE OneWorker' /\ StatusInv'
    BY <1>17, <1>a, NoJobIsNoJob DEF ResetJob, Event, UpdateOptimistically,
       SaveData, Return
  <1>18. ASSUME NEW w \in Worker, Crash(w) PROVE OneWorker' /\ StatusInv'
    BY <1>18, <1>a, NoJobIsNoJob DEF Crash, Event, UpdateStatus
  <1>19. ASSUME NEW w \in Worker, StopJobError(w) PROVE OneWorker' /\ StatusInv'
    BY <1>19, <1>a, NoJobIsNoJob DEF StopJobError, Event, UpdateStatus, Return
  <1>20. ASSUME NEW w \in Worker, CancelJobError(w) PROVE OneWorker' /\ StatusInv'
    BY <1>20, <1>a, NoJobIsNoJob DEF CancelJobError, Event, UpdateStatus, Return
  <1>21. ASSUME NEW w \in Worker, Stop(w) PROVE OneWorker' /\ StatusInv'
    BY <1>21, <1>a, NoJobIsNoJob DEF Stop, Event
  <1>22. ASSUME NEW w \in Worker, Start(w) PROVE OneWorker' /\ StatusInv'
    BY <1>22, <1>a, NoJobIsNoJob DEF Start
  <1>23. ASSUME NEW w \in Worker, WatchCancellation(w)
      PROVE OneWorker' /\ StatusInv'
    BY <1>23, <1>a, NoJobIsNoJob DEF WatchCancellation
  <1>24. ASSUME NEW w \in Worker, NEW j \in Job, Notify(w, j)
      PROVE OneWorker' /\ StatusInv'
    BY <1>24, <1>a, NoJobIsNoJob DEF Notify
  <1>25. ASSUME NEW j \in Job, CreateJob(j) \/ CreateJobOnce(j)
      PROVE OneWorker' /\ StatusInv'
    BY <1>25, <1>a, NoJobIsNoJob
       DEF CreateJob, CreateJobOnce, Insert, UpdateStatus
  <1>26. ASSUME NEW j \in Job, RequestCancellation(j) PROVE OneWorker' /\ StatusInv'
    BY <1>26, <1>a, NoJobIsNoJob DEF RequestCancellation, Event,
       UpdateOptimistically
  <1>27. ASSUME NEW j \in Job, AskWorker(j) PROVE OneWorker' /\ StatusInv'
    BY <1>27, <1>a, NoJobIsNoJob DEF AskWorker, UpdateOptimistically
  <1>28. ASSUME NEW j \in Job, SetStatus(j) PROVE OneWorker' /\ StatusInv'
    BY <1>28, <1>a, NoJobIsNoJob DEF SetStatus, Event, UpdateStatus
  <1>29. QED
    BY <1>1, <1>2, <1>3, <1>4, <1>5, <1>6, <1>7, <1>8, <1>9, <1>10, <1>11,
       <1>12, <1>13, <1>14, <1>15, <1>16, <1>17, <1>18, <1>19, <1>20, <1>21,
       <1>22, <1>23, <1>24, <1>25, <1>26, <1>27, <1>28
       DEF Next, Run, Watch, Failure

\* Batches are executed in their order from the one after Data.
LEMMA BatchStep ==
  ASSUME TypeOK, TypeOK', BatchInv, Next
  PROVE  BatchInv'
  <1>a. /\ worker \in [Worker -> WorkerState] /\ saved \in [Job -> 0..Batches]
        /\ done \in [Job -> SUBSET ((1..Entities) \X (1..Batches))]
        /\ resumedAt \in [Job -> 0..Batches] /\ JobsOK
    BY DEF TypeOK, JobsOK
  <1>b. UNCHANGED kind => Last' = Last /\ Phases' = Phases BY DEF Last, Phases
  <1> USE DEF BatchInv, SavedInv, WorkersInv, Complete, Covered, WorkerState, Working, PCs, Idle, Off, JobsOK
  <1>1. ASSUME NEW w \in Worker, Claim(w) PROVE BatchInv'
    <2> DEFINE j == worker[w].job
    <2>1. /\ j \in Job /\ UNCHANGED <<saved, done>> /\ Last' = Last /\ Phases' = Phases
          /\ kind' = kind /\ worker[w].pc = "claim" /\ worker[w].phase = 1
          /\ worker[w].next = "idle"
      BY <1>1, <1>a, <1>b DEF Claim
    <2>2. \A i \in Job : resumedAt'[i] \in Nat /\ resumedAt[i] <= resumedAt'[i]
      BY <1>1, <1>a, <2>1 DEF Claim, Resumed
    <2>3. CASE status[j] = "pending"
      <3>1. worker' = [worker EXCEPT ![w] = Begin(w, j)] /\ resumedAt' = Resumed(j)
        BY <1>1, <2>3 DEF Claim
      <3>2. /\ worker'[w].pc = "work" /\ worker'[w].batch = saved[j] /\ worker'[w].phase = 1
            /\ worker'[w].job = j /\ worker'[w].next = "idle"
            /\ worker'[w].start <= resumedAt'[j] /\ worker'[w].start <= Last
        BY <1>a, <2>1, <3>1, LastIsNat DEF Begin, Resumed
      <3>3. \A v \in Worker \ {w} : worker'[v] = worker[v]
        BY <1>a, <3>1
      <3> HIDE DEF j
      <3>4. Covered(w)'
        BY <1>a, <2>1, <3>2, LastIsNat, PhasesIsNat
      <3>5. QED BY <1>a, <2>1, <2>2, <3>2, <3>3, <3>4, LastIsNat, PhasesIsNat
    <2>4. CASE status[j] # "pending"
      <3>1. worker' = [worker EXCEPT ![w] = Idle] /\ UNCHANGED resumedAt
        BY <1>1, <2>4 DEF Claim
      <3>2. QED BY <1>a, <2>1, <3>1, LastIsNat, PhasesIsNat
    <2>5. QED BY <2>3, <2>4
  <1>2. ASSUME NEW w \in Worker, DoBatch(w) PROVE BatchInv'
    <2> DEFINE j == worker[w].job  next == worker[w].batch + 1
    <2>1. /\ j \in Job /\ UNCHANGED <<saved, resumedAt>> /\ Last' = Last /\ Phases' = Phases
          /\ kind' = kind /\ worker[w].pc = "work" /\ worker[w].phase <= Phases
          /\ worker[w].phase \in Nat /\ worker[w].batch \in Nat /\ worker[w].start \in Nat
          /\ worker[w].batch <= Last /\ worker[w].start <= resumedAt[j]
      BY <1>2, <1>a, <1>b DEF DoBatch
    <2> HIDE DEF BatchInv, SavedInv, WorkersInv, Complete, Covered, Idle, Off
    <2>2. /\ \A i \in Job : done[i] \subseteq done'[i]
          /\ next <= Last => <<worker[w].phase, next>> \in done'[j]
      BY <1>2, <1>a, <2>1 DEF DoBatch, Execute
    <2>3. /\ worker' \in [Worker -> WorkerState] /\ worker'[w].job = j
          /\ \A v \in Worker \ {w} : worker'[v] = worker[v]
          /\ worker'[w].next = worker[w].next /\ worker'[w].start = worker[w].start
          /\ \/ /\ next <= Last
                /\ worker'[w].batch = next /\ worker'[w].phase = worker[w].phase
                /\ \/ worker'[w].pc = "progress"
                   \/ worker'[w].pc = "finish" /\ next = Last /\ kind # "indexer"
             \/ /\ next > Last /\ kind # "indexer" /\ worker'[w].pc = "finish"
                /\ worker'[w].batch = worker[w].batch /\ worker'[w].phase = worker[w].phase
             \/ /\ next >= Last /\ kind = "indexer" /\ worker'[w].pc = "progress"
                /\ worker'[w].batch = worker[w].start /\ worker'[w].phase = worker[w].phase + 1
      <3>1. worker' \in [Worker -> WorkerState] BY DEF TypeOK
      <3>2. CASE next > Last /\ kind # "indexer" /\ Goto(w, "finish")
        BY <1>a, <3>1, <3>2 DEF Goto
      <3>3. CASE next >= Last /\ kind = "indexer" /\ EndPhase(w)
        <4> HIDE DEF j, next
        <4>1. worker' = [worker EXCEPT ![w] = [worker[w] EXCEPT !.phase = worker[w].phase + 1,
                                     !.batch = worker[w].start, !.pc = "progress"]]
          BY <1>a, <3>3 DEF EndPhase
        <4>2. QED BY <1>a, <3>1, <3>3, <4>1 DEF j
      <3>4. CASE /\ next <= Last
                 /\ worker' = [worker EXCEPT ![w].batch = next, ![w].pc =
                      IF next = Last /\ kind # "indexer" THEN "finish" ELSE "progress"]
        <4> DEFINE pc == IF next = Last /\ kind # "indexer" THEN "finish" ELSE "progress"
        <4>1. worker' = [worker EXCEPT ![w] = [worker[w] EXCEPT !.batch = next, !.pc = pc]]
          BY <1>a, <3>4
        <4>2. pc = "progress" \/ (pc = "finish" /\ next = Last /\ kind # "indexer")
          OBVIOUS
        <4> HIDE DEF j, next, pc
        <4>3. QED BY <1>a, <3>1, <3>4, <4>1, <4>2 DEF j
      <3>5. QED BY <1>2, <3>2, <3>3, <3>4 DEF DoBatch
    <2> HIDE DEF j, next, WorkerState, Working, PCs, JobsOK
    <2> USE DEF Complete, Covered
    <2>4. \A v \in Worker \ {w} : Covered(v) /\ worker[v].job \in Job => Covered(v)'
      BY <2>1, <2>2, <2>3
    <2>5. Covered(w)'
      <3>1. Covered(w) /\ Last \in Nat /\ next = worker[w].batch + 1
        BY <2>1, LastIsNat DEF next, BatchInv, WorkersInv, Working, PCs
      <3>2. SUFFICES ASSUME NEW p \in 1..Phases, NEW b \in 1..Last,
                            \/ p < worker'[w].phase
                            \/ p = worker'[w].phase /\ b <= worker'[w].batch
                     PROVE  <<p, b>> \in done'[j] \/ (p > 1 /\ b <= worker[w].start)
        BY <2>1, <2>3
      <3>3. \/ p < worker[w].phase \/ (p = worker[w].phase /\ b <= worker[w].batch)
            \/ p = worker[w].phase /\ b = next
            \/ p = worker[w].phase + 1 /\ b <= worker[w].start
        BY <2>1, <2>3, <3>1, <3>2, PhasesIsNat
      <3>4. CASE p < worker[w].phase \/ (p = worker[w].phase /\ b <= worker[w].batch)
        BY <2>1, <2>2, <3>1, <3>4 DEF j
      <3>5. CASE p = worker[w].phase /\ b = next
        BY <2>2, <3>5
      <3>6. CASE p = worker[w].phase + 1 /\ b <= worker[w].start
        <4>1. worker[w].phase >= 1 BY <1>a DEF WorkerState
        <4>2. QED BY <2>1, <3>6, <4>1
      <3>7. QED BY <3>3, <3>4, <3>5, <3>6
    <2>6. worker'[w].batch <= Last' /\ (worker'[w].phase > 1 => kind' = "indexer")
      <3>1. Last \in Nat /\ next = worker[w].batch + 1 BY LastIsNat DEF next
      <3>2. worker[w].start <= Last /\ (worker[w].phase > 1 => kind = "indexer")
        BY <1>a, <2>1 DEF BatchInv, WorkersInv
      <3>3. QED BY <2>1, <2>3, <3>1, <3>2
    <2>7. worker'[w].pc \in {"finish", "success"} \/ worker'[w].next = "success" =>
             Complete(w)'
      <3>1. /\ Last \in Nat /\ Phases \in Nat /\ next = worker[w].batch + 1
            /\ worker[w].phase >= 1 /\ (kind # "indexer" => Phases = 1)
        BY <1>a, LastIsNat, PhasesIsNat DEF next, Phases, WorkerState
      <3>2. worker[w].next = "success" => worker[w].phase = Phases /\ worker[w].batch = Last
        BY <2>1, <3>1 DEF BatchInv, WorkersInv
      <3>3. QED BY <2>1, <2>3, <3>1, <3>2
    <2>8. QED
      <3>1. Last' \in Nat /\ BatchInv /\ "work" \in Working /\ "finish" \in Working
               /\ "progress" \in Working
        BY <2>1, LastIsNat DEF Working, PCs
      <3>2. \A i \in Job : saved'[i] <= Last' /\ \A b \in 1..saved'[i] : <<1, b>> \in done'[i]
        BY <2>1, <2>2, <3>1 DEF BatchInv, SavedInv
      <3>3. ASSUME NEW v \in Worker \ {w}, worker[v].pc \in Working
            PROVE  worker[v].job \in Job
        BY <1>a, <3>3, NoJobIsNoJob DEF JobsOK, Working, WorkerState
      <3>4. QED
        BY <2>1, <2>3, <2>4, <2>5, <2>6, <2>7, <3>1, <3>2, <3>3 DEF BatchInv, SavedInv, WorkersInv
  <1>3. ASSUME NEW w \in Worker, Progress(w) PROVE BatchInv'
    BY <1>3, <1>a, <1>b, NoJobIsNoJob, LastIsNat, PhasesIsNat DEF Progress, SaveData, Goto
  <1>4. ASSUME NEW w \in Worker, Finish(w) PROVE BatchInv'
    BY <1>4, <1>a, <1>b, NoJobIsNoJob, LastIsNat, PhasesIsNat DEF Finish, SaveData, Goto
  <1>5. ASSUME NEW w \in Worker, Succeed(w) PROVE BatchInv'
    BY <1>5, <1>a, <1>b, NoJobIsNoJob, LastIsNat, PhasesIsNat DEF Succeed, UpdateStatus, Return
  <1>6. ASSUME NEW w \in Worker, SetJobError(w) PROVE BatchInv'
    <2>1. SavedInv'
      BY <1>6, <1>a, <1>b, NoJobIsNoJob, LastIsNat, PhasesIsNat
         DEF SetJobError, SaveData
    <2>2. WorkersInv'
      <3>1. CASE status[worker[w].job] = "in_progress"
        BY <1>6, <3>1, <1>a, <1>b, LastIsNat, PhasesIsNat DEF SetJobError, AfterError
      <3>2. CASE status[worker[w].job] # "in_progress"
        BY <1>6, <3>2, <1>a, <1>b, LastIsNat, PhasesIsNat DEF SetJobError, Goto
      <3>3. QED BY <3>1, <3>2
    <2>3. QED BY <2>1, <2>2
  <1>7. ASSUME NEW w \in Worker, SetJobErrorCancelled(w) PROVE BatchInv'
    BY <1>7, <1>a, <1>b, NoJobIsNoJob, LastIsNat, PhasesIsNat DEF SetJobErrorCancelled,
       UpdateOptimistically, SaveData, AfterError
  <1>8. ASSUME NEW w \in Worker, Stopped(w) PROVE BatchInv'
    BY <1>8, <1>a, <1>b, NoJobIsNoJob, LastIsNat, PhasesIsNat DEF Stopped
  <1>9. ASSUME NEW w \in Worker, StopJob(w) PROVE BatchInv'
    BY <1>9, <1>a, <1>b, NoJobIsNoJob, LastIsNat, PhasesIsNat DEF StopJob, UpdateStatus, Return
  <1>10. ASSUME NEW w \in Worker, CancelJob(w) PROVE BatchInv'
    BY <1>10, <1>a, <1>b, NoJobIsNoJob, LastIsNat, PhasesIsNat DEF CancelJob, UpdateStatus,
       Return
  <1>11. ASSUME NEW w \in Worker, ClaimError(w) PROVE BatchInv'
    BY <1>11, <1>a, <1>b, NoJobIsNoJob, LastIsNat, PhasesIsNat DEF ClaimError, Event,
       UpdateStatus, Return
  <1>12. ASSUME NEW w \in Worker, BatchError(w) PROVE BatchInv'
    BY <1>12, <1>a, <1>b, NoJobIsNoJob, LastIsNat, PhasesIsNat DEF BatchError, Event, Goto
  <1>13. ASSUME NEW w \in Worker, ProgressError(w) PROVE BatchInv'
    BY <1>13, <1>a, <1>b, NoJobIsNoJob, LastIsNat, PhasesIsNat DEF ProgressError, Event,
       SaveData, Goto
  <1>14. ASSUME NEW w \in Worker, FinishError(w) PROVE BatchInv'
    <2>1. SavedInv'
      BY <1>14, <1>a, <1>b, NoJobIsNoJob, LastIsNat, PhasesIsNat
         DEF FinishError, SaveData
    <2>2. WorkersInv'
      BY <1>14, <1>a, <1>b, NoJobIsNoJob, LastIsNat, PhasesIsNat
         DEF FinishError
    <2>3. QED BY <2>1, <2>2
  <1>15. ASSUME NEW w \in Worker, SucceedError(w) PROVE BatchInv'
    BY <1>15, <1>a, <1>b, NoJobIsNoJob, LastIsNat, PhasesIsNat DEF SucceedError, Event,
       UpdateStatus
  <1>16. ASSUME NEW w \in Worker, SetJobErrorFails(w) PROVE BatchInv'
    BY <1>16, <1>a, <1>b, NoJobIsNoJob, LastIsNat, PhasesIsNat DEF SetJobErrorFails, Event,
       UpdateOptimistically, AfterError
  <1>17. ASSUME NEW w \in Worker, ResetJob(w) PROVE BatchInv'
    BY <1>17, <1>a, <1>b, NoJobIsNoJob, LastIsNat, PhasesIsNat DEF ResetJob, Event,
       UpdateOptimistically, SaveData, Return
  <1>18. ASSUME NEW w \in Worker, Crash(w) PROVE BatchInv'
    BY <1>18, <1>a, <1>b, NoJobIsNoJob, LastIsNat, PhasesIsNat DEF Crash, Event, UpdateStatus
  <1>19. ASSUME NEW w \in Worker, StopJobError(w) PROVE BatchInv'
    BY <1>19, <1>a, <1>b, NoJobIsNoJob, LastIsNat, PhasesIsNat DEF StopJobError, Event,
       UpdateStatus, Return
  <1>20. ASSUME NEW w \in Worker, CancelJobError(w) PROVE BatchInv'
    BY <1>20, <1>a, <1>b, NoJobIsNoJob, LastIsNat, PhasesIsNat DEF CancelJobError, Event,
       UpdateStatus, Return
  <1>21. ASSUME NEW w \in Worker, Stop(w) PROVE BatchInv'
    BY <1>21, <1>a, <1>b, NoJobIsNoJob, LastIsNat, PhasesIsNat DEF Stop, Event
  <1>22. ASSUME NEW w \in Worker, Start(w) PROVE BatchInv'
    BY <1>22, <1>a, <1>b, NoJobIsNoJob, LastIsNat, PhasesIsNat DEF Start
  <1>23. ASSUME NEW w \in Worker, WatchCancellation(w) PROVE BatchInv'
    BY <1>23, <1>a, <1>b, NoJobIsNoJob, LastIsNat, PhasesIsNat DEF WatchCancellation
  <1>24. ASSUME NEW w \in Worker, NEW j \in Job, Notify(w, j) PROVE BatchInv'
    BY <1>24, <1>a, <1>b, NoJobIsNoJob, LastIsNat, PhasesIsNat DEF Notify
  <1>25. ASSUME NEW j \in Job, CreateJob(j) \/ CreateJobOnce(j)
      PROVE BatchInv'
    BY <1>25, <1>a, <1>b, NoJobIsNoJob, LastIsNat, PhasesIsNat
       DEF CreateJob, CreateJobOnce, Insert, UpdateStatus
  <1>26. ASSUME NEW j \in Job, RequestCancellation(j) PROVE BatchInv'
    BY <1>26, <1>a, <1>b, NoJobIsNoJob, LastIsNat, PhasesIsNat DEF RequestCancellation,
       Event, UpdateOptimistically
  <1>27. ASSUME NEW j \in Job, AskWorker(j) PROVE BatchInv'
    BY <1>27, <1>a, <1>b, NoJobIsNoJob, LastIsNat, PhasesIsNat DEF AskWorker,
       UpdateOptimistically
  <1>28. ASSUME NEW j \in Job, SetStatus(j) PROVE BatchInv'
    BY <1>28, <1>a, <1>b, NoJobIsNoJob, LastIsNat, PhasesIsNat DEF SetStatus, Event, UpdateStatus
  <1>29. QED
    BY <1>1, <1>2, <1>3, <1>4, <1>5, <1>6, <1>7, <1>8, <1>9, <1>10, <1>11,
       <1>12, <1>13, <1>14, <1>15, <1>16, <1>17, <1>18, <1>19, <1>20, <1>21,
       <1>22, <1>23, <1>24, <1>25, <1>26, <1>27, <1>28
       DEF Next, Run, Watch, Failure

\* The batches that a job that succeeds has executed
Completed(j) ==
    \A p \in 1..Phases, b \in 1..Last : <<p, b>> \in done[j] \/ (p > 1 /\ b <= resumedAt[j])

\* Batches stay executed, and where indexers resume moves on.
LEMMA CompletedStep ==
  ASSUME TypeOK, NEW w \in Worker, Claim(w) \/ DoBatch(w), NEW j \in Job, Completed(j)
  PROVE  Completed(j)'
  <1>1. /\ Last' = Last /\ Phases' = Phases
        /\ done[j] \subseteq done'[j] /\ resumedAt[j] <= resumedAt'[j]
        /\ resumedAt[j] \in Nat /\ resumedAt'[j] \in Nat
    <2>1. CASE Claim(w)
      BY <2>1, WorkerJob DEF Claim, Resumed, TypeOK, Last, Phases
    <2>2. CASE DoBatch(w)
      BY <2>2, WorkerJob DEF DoBatch, Execute, TypeOK, Last, Phases
    <2>3. QED BY <2>1, <2>2
  <1>2. ASSUME NEW p \in 1..Phases, NEW b \in 1..Last
        PROVE  <<p, b>> \in done'[j] \/ (p > 1 /\ b <= resumedAt'[j])
    <2>1. b \in Nat BY LastIsNat
    <2>2. <<p, b>> \in done[j] \/ (p > 1 /\ b <= resumedAt[j]) BY DEF Completed
    <2>3. QED BY <1>1, <2>1, <2>2
  <1>3. QED BY <1>1, <1>2 DEF Completed

\* Who sets the status to success has done the last batch.
LEMMA SuccessStep ==
  ASSUME TypeOK, BatchInv, SuccessIsComplete, Next
  PROVE  SuccessIsComplete'
  <1>a. /\ status \in [Job -> Status]
        /\ \A j \in Job : status[j] = "success" => Completed(j)
    BY DEF TypeOK, SuccessIsComplete, Completed
  <1>b. ASSUME NEW w \in Worker, worker[w].pc = "success"
        PROVE  worker[w].job \in Job /\ Completed(worker[w].job)
    <2>1. Complete(w) /\ Covered(w) /\ worker[w].start <= resumedAt[worker[w].job]
      BY <1>b DEF BatchInv, WorkersInv, Working, PCs
    <2>2. /\ worker[w].job \in Job /\ resumedAt[worker[w].job] \in Nat
          /\ worker[w].start \in Nat /\ worker[w].phase \in Nat
      BY <1>b, WorkerJob DEF TypeOK
    <2>3. QED BY <2>1, <2>2, LastIsNat, PhasesIsNat DEF Complete, Covered, Completed
  <1>c. UNCHANGED <<kind, work>> => \A j \in Job : Completed(j) => Completed(j)'
    BY DEF Completed, Last, Phases
  <1>d. SuccessIsComplete' <=> \A j \in Job : status'[j] = "success" => Completed(j)'
    BY DEF SuccessIsComplete, Completed
  <1> USE DEF PCs
  <1>1. ASSUME NEW w \in Worker, Claim(w) PROVE SuccessIsComplete'
    BY <1>1, <1>a, <1>d, CompletedStep, WorkerJob DEF Claim, UpdateOptimistically
  <1>2. ASSUME NEW w \in Worker, DoBatch(w) PROVE SuccessIsComplete'
    BY <1>2, <1>a, <1>d, CompletedStep DEF DoBatch
  <1>3. ASSUME NEW w \in Worker, Progress(w) PROVE SuccessIsComplete'
    BY <1>3, <1>a, <1>c, <1>d, WorkerJob DEF Progress, SaveData
  <1>4. ASSUME NEW w \in Worker, Finish(w) PROVE SuccessIsComplete'
    BY <1>4, <1>a, <1>c, <1>d, WorkerJob DEF Finish, SaveData
  <1>5. ASSUME NEW w \in Worker, Succeed(w) PROVE SuccessIsComplete'
    BY <1>5, <1>a, <1>b, <1>c, <1>d, WorkerJob DEF Succeed, UpdateStatus
  <1>6. ASSUME NEW w \in Worker, SetJobError(w) PROVE SuccessIsComplete'
    BY <1>6, <1>a, <1>c, <1>d, WorkerJob DEF SetJobError,
       UpdateOptimistically, SaveData
  <1>7. ASSUME NEW w \in Worker, SetJobErrorCancelled(w) PROVE SuccessIsComplete'
    BY <1>7, <1>a, <1>c, <1>d, WorkerJob DEF SetJobErrorCancelled,
       UpdateOptimistically, SaveData
  <1>8. ASSUME NEW w \in Worker, Stopped(w) PROVE SuccessIsComplete'
    BY <1>8, <1>a, <1>c, <1>d, WorkerJob DEF Stopped
  <1>9. ASSUME NEW w \in Worker, StopJob(w) PROVE SuccessIsComplete'
    BY <1>9, <1>a, <1>c, <1>d, WorkerJob DEF StopJob, UpdateStatus
  <1>10. ASSUME NEW w \in Worker, CancelJob(w) PROVE SuccessIsComplete'
    BY <1>10, <1>a, <1>c, <1>d, WorkerJob DEF CancelJob, UpdateStatus
  <1>11. ASSUME NEW w \in Worker, ClaimError(w) PROVE SuccessIsComplete'
    BY <1>11, <1>a, <1>c, <1>d, WorkerJob DEF ClaimError, UpdateStatus
  <1>12. ASSUME NEW w \in Worker, BatchError(w) PROVE SuccessIsComplete'
    BY <1>12, <1>a, <1>c, <1>d, WorkerJob DEF BatchError
  <1>13. ASSUME NEW w \in Worker, ProgressError(w) PROVE SuccessIsComplete'
    BY <1>13, <1>a, <1>c, <1>d, WorkerJob DEF ProgressError, SaveData
  <1>14. ASSUME NEW w \in Worker, FinishError(w) PROVE SuccessIsComplete'
    BY <1>14, <1>a, <1>c, <1>d, WorkerJob DEF FinishError, SaveData
  <1>15. ASSUME NEW w \in Worker, SucceedError(w) PROVE SuccessIsComplete'
    BY <1>15, <1>a, <1>b, <1>c, <1>d, WorkerJob DEF SucceedError, UpdateStatus
  <1>16. ASSUME NEW w \in Worker, SetJobErrorFails(w) PROVE SuccessIsComplete'
    BY <1>16, <1>a, <1>c, <1>d, WorkerJob DEF SetJobErrorFails,
       UpdateOptimistically
  <1>17. ASSUME NEW w \in Worker, ResetJob(w) PROVE SuccessIsComplete'
    BY <1>17, <1>a, <1>c, <1>d, WorkerJob DEF ResetJob,
       UpdateOptimistically, SaveData
  <1>18. ASSUME NEW w \in Worker, Crash(w) PROVE SuccessIsComplete'
    BY <1>18, <1>a, <1>c, <1>d, WorkerJob DEF Crash, UpdateStatus
  <1>19. ASSUME NEW w \in Worker, StopJobError(w) PROVE SuccessIsComplete'
    BY <1>19, <1>a, <1>c, <1>d, WorkerJob DEF StopJobError, UpdateStatus
  <1>20. ASSUME NEW w \in Worker, CancelJobError(w) PROVE SuccessIsComplete'
    BY <1>20, <1>a, <1>c, <1>d, WorkerJob DEF CancelJobError, UpdateStatus
  <1>21. ASSUME NEW w \in Worker, Stop(w) PROVE SuccessIsComplete'
    BY <1>21, <1>a, <1>c, <1>d, WorkerJob DEF Stop
  <1>22. ASSUME NEW w \in Worker, Start(w) PROVE SuccessIsComplete'
    BY <1>22, <1>a, <1>c, <1>d, WorkerJob DEF Start
  <1>23. ASSUME NEW w \in Worker, WatchCancellation(w) PROVE SuccessIsComplete'
    BY <1>23, <1>a, <1>c, <1>d, WorkerJob DEF WatchCancellation
  <1>24. ASSUME NEW w \in Worker, NEW j \in Job, Notify(w, j)
      PROVE SuccessIsComplete'
    BY <1>24, <1>a, <1>c, <1>d, WorkerJob DEF Notify
  <1>25. ASSUME NEW j \in Job, CreateJob(j) \/ CreateJobOnce(j)
      PROVE SuccessIsComplete'
    BY <1>25, <1>a, <1>c, <1>d, WorkerJob
       DEF CreateJob, CreateJobOnce, Insert, UpdateStatus
  <1>26. ASSUME NEW j \in Job, RequestCancellation(j) PROVE SuccessIsComplete'
    BY <1>26, <1>a, <1>c, <1>d, WorkerJob DEF RequestCancellation,
       UpdateOptimistically
  <1>27. ASSUME NEW j \in Job, AskWorker(j) PROVE SuccessIsComplete'
    BY <1>27, <1>a, <1>c, <1>d, WorkerJob DEF AskWorker, UpdateOptimistically
  <1>28. ASSUME NEW j \in Job, SetStatus(j) PROVE SuccessIsComplete'
    BY <1>28, <1>a, <1>c, <1>d, WorkerJob DEF SetStatus, UpdateStatus
  <1>29. QED
    BY <1>1, <1>2, <1>3, <1>4, <1>5, <1>6, <1>7, <1>8, <1>9, <1>10, <1>11,
       <1>12, <1>13, <1>14, <1>15, <1>16, <1>17, <1>18, <1>19, <1>20, <1>21,
       <1>22, <1>23, <1>24, <1>25, <1>26, <1>27, <1>28
       DEF Next, Run, Watch, Failure

FinalKept ==
    \A j \in Job \ forced' : status[j] \in Final =>
        status'[j] = status[j] \/ (status[j] = "error" /\ status'[j] = "success")

\* A worker never meets a final status but that of the error it has set itself.
LEMMA FinalStep ==
  ASSUME TypeOK, StatusInv, Next
  PROVE  FinalKept
  <1>a. status \in [Job -> Status] BY DEF TypeOK
  <1> USE DEF FinalKept, StatusInv, WorksOn, Working, PCs, Final
  <1>1. ASSUME NEW w \in Worker, Claim(w) PROVE FinalKept
    BY <1>1, <1>a, WorkerJob DEF Claim, UpdateOptimistically
  <1>2. ASSUME NEW w \in Worker, DoBatch(w) PROVE FinalKept
    BY <1>2, <1>a, WorkerJob DEF DoBatch
  <1>3. ASSUME NEW w \in Worker, Progress(w) PROVE FinalKept
    BY <1>3, <1>a, WorkerJob DEF Progress
  <1>4. ASSUME NEW w \in Worker, Finish(w) PROVE FinalKept
    BY <1>4, <1>a, WorkerJob DEF Finish
  <1>5. ASSUME NEW w \in Worker, Succeed(w) PROVE FinalKept
    BY <1>5, <1>a, WorkerJob DEF Succeed, UpdateStatus
  <1>6. ASSUME NEW w \in Worker, SetJobError(w) PROVE FinalKept
    BY <1>6, <1>a, WorkerJob DEF SetJobError, UpdateOptimistically
  <1>7. ASSUME NEW w \in Worker, SetJobErrorCancelled(w) PROVE FinalKept
    BY <1>7, <1>a, WorkerJob DEF SetJobErrorCancelled, UpdateOptimistically
  <1>8. ASSUME NEW w \in Worker, Stopped(w) PROVE FinalKept
    BY <1>8, <1>a, WorkerJob DEF Stopped
  <1>9. ASSUME NEW w \in Worker, StopJob(w) PROVE FinalKept
    BY <1>9, <1>a, WorkerJob DEF StopJob, UpdateStatus
  <1>10. ASSUME NEW w \in Worker, CancelJob(w) PROVE FinalKept
    BY <1>10, <1>a, WorkerJob DEF CancelJob, UpdateStatus
  <1>11. ASSUME NEW w \in Worker, ClaimError(w) PROVE FinalKept
    BY <1>11, <1>a, WorkerJob DEF ClaimError, UpdateStatus
  <1>12. ASSUME NEW w \in Worker, BatchError(w) PROVE FinalKept
    BY <1>12, <1>a, WorkerJob DEF BatchError
  <1>13. ASSUME NEW w \in Worker, ProgressError(w) PROVE FinalKept
    BY <1>13, <1>a, WorkerJob DEF ProgressError
  <1>14. ASSUME NEW w \in Worker, FinishError(w) PROVE FinalKept
    BY <1>14, <1>a, WorkerJob DEF FinishError
  <1>15. ASSUME NEW w \in Worker, SucceedError(w) PROVE FinalKept
    BY <1>15, <1>a, WorkerJob DEF SucceedError, UpdateStatus
  <1>16. ASSUME NEW w \in Worker, SetJobErrorFails(w) PROVE FinalKept
    BY <1>16, <1>a, WorkerJob DEF SetJobErrorFails, UpdateOptimistically
  <1>17. ASSUME NEW w \in Worker, ResetJob(w) PROVE FinalKept
    BY <1>17, <1>a, WorkerJob DEF ResetJob, UpdateOptimistically
  <1>18. ASSUME NEW w \in Worker, Crash(w) PROVE FinalKept
    BY <1>18, <1>a, WorkerJob DEF Crash, UpdateStatus
  <1>19. ASSUME NEW w \in Worker, StopJobError(w) PROVE FinalKept
    BY <1>19, <1>a, WorkerJob DEF StopJobError, UpdateStatus
  <1>20. ASSUME NEW w \in Worker, CancelJobError(w) PROVE FinalKept
    BY <1>20, <1>a, WorkerJob DEF CancelJobError, UpdateStatus
  <1>21. ASSUME NEW w \in Worker, Stop(w) PROVE FinalKept
    BY <1>21, <1>a, WorkerJob DEF Stop
  <1>22. ASSUME NEW w \in Worker, Start(w) PROVE FinalKept
    BY <1>22, <1>a, WorkerJob DEF Start
  <1>23. ASSUME NEW w \in Worker, WatchCancellation(w) PROVE FinalKept
    BY <1>23, <1>a, WorkerJob DEF WatchCancellation
  <1>24. ASSUME NEW w \in Worker, NEW j \in Job, Notify(w, j) PROVE FinalKept
    BY <1>24, <1>a, WorkerJob DEF Notify
  <1>25. ASSUME NEW j \in Job, CreateJob(j) \/ CreateJobOnce(j)
      PROVE FinalKept
    BY <1>25, <1>a, WorkerJob DEF CreateJob, CreateJobOnce, Insert, UpdateStatus
  <1>26. ASSUME NEW j \in Job, RequestCancellation(j) PROVE FinalKept
    BY <1>26, <1>a, WorkerJob DEF RequestCancellation, UpdateOptimistically
  <1>27. ASSUME NEW j \in Job, AskWorker(j) PROVE FinalKept
    BY <1>27, <1>a, WorkerJob DEF AskWorker, UpdateOptimistically
  <1>28. ASSUME NEW j \in Job, SetStatus(j) PROVE FinalKept
    BY <1>28, <1>a, WorkerJob DEF SetStatus, UpdateStatus
  <1>29. QED
    BY <1>1, <1>2, <1>3, <1>4, <1>5, <1>6, <1>7, <1>8, <1>9, <1>10, <1>11,
       <1>12, <1>13, <1>14, <1>15, <1>16, <1>17, <1>18, <1>19, <1>20, <1>21,
       <1>22, <1>23, <1>24, <1>25, <1>26, <1>27, <1>28
       DEF Next, Run, Watch, Failure

\* A job becomes unfinished when it is created and there is no other, and stays so
\* when it is claimed or put back.
LEMMA MigrationStep ==
  ASSUME TypeOK, StatusInv, MigrationInv, Next
  PROVE  MigrationInv'
  <1>a. status \in [Job -> Status] BY DEF TypeOK
  <1> USE DEF MigrationInv, Unfinished, StatusInv, WorksOn, Working, PCs
  <1>1. ASSUME NEW w \in Worker, Claim(w) PROVE MigrationInv'
    BY <1>1, <1>a, WorkerJob DEF Claim, UpdateOptimistically
  <1>2. ASSUME NEW w \in Worker, DoBatch(w) PROVE MigrationInv'
    BY <1>2, <1>a, WorkerJob DEF DoBatch
  <1>3. ASSUME NEW w \in Worker, Progress(w) PROVE MigrationInv'
    BY <1>3, <1>a, WorkerJob DEF Progress
  <1>4. ASSUME NEW w \in Worker, Finish(w) PROVE MigrationInv'
    BY <1>4, <1>a, WorkerJob DEF Finish
  <1>5. ASSUME NEW w \in Worker, Succeed(w) PROVE MigrationInv'
    BY <1>5, <1>a, WorkerJob DEF Succeed, UpdateStatus
  <1>6. ASSUME NEW w \in Worker, SetJobError(w) PROVE MigrationInv'
    BY <1>6, <1>a, WorkerJob DEF SetJobError, UpdateOptimistically
  <1>7. ASSUME NEW w \in Worker, SetJobErrorCancelled(w) PROVE MigrationInv'
    BY <1>7, <1>a, WorkerJob DEF SetJobErrorCancelled, UpdateOptimistically
  <1>8. ASSUME NEW w \in Worker, Stopped(w) PROVE MigrationInv'
    BY <1>8, <1>a, WorkerJob DEF Stopped
  <1>9. ASSUME NEW w \in Worker, StopJob(w) PROVE MigrationInv'
    BY <1>9, <1>a, WorkerJob DEF StopJob, UpdateStatus
  <1>10. ASSUME NEW w \in Worker, CancelJob(w) PROVE MigrationInv'
    BY <1>10, <1>a, WorkerJob DEF CancelJob, UpdateStatus
  <1>11. ASSUME NEW w \in Worker, ClaimError(w) PROVE MigrationInv'
    BY <1>11, <1>a, WorkerJob DEF ClaimError, UpdateStatus
  <1>12. ASSUME NEW w \in Worker, BatchError(w) PROVE MigrationInv'
    BY <1>12, <1>a, WorkerJob DEF BatchError
  <1>13. ASSUME NEW w \in Worker, ProgressError(w) PROVE MigrationInv'
    BY <1>13, <1>a, WorkerJob DEF ProgressError
  <1>14. ASSUME NEW w \in Worker, FinishError(w) PROVE MigrationInv'
    BY <1>14, <1>a, WorkerJob DEF FinishError
  <1>15. ASSUME NEW w \in Worker, SucceedError(w) PROVE MigrationInv'
    BY <1>15, <1>a, WorkerJob DEF SucceedError, UpdateStatus
  <1>16. ASSUME NEW w \in Worker, SetJobErrorFails(w) PROVE MigrationInv'
    BY <1>16, <1>a, WorkerJob DEF SetJobErrorFails, UpdateOptimistically
  <1>17. ASSUME NEW w \in Worker, ResetJob(w) PROVE MigrationInv'
    BY <1>17, <1>a, WorkerJob DEF ResetJob, UpdateOptimistically
  <1>18. ASSUME NEW w \in Worker, Crash(w) PROVE MigrationInv'
    BY <1>18, <1>a, WorkerJob DEF Crash, UpdateStatus
  <1>19. ASSUME NEW w \in Worker, StopJobError(w) PROVE MigrationInv'
    BY <1>19, <1>a, WorkerJob DEF StopJobError, UpdateStatus
  <1>20. ASSUME NEW w \in Worker, CancelJobError(w) PROVE MigrationInv'
    BY <1>20, <1>a, WorkerJob DEF CancelJobError, UpdateStatus
  <1>21. ASSUME NEW w \in Worker, Stop(w) PROVE MigrationInv'
    BY <1>21, <1>a, WorkerJob DEF Stop
  <1>22. ASSUME NEW w \in Worker, Start(w) PROVE MigrationInv'
    BY <1>22, <1>a, WorkerJob DEF Start
  <1>23. ASSUME NEW w \in Worker, WatchCancellation(w) PROVE MigrationInv'
    BY <1>23, <1>a, WorkerJob DEF WatchCancellation
  <1>24. ASSUME NEW w \in Worker, NEW j \in Job, Notify(w, j) PROVE MigrationInv'
    BY <1>24, <1>a, WorkerJob DEF Notify
  <1>25. ASSUME NEW j \in Job, CreateJob(j) \/ CreateJobOnce(j)
      PROVE MigrationInv'
    BY <1>25, <1>a, WorkerJob DEF CreateJob, CreateJobOnce, Insert, UpdateStatus
  <1>26. ASSUME NEW j \in Job, RequestCancellation(j) PROVE MigrationInv'
    BY <1>26, <1>a, WorkerJob DEF RequestCancellation, UpdateOptimistically
  <1>27. ASSUME NEW j \in Job, AskWorker(j) PROVE MigrationInv'
    BY <1>27, <1>a, WorkerJob DEF AskWorker, UpdateOptimistically
  <1>28. ASSUME NEW j \in Job, SetStatus(j) PROVE MigrationInv'
    BY <1>28, <1>a, WorkerJob DEF SetStatus, UpdateStatus
  <1>29. QED
    BY <1>1, <1>2, <1>3, <1>4, <1>5, <1>6, <1>7, <1>8, <1>9, <1>10, <1>11,
       <1>12, <1>13, <1>14, <1>15, <1>16, <1>17, <1>18, <1>19, <1>20, <1>21,
       <1>22, <1>23, <1>24, <1>25, <1>26, <1>27, <1>28
       DEF Next, Run, Watch, Failure

-----------------------------------------------------------------------------
LEMMA InitIInv == Init => IInv
  <1> SUFFICES ASSUME Init PROVE IInv
    OBVIOUS
  <1>1. TypeOK
    BY IdleAndOff DEF Init, TypeOK, Status, Idle
  <1>2. OneWorker /\ StatusInv /\ SuccessIsComplete /\ MigrationInv
    BY DEF Init, MigrationInv, Unfinished, OneWorker, StatusInv, SuccessIsComplete, WorksOn, Working, Idle
  <1>3. BatchInv
    BY LastIsNat, PhasesIsNat, <1>1
       DEF Init, BatchInv, SavedInv, WorkersInv, Complete, Covered, Working, Idle
  <1>4. QED BY <1>1, <1>2, <1>3 DEF IInv

LEMMA Stuttering == IInv /\ UNCHANGED vars => IInv' /\ FinalKept
  BY DEF IInv, vars, TypeOK, OneWorker, StatusInv, BatchInv, SavedInv, WorkersInv, Complete, Covered, Phases, SuccessIsComplete,
         MigrationInv, Unfinished, Last, WorksOn, FinalKept

THEOREM IInvTheorem == Spec => []IInv
  <1>1. IInv /\ [Next]_vars => IInv'
    BY TypeStep, OwnerStep, BatchStep, SuccessStep, MigrationStep, Stuttering DEF IInv
  <1>2. QED BY InitIInv, <1>1, PTL DEF Spec

\* The variables keep their types.
THEOREM TypeTheorem == Spec => []TypeOK
  <1>1. IInv => TypeOK BY DEF IInv
  <1>2. QED BY IInvTheorem, <1>1, PTL

\* Two workers never run one job (ClaimJob), unless its status was set from outside.
THEOREM OneWorkerTheorem == Spec => []OneWorker
  <1>1. IInv => OneWorker BY DEF IInv
  <1>2. QED BY IInvTheorem, <1>1, PTL

\* One node at most runs the migration, though every node that starts may create a
\* job for it (CreateJobOnce).
THEOREM OneMigrationTheorem == Spec => []OneMigration
  <1>1. ASSUME IInv, kind = "batch", NEW w \in Worker,
               worker[w].pc \in {"work", "progress", "finish"}
        PROVE  worker[w].job \in Job /\ Unfinished(worker[w].job)
    BY <1>1, WorkerJob
       DEF IInv, StatusInv, MigrationInv, Unfinished, WorksOn, Working, PCs
  <1>2. IInv => OneMigration
    BY <1>1 DEF IInv, OneWorker, MigrationInv, OneMigration, WorksOn, Working, PCs
  <1>3. QED BY IInvTheorem, <1>2, PTL

\* A job that succeeded has executed all its batches, wherever it was taken up again:
\* an indexing job all those of the posts, and of the other entities all but those
\* from before the furthest point at which it was taken up (initProgress).
THEOREM SuccessTheorem == Spec => []SuccessIsComplete
  <1>1. IInv => SuccessIsComplete BY DEF IInv
  <1>2. QED BY IInvTheorem, <1>1, PTL

\* A job that has ended stays as it ended, but for setJobSuccess after its error.
THEOREM FinalStaysTheorem == Spec => FinalStays
  <1>1. IInv /\ [Next]_vars => [FinalKept]_vars
    BY FinalStep, Stuttering DEF IInv
  <1>2. QED BY IInvTheorem, <1>1, PTL DEF Spec, FinalStays, FinalKept

=============================================================================
