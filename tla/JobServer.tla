------------------------------ MODULE JobServer ------------------------------
(***************************************************************************)
(* The Jobs table and the workers that run its rows.  Every node has one   *)
(* worker for each type of job and a watcher that polls the table and      *)
(* offers pending jobs to it; a worker claims a job with a compare-and-set *)
(* on the status column, works in batches, and writes status and cursor    *)
(* back with statements of which some are guarded by the status and some   *)
(* are not.  A user may cancel a job at any time, an administrator may set *)
(* its status, and nodes stop and die.                                     *)
(*                                                                         *)
(* Types of jobs do not meet, so one type is enough; its kind is chosen in *)
(* Init:                                                                   *)
(*   "simple":   SimpleWorker, one piece of work that is not interrupted;  *)
(*   "batch":    BatchMigrationWorker, a BatchWorker, whose jobs are put   *)
(*               back to pending when the worker is stopped, and are       *)
(*               created by starting nodes and cancelled by nobody         *)
(*               (SessionHasPermissionToCreateJob knows no such type);     *)
(*   "indexer":  IndexerWorker, a batch worker with a CancellationWatcher. *)
(* A job has Batches batches (one for "simple"), an indexer's as many for  *)
(* every kind of entities: posts first, then channels, users, files. Data  *)
(* holds the number of the last batch done, as start_time does, but not    *)
(* for which kind: who takes the job up begins with the posts and returns, *)
(* for each further kind, to where it began with these.                    *)
(***************************************************************************)
EXTENDS Naturals, FiniteSets

CONSTANTS
    Worker,      \* the nodes, with the worker that each has for the type
    MaxJobs,     \* bound: the rows that are created
    Batches,     \* batches of a job
    Entities,    \* how many kinds of entities an indexer indexes
    MaxEvents    \* bound: cancellations, stops, and whatever fails

ASSUME JobServerAssumption ==
    /\ MaxJobs \in Nat /\ MaxEvents \in Nat
    /\ Batches \in Nat \ {0} /\ Entities \in Nat \ {0}

Job == 1..MaxJobs     \* in the order of CreateAt
NoJob == 0            \* the job of a worker that has none

Kinds == {"simple", "batch", "indexer"}
Status == {"none", "pending", "in_progress", "cancel_requested",
           "success", "error", "canceled"}
Final == {"success", "error", "canceled"}

\* Where a worker stands: not running, in the select of Run, about to claim,
\* in the select of DoJob, about to store its progress, at either call of
\* setJobSuccess, at either statement of SetJobError.
PCs == {"off", "idle", "claim", "work", "progress", "finish", "success",
        "error", "error2"}
Working == PCs \ {"off", "idle", "claim"}

VARIABLES
    kind,       \* the kind of the workers
    status,     \* Jobs.Status, "none" before the insertion
    saved,      \* Jobs.Data: the last batch done
    worker,     \* for every worker: pc, its job, the kind of entities it is at
                \* (phase), the last batch done (LastEntityTime), where it began
                \* (start: StartAtTime), what follows SetJobError ("idle" or
                \* "success"), and whether its cancelChan is closed
    stopping,   \* the workers whose stop channel is closed
    asked,      \* the jobs whose RequestCancellation is at its second statement
    done,       \* history: the batches of a job that have been executed, by phase
    resumedAt,  \* history: the furthest that who took up an indexing job began
    forced,     \* history: jobs whose status was written by who does not run them
    failed,     \* history: jobs that a failure has left without a worker
    events      \* number of the events that MaxEvents bounds

work == <<done, resumedAt>>
vars == <<kind, status, saved, worker, stopping, asked, work, forced,
          failed, events>>
table == <<status, saved>>
history == <<work, forced, failed, events>>

Idle == [pc |-> "idle", job |-> NoJob, phase |-> 1, batch |-> 0, start |-> 0,
         next |-> "idle", cancel |-> FALSE]
Off == [Idle EXCEPT !.pc = "off"]
Last == IF kind = "simple" THEN 1 ELSE Batches
Phases == IF kind = "indexer" THEN Entities ELSE 1

Init ==
    /\ kind \in Kinds
    /\ status = [j \in Job |-> "none"] /\ saved = [j \in Job |-> 0]
    /\ worker = [w \in Worker |-> Idle]
    /\ stopping = {} /\ asked = {}
    /\ done = [j \in Job |-> {}] /\ resumedAt = [j \in Job |-> 0]
    /\ forced = {} /\ failed = {} /\ events = 0

\* An event that MaxEvents bounds
Event == events < MaxEvents /\ events' = events + 1

-----------------------------------------------------------------------------
\* The statements of the job store, by row.

UpdateStatus(j, new) == status' = [status EXCEPT ![j] = new]

\* The statement with a guard: UpdateStatusOptimistically, UpdateOptimistically
UpdateOptimistically(j, old, new) ==
    status' = IF status[j] = old THEN [status EXCEPT ![j] = new] ELSE status

SaveData(j, old, batch) ==
    saved' = IF status[j] = old THEN [saved EXCEPT ![j] = batch] ELSE saved

Goto(w, pc) == worker' = [worker EXCEPT ![w].pc = pc]

\* DoJob returns.
Return(w) == worker' = [worker EXCEPT ![w] = Idle]

-----------------------------------------------------------------------------
\* Jobs are created, and offered to the workers.

Insert(j) ==
    /\ status[j] = "none" /\ \A i \in Job : i < j => status[i] # "none"
    /\ UpdateStatus(j, "pending")
    /\ UNCHANGED <<kind, saved, worker, stopping, asked, history>>

CreateJob(j) == kind # "batch" /\ Insert(j)

Unfinished(j) == status[j] \in {"pending", "in_progress"}

\* Mutant of CreateJobOnce: only the pending jobs are counted.
CreateJobOncePending(j) ==
    kind = "batch" /\ (\A i \in Job : status[i] # "pending") /\ Insert(j)

\* A node starts and has the migration done, if nobody is about to.  SaveOnce counts
\* and inserts in one serializable transaction.  (That the migration was not marked
\* as complete was read before, and it may have been completed since.)
CreateJobOnce(j) ==
    kind = "batch" /\ (\A i \in Job : ~Unfinished(i)) /\ Insert(j)

\* PollAndNotify reads the pending jobs and offers each to the worker, who gets it
\* when it listens.  Whatever becomes of the job between the poll and the claim may
\* as well happen between here and the claim.
Notify(w, j) ==
    /\ status[j] = "pending"
    /\ worker[w].pc = "idle" /\ w \notin stopping
    /\ worker' = [worker EXCEPT ![w].pc = "claim", ![w].job = j]
    /\ UNCHANGED <<kind, table, stopping, asked, history>>

\* initProgress: an indexer begins where Data says, and remembers where that is.
Begin(w, j) ==
    [worker[w] EXCEPT !.pc = "work", !.batch = saved[j],
                      !.start = IF kind = "indexer" THEN saved[j] ELSE 0]

Resumed(j) ==
    IF kind = "indexer" /\ saved[j] > resumedAt[j]
    THEN [resumedAt EXCEPT ![j] = saved[j]] ELSE resumedAt

\* Mutant of Claim: the status is not compared.
ClaimUnguarded(w) ==
    LET j == worker[w].job
    IN  /\ worker[w].pc = "claim"
        /\ UpdateStatus(j, "in_progress")
        /\ worker' = [worker EXCEPT ![w] = Begin(w, j)]
        /\ resumedAt' = Resumed(j)
        /\ UNCHANGED <<kind, saved, stopping, asked, done, forced, failed, events>>

\* ClaimJob, at the start of DoJob
Claim(w) ==
    LET j == worker[w].job
    IN  /\ worker[w].pc = "claim"
        /\ UpdateOptimistically(j, "pending", "in_progress")
        /\ worker' = [worker EXCEPT ![w] = IF status[j] = "pending" THEN Begin(w, j) ELSE Idle]
        /\ resumedAt' = IF status[j] = "pending" THEN Resumed(j) ELSE resumedAt
        /\ UNCHANGED <<kind, saved, stopping, asked, done, forced, failed, events>>

\* The statement fails, or its answer is lost: then nobody has the job.  (So it is
\* when an indexer cannot set up its bulk processor, and returns.)
ClaimError(w) ==
    LET j == worker[w].job
    IN  /\ worker[w].pc = "claim"
        /\ Event /\ Return(w)
        /\ \/ UNCHANGED <<status, failed>>
           \/ /\ status[j] = "pending"
              /\ UpdateStatus(j, "in_progress")
              /\ failed' = failed \union {j}
        /\ UNCHANGED <<kind, saved, stopping, asked, work, forced>>

-----------------------------------------------------------------------------
\* A worker at work.

Execute(w) ==
    done' = [done EXCEPT ![worker[w].job] = @ \union {<<worker[w].phase, worker[w].batch + 1>>}]

\* Mutant of DoBatch: the number of the batch is not compared with the last.
DoBatchUnending(w) ==
    /\ worker[w].pc = "work"
    /\ Execute(w)
    /\ worker' = [worker EXCEPT ![w].batch = @ + 1, ![w].pc = "progress"]
    /\ UNCHANGED <<kind, table, stopping, asked, resumedAt, forced, failed, events>>

\* All entities of the kind are indexed: the next kind begins where this one did.
EndPhase(w) ==
    worker' = [worker EXCEPT ![w].phase = @ + 1, ![w].batch = worker[w].start,
                             ![w].pc = "progress"]

\* execute, doMigrationBatch or IndexBatch.  A kind of entities ends with a batch
\* that reaches EndAtTime, or else with an empty one.  (A job put back after its last
\* batch finds none left.)
DoBatch(w) ==
    LET next == worker[w].batch + 1
    IN  /\ worker[w].pc = "work"
        /\ IF next <= Last THEN Execute(w) ELSE UNCHANGED done
        /\ \/ /\ next <= Last
              /\ worker' = [worker EXCEPT ![w].batch = next, ![w].pc =
                      IF next = Last /\ kind # "indexer" THEN "finish" ELSE "progress"]
           \/ next > Last /\ kind # "indexer" /\ Goto(w, "finish")
           \/ next >= Last /\ kind = "indexer" /\ EndPhase(w)
        /\ UNCHANGED <<kind, table, stopping, asked, resumedAt, forced, failed, events>>

BatchError(w) ==
    /\ worker[w].pc = "work"
    /\ Event /\ Goto(w, "error")
    /\ UNCHANGED <<kind, table, stopping, asked, work, forced, failed>>

\* Mutant of Progress: the number of the batch to come is stored.
ProgressAhead(w) ==
    LET b == worker[w].batch
    IN  /\ worker[w].pc = "progress"
        /\ SaveData(worker[w].job, "in_progress", IF b < Last THEN b + 1 ELSE b)
        /\ Goto(w, IF worker[w].phase > Phases THEN "success" ELSE "work")
        /\ UNCHANGED <<kind, status, stopping, asked, history>>

\* SetJobProgress: that the row was not updated goes unnoticed.
Progress(w) ==
    /\ worker[w].pc = "progress"
    /\ SaveData(worker[w].job, "in_progress", worker[w].batch)
    /\ Goto(w, IF worker[w].phase > Phases THEN "success" ELSE "work")
    /\ UNCHANGED <<kind, status, stopping, asked, history>>

ProgressError(w) ==
    /\ worker[w].pc = "progress"
    /\ Event
    /\ \/ UNCHANGED saved
       \/ SaveData(worker[w].job, "in_progress", worker[w].batch)
    /\ Goto(w, IF kind = "indexer" THEN "error" ELSE "work")
    /\ UNCHANGED <<kind, status, stopping, asked, work, forced, failed>>

\* setJobSuccess: SetJobProgress(100) first
Finish(w) ==
    /\ worker[w].pc = "finish"
    /\ SaveData(worker[w].job, "in_progress", worker[w].batch)
    /\ Goto(w, "success")
    /\ UNCHANGED <<kind, status, stopping, asked, history>>

\* After setJobError the code goes on to SetJobSuccess.
FinishError(w) ==
    /\ worker[w].pc = "finish"
    /\ Event
    /\ \/ UNCHANGED saved
       \/ SaveData(worker[w].job, "in_progress", worker[w].batch)
    /\ worker' = [worker EXCEPT ![w].pc = "error", ![w].next = "success"]
    /\ UNCHANGED <<kind, status, stopping, asked, work, forced, failed>>

\* SetJobSuccess
Succeed(w) ==
    /\ worker[w].pc = "success"
    /\ UpdateStatus(worker[w].job, "success")
    /\ Return(w)
    /\ UNCHANGED <<kind, saved, stopping, asked, history>>

SucceedError(w) ==
    /\ worker[w].pc = "success"
    /\ Event
    /\ UNCHANGED status \/ UpdateStatus(worker[w].job, "success")
    /\ worker' = [worker EXCEPT ![w].pc = "error", ![w].next = "idle"]
    /\ UNCHANGED <<kind, saved, stopping, asked, work, forced, failed>>

\* What follows SetJobError
AfterError(w) ==
    worker' = [worker EXCEPT ![w] = IF worker[w].next = "idle" THEN Idle
                                    ELSE [@ EXCEPT !.pc = "success"]]

\* Mutant of SetJobError: the status is not compared.
SetJobErrorUnguarded(w) ==
    /\ worker[w].pc = "error"
    /\ UpdateStatus(worker[w].job, "error")
    /\ AfterError(w)
    /\ UNCHANGED <<kind, saved, stopping, asked, history>>

\* SetJobError: from in_progress ...
SetJobError(w) ==
    LET j == worker[w].job
    IN  /\ worker[w].pc = "error"
        /\ UpdateOptimistically(j, "in_progress", "error")
        /\ SaveData(j, "in_progress", worker[w].batch)
        /\ IF status[j] = "in_progress" THEN AfterError(w) ELSE Goto(w, "error2")
        /\ UNCHANGED <<kind, stopping, asked, history>>

\* ... or else from cancel_requested
SetJobErrorCancelled(w) ==
    LET j == worker[w].job
    IN  /\ worker[w].pc = "error2"
        /\ UpdateOptimistically(j, "cancel_requested", "error")
        /\ SaveData(j, "cancel_requested", worker[w].batch)
        /\ AfterError(w)
        /\ UNCHANGED <<kind, stopping, asked, history>>

\* A statement of SetJobError fails or its answer is lost: the error is logged.
SetJobErrorFails(w) ==
    LET j == worker[w].job
        old == IF worker[w].pc = "error" THEN "in_progress" ELSE "cancel_requested"
    IN  /\ worker[w].pc \in {"error", "error2"}
        /\ Event
        /\ UNCHANGED status \/ UpdateOptimistically(j, old, "error")
        /\ failed' = failed \union {j}
        /\ AfterError(w)
        /\ UNCHANGED <<kind, saved, stopping, asked, work, forced>>

\* resetJob of a migration whose cluster is not in sync: a job whose cancellation
\* was requested is left as it is.
ResetJob(w) ==
    LET j == worker[w].job
    IN  /\ worker[w].pc = "work" /\ kind = "batch"
        /\ Event
        /\ UpdateOptimistically(j, "in_progress", "pending")
        /\ SaveData(j, "in_progress", 0)
        /\ failed' = IF status[j] = "in_progress" THEN failed ELSE failed \union {j}
        /\ Return(w)
        /\ UNCHANGED <<kind, stopping, asked, work, forced>>

\* The process dies; a panic of the job may have put it to error before.
Crash(w) ==
    LET j == worker[w].job
    IN  /\ worker[w].pc # "off"
        /\ Event
        /\ \/ UNCHANGED status
           \/ /\ worker[w].pc = "work"
              /\ status[j] \in {"in_progress", "cancel_requested"}
              /\ UpdateStatus(j, "error")
        /\ worker' = [worker EXCEPT ![w] = Off]
        /\ stopping' = stopping \ {w}
        /\ failed' = IF worker[w].pc \in Working THEN failed \union {j} ELSE failed
        /\ UNCHANGED <<kind, saved, asked, work, forced>>

-----------------------------------------------------------------------------
\* Stopping and starting.

\* Stop closes the channel and waits.
Stop(w) ==
    /\ worker[w].pc # "off" /\ w \notin stopping
    /\ Event
    /\ stopping' = stopping \union {w}
    /\ UNCHANGED <<kind, table, worker, asked, work, forced, failed>>

\* Run returns.
Stopped(w) ==
    /\ w \in stopping /\ worker[w].pc = "idle"
    /\ worker' = [worker EXCEPT ![w] = Off]
    /\ stopping' = stopping \ {w}
    /\ UNCHANGED <<kind, table, asked, history>>

\* Mutant of StopJob: the job is left as it is.
StopJobKept(w) ==
    /\ worker[w].pc = "work" /\ w \in stopping /\ kind # "simple"
    /\ Return(w)
    /\ UNCHANGED <<kind, table, stopping, asked, history>>

\* The select of DoJob finds the stop channel closed: SetJobPending
StopJob(w) ==
    /\ worker[w].pc = "work" /\ w \in stopping /\ kind # "simple"
    /\ UpdateStatus(worker[w].job, "pending")
    /\ Return(w)
    /\ UNCHANGED <<kind, saved, stopping, asked, history>>

StopJobError(w) ==
    LET j == worker[w].job
    IN  /\ worker[w].pc = "work" /\ w \in stopping /\ kind # "simple"
        /\ Event /\ Return(w)
        /\ UNCHANGED status \/ UpdateStatus(j, "pending")
        /\ failed' = failed \union {j}
        /\ UNCHANGED <<kind, saved, stopping, asked, work, forced>>

\* Start of the server, or a change of the configuration
Start(w) ==
    /\ worker[w].pc = "off"
    /\ worker' = [worker EXCEPT ![w] = Idle]
    /\ UNCHANGED <<kind, table, stopping, asked, history>>

-----------------------------------------------------------------------------
\* Cancellation.

\* RequestCancellation: a pending job is cancelled, or else ...
RequestCancellation(j) ==
    /\ kind # "batch" /\ status[j] # "none" /\ j \notin asked
    /\ Event
    /\ UpdateOptimistically(j, "pending", "canceled")
    /\ asked' = IF status[j] = "pending" THEN asked ELSE asked \union {j}
    /\ UNCHANGED <<kind, saved, worker, stopping, work, forced, failed>>

\* ... the worker is asked to.
AskWorker(j) ==
    /\ j \in asked
    /\ asked' = asked \ {j}
    /\ UpdateOptimistically(j, "in_progress", "cancel_requested")
    /\ UNCHANGED <<kind, saved, worker, stopping, history>>

\* CancellationWatcher closes cancelChan.
WatchCancellation(w) ==
    /\ kind = "indexer" /\ worker[w].pc \in Working /\ ~worker[w].cancel
    /\ status[worker[w].job] = "cancel_requested"
    /\ worker' = [worker EXCEPT ![w].cancel = TRUE]
    /\ UNCHANGED <<kind, table, stopping, asked, history>>

\* SetJobCanceled
CancelJob(w) ==
    /\ worker[w].pc = "work" /\ worker[w].cancel
    /\ UpdateStatus(worker[w].job, "canceled")
    /\ Return(w)
    /\ UNCHANGED <<kind, saved, stopping, asked, history>>

CancelJobError(w) ==
    LET j == worker[w].job
    IN  /\ worker[w].pc = "work" /\ worker[w].cancel
        /\ Event /\ Return(w)
        /\ UNCHANGED status \/ UpdateStatus(j, "canceled")
        /\ failed' = failed \union {j}
        /\ UNCHANGED <<kind, saved, stopping, asked, work, forced>>

\* The status is set by who does not run the job, after reading it some time
\* before or with `force': UpdateJobStatus, and the deduplication and invalidation
\* of jobs.
SetStatus(j) ==
    /\ kind # "batch" /\ status[j] # "none"
    /\ Event
    /\ \E new \in {"pending", "canceled"} : UpdateStatus(j, new)
    /\ forced' = forced \union {j}
    /\ UNCHANGED <<kind, saved, worker, stopping, asked, work, failed>>

-----------------------------------------------------------------------------
\* What a worker and its watcher do of themselves
Run(w) ==
    \/ Claim(w) \/ DoBatch(w) \/ Progress(w) \/ Finish(w) \/ Succeed(w)
    \/ SetJobError(w) \/ SetJobErrorCancelled(w)
    \/ Stopped(w) \/ StopJob(w) \/ CancelJob(w)

Watch(w) == \E j \in Job : Notify(w, j)

Failure(w) ==
    \/ ClaimError(w) \/ BatchError(w) \/ ProgressError(w) \/ FinishError(w)
    \/ SucceedError(w) \/ SetJobErrorFails(w) \/ ResetJob(w) \/ Crash(w)
    \/ StopJobError(w) \/ CancelJobError(w)

Next ==
    \/ \E w \in Worker : \/ Run(w) \/ Watch(w) \/ Failure(w)
                         \/ Stop(w) \/ Start(w) \/ WatchCancellation(w)
    \/ \E j \in Job : \/ CreateJob(j) \/ CreateJobOnce(j) \/ SetStatus(j)
                      \/ RequestCancellation(j) \/ AskWorker(j)

Spec == Init /\ [][Next]_vars

\* Goroutines and polls go on; nobody has to create, stop, start or cancel.
FairSpec == Spec /\ \A w \in Worker : WF_vars(Run(w)) /\ WF_vars(Watch(w))

-----------------------------------------------------------------------------
WorkerState == [pc : PCs, job : Job \union {NoJob}, phase : 1..Entities + 1,
                batch : 0..Batches, start : 0..Batches,
                next : {"idle", "success"}, cancel : BOOLEAN]

\* The variables have their types; a worker has a job exactly when it works on one
\* or is to claim it.
TypeOK ==
    /\ kind \in Kinds
    /\ status \in [Job -> Status] /\ saved \in [Job -> 0..Batches]
    /\ worker \in [Worker -> WorkerState]
    /\ \A w \in Worker : worker[w].job = NoJob <=> worker[w].pc \in {"off", "idle"}
    /\ stopping \subseteq Worker /\ asked \subseteq Job
    /\ done \in [Job -> SUBSET ((1..Entities) \X (1..Batches))]
    /\ resumedAt \in [Job -> 0..Batches]
    /\ forced \subseteq Job /\ failed \subseteq Job /\ events \in 0..MaxEvents

WorksOn(w, j) == worker[w].pc \in Working /\ worker[w].job = j

\* Whatever nodes stop, die and poll late, and whoever cancels: two workers never
\* run one job, unless its status was set from outside (ClaimJob).
OneWorker ==
    \A j \in Job \ forced : \A v, w \in Worker :
        WorksOn(v, j) /\ WorksOn(w, j) => v = w

\* "ensure only one node in the cluster runs the migration at any given time"
\* (batch_migration_worker.go:22): not one job but all those of the migration count,
\* which nodes create as they start, while others stop, reset, fail and die.
OneMigration ==
    kind = "batch" =>
        LET Migrating(w) == worker[w].pc \in {"work", "progress", "finish"}
        IN  \A v, w \in Worker : Migrating(v) /\ Migrating(w) => v = w

\* A job that has ended stays as it ended, though SetJobSuccess, SetJobCanceled and
\* SetJobPending compare nothing; only setJobSuccess may still turn its own error
\* into a success.
FinalStays ==
    [][\A j \in Job \ forced' :
          status[j] \in Final =>
             status'[j] = status[j] \/ (status[j] = "error" /\ status'[j] = "success")]_vars

\* A job that succeeded has executed all its batches, however often it was stopped,
\* reset and taken up elsewhere from the Data of the row: with one exception. An
\* indexing job that was taken up has missed, of all entities but the posts, those
\* from before the point where it was; never any after it, and never a post.
SuccessIsComplete ==
    \A j \in Job : status[j] = "success" =>
        \A p \in 1..Phases, b \in 1..Last :
            <<p, b>> \in done[j] \/ (p > 1 /\ b <= resumedAt[j])

\* While some node is running, every job that was created ends, unless a failure has
\* left it without a worker: stopped workers hand their jobs over, and watchers that
\* find a worker busy come again.  (Jobs are bounded, so again and again all have.)
JobEnds ==
    <>[](\E w \in Worker : worker[w].pc # "off") =>
        []<>(\A j \in Job : status[j] \in Final \union {"none"} \/ j \in forced \union failed)

=============================================================================
