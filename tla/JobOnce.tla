------------------------------ MODULE JobOnce ------------------------------
(***************************************************************************)
(* One-time jobs of the plugin API (pluginapi/cluster/job_once.go and      *)
(* job_once_scheduler.go), for one key. A scheduled job is an entry of the *)
(* key-value store. Every plugin instance that knows of it has a JobOnce   *)
(* with a goroutine that wakes up at its time; the cluster mutex of the    *)
(* key lets one of them run it. It is taken here as the lock it implements *)
(* (ClusterMutex) until a refresh fails. Goroutines and callers of the API *)
(* are processes.                                                          *)
(*                                                                         *)
(* Entries are written to the master database and read from a replica,     *)
(* which may lag behind. Clocks are left out: a goroutine may wake up at   *)
(* any time.                                                               *)
(***************************************************************************)
EXTENDS Integers, FiniteSets

CONSTANTS
  Nodes,          \* plugin instances
  Callers,        \* threads of the plugin that call the API
  Jobs,           \* JobOnce objects (bound)
  NoProcess,      \* nobody, no job, no node
  MaxCalls,       \* bound: calls of ScheduleOnce and of Cancel
  runAt,          \* the time that a call of ScheduleOnce asks for
  maxNumFails,
  MaxFaults,      \* bound: errors and crashes
  FaultKinds      \* "read", "delete": calls to the store that fail; "lag": reads of
                  \* what is no more; "refresh": losses of the mutex; "crash"

Schedules == 1 .. MaxCalls
NoSchedule == 0
Procs == Jobs \cup Callers

ASSUME MaxCallsAssumption == MaxCalls \in Nat
ASSUME RunAtAssumption == runAt \in [Schedules -> Nat]
ASSUME ProcsAssumption == Jobs \cap Callers = {} /\ NoProcess \notin Procs \cup Nodes
ASSUME FailsAssumption == maxNumFails \in Nat /\ MaxFaults \in Nat
ASSUME FiniteAssumption == IsFiniteSet(Jobs) /\ IsFiniteSet(Callers)

VARIABLES
  kv,        \* the stored entry: the ScheduleOnce that made it
  mutex,     \* who holds the cluster mutex of the key
  pc,        \* where each process is
  at,        \* the node it runs on
  sched,     \* the ScheduleOnce a JobOnce, or a caller, is about
  job,       \* the JobOnce a caller cancels
  numFails,
  done,      \* the JobOnces whose done channel is closed
  activeJobs, \* the JobOnce each node has under the key
  snapshot,  \* the entry each node's poller has read and not tracked yet
  handles,   \* the JobOnces that ScheduleOnce returned
  calls,     \* history: the number of calls
  stored,    \* history: those whose entry was stored
  cancelled, \* history: entries deleted by a Cancel
  ran,       \* history: how often the callback had each one's props
  misread,   \* history: entries whose own job was told that they are not there
  faults,
  slips      \* history: those of the faults that are not failed reads

nodeVars == <<activeJobs, snapshot, handles>>
jobVars == <<numFails, done>>
historyVars == <<calls, stored, cancelled, ran, misread>>
faultVars == <<faults, slips>>
vars == <<kv, mutex, pc, at, sched, job, nodeVars, jobVars, historyVars, faultVars>>

Lock == INSTANCE ClusterLock
          WITH Lockers <- Procs, NoLocker <- NoProcess, owner <- mutex

\* A job is "unused" before newJobOnce, and "idle" if it has no goroutine. The
\* goroutine goes from "waiting" (its select) to "ended".
JobPCs == {"unused", "idle", "waiting", "locking", "read", "execute",
           "delete", "close", "unlock", "ended"}
CallerPCs == {"idle", "saveLocking", "save", "saved", "track",
              "dbLocking", "dbDelete", "dbUnlock",
              "cancelLocking", "delete", "close", "join", "return"}

PcOK ==
  /\ pc \in [Procs -> JobPCs \cup CallerPCs]
  /\ \A j \in Jobs : pc[j] \in JobPCs
  /\ \A c \in Callers : pc[c] \in CallerPCs

TypeOK ==
  /\ PcOK
  /\ kv \in Schedules \cup {NoSchedule}
  /\ mutex \in Procs \cup {NoProcess}
  /\ at \in [Procs -> Nodes \cup {NoProcess}]
  /\ sched \in [Procs -> Schedules \cup {NoSchedule}]
  /\ job \in [Callers -> Jobs \cup {NoProcess}]
  /\ numFails \in [Jobs -> Nat]
  /\ done \subseteq Jobs
  /\ activeJobs \in [Nodes -> Jobs \cup {NoProcess}]
  /\ snapshot \in [Nodes -> Schedules \cup {NoSchedule}]
  /\ handles \subseteq Jobs
  /\ calls \in 0 .. MaxCalls
  /\ stored \subseteq Schedules
  /\ cancelled \subseteq Schedules
  /\ ran \in [Schedules -> Nat]
  /\ misread \subseteq Schedules
  /\ faults \in 0 .. MaxFaults
  /\ slips \in 0 .. faults

Init ==
  /\ kv = NoSchedule
  /\ mutex = NoProcess
  /\ pc = [p \in Procs |-> IF p \in Jobs THEN "unused" ELSE "idle"]
  /\ at = [p \in Procs |-> NoProcess]
  /\ sched = [p \in Procs |-> NoSchedule]
  /\ job = [c \in Callers |-> NoProcess]
  /\ numFails = [j \in Jobs |-> 0]
  /\ done = {}
  /\ activeJobs = [n \in Nodes |-> NoProcess]
  /\ snapshot = [n \in Nodes |-> NoSchedule]
  /\ handles = {}
  /\ calls = 0
  /\ stored = {}
  /\ cancelled = {}
  /\ ran = [n \in Schedules |-> 0]
  /\ misread = {}
  /\ faults = 0
  /\ slips = 0

Fault(kind) ==
  /\ kind \in FaultKinds
  /\ faults < MaxFaults
  /\ faults' = faults + 1
  /\ slips' = IF kind = "read" THEN slips ELSE slips + 1

Goto(p, from, to) == pc[p] = from /\ pc' = [pc EXCEPT ![p] = to]

----------------------------------------------------------------------------
(* The locks. *)

\* clusterMutex.Lock, wherever it is called.
Acquire(p) ==
  /\ Lock!Acquire(p)
  /\ \/ Goto(p, "locking", "read")
     \/ Goto(p, "saveLocking", "save")
     \/ Goto(p, "dbLocking", "dbDelete")
     \/ Goto(p, "cancelLocking", "delete")
  /\ UNCHANGED <<kv, at, sched, job, nodeVars, jobVars, historyVars, faultVars>>

\* clusterMutex.Unlock, which deletes the key without a look at whose it is. The
\* callers return, or go on to runAndTrack.
Release(p) ==
  /\ mutex' = NoProcess
  /\ \/ Goto(p, "unlock", "waiting")
     \/ Goto(p, "saved", "track")
     \/ Goto(p, "dbUnlock", "idle")
     \/ Goto(p, "return", "idle")
  /\ UNCHANGED <<kv, at, sched, job, nodeVars, jobVars, historyVars, faultVars>>

\* A refresh fails, which ends the refresh task: the key expires, and who holds the
\* mutex goes on as if it did.
LoseMutex ==
  /\ Fault("refresh")
  /\ mutex # NoProcess
  /\ mutex' = NoProcess
  /\ UNCHANGED <<kv, pc, at, sched, job, nodeVars, jobVars, historyVars>>

\* activeJobs.mu can be locked for writing: scheduler.Cancel holds it for reading
\* from its look at activeJobs to the end of its work on the store.
Writable(n) ==
  \A c \in Callers : pc[c] \in {"dbLocking", "dbDelete", "dbUnlock"} => at[c] # n

----------------------------------------------------------------------------
(* JobOnce.run. *)

\* The time has come. (select may take this case even when done is closed.)
Wake(j) ==
  /\ Goto(j, "waiting", "locking")
  /\ UNCHANGED <<kv, mutex, at, sched, job, nodeVars, jobVars, historyVars, faultVars>>

\* done is closed: the goroutine ends and closes join.
End(j) ==
  /\ j \in done
  /\ Goto(j, "waiting", "ended")
  /\ UNCHANGED <<kv, mutex, at, sched, job, nodeVars, jobVars, historyVars, faultVars>>

\* A mistake: the entry is not looked at.
DueUnchecked(j, entry) == TRUE

\* The entry that was read is there, and has the time of this job.
Due(j, entry) == entry # NoSchedule /\ runAt[entry] = runAt[sched[j]]

ReadMetadata(j) ==
  /\ Goto(j, "read", IF Due(j, kv) THEN "execute" ELSE "delete")
  /\ UNCHANGED <<kv, mutex, at, sched, job, nodeVars, jobVars, historyVars, faultVars>>

\* What a replica that lags behind may answer: any earlier state of the entry.
Earlier == (stored \cup {NoSchedule}) \ {kv}

ReadStale(j) ==
  /\ Fault("lag")
  /\ \E entry \in Earlier :
       /\ Goto(j, "read", IF Due(j, entry) THEN "execute" ELSE "delete")
       /\ misread' = IF Due(j, kv) /\ ~ Due(j, entry) THEN misread \cup {kv} ELSE misread
  /\ UNCHANGED <<kv, mutex, at, sched, job, nodeVars, jobVars,
                 calls, stored, cancelled, ran>>

\* A mistake: the job is given up one failure early.
ReadErrorGivesUp(j) ==
  /\ Fault("read")
  /\ numFails' = [numFails EXCEPT ![j] = @ + 1]
  /\ Goto(j, "read", IF numFails'[j] >= maxNumFails THEN "delete" ELSE "unlock")
  /\ UNCHANGED <<kv, mutex, at, sched, job, nodeVars, done, historyVars>>

\* The store fails. The job waits a while, and is given up after too many fails.
ReadError(j) ==
  /\ Fault("read")
  /\ numFails' = [numFails EXCEPT ![j] = @ + 1]
  /\ Goto(j, "read", IF numFails'[j] > maxNumFails THEN "delete" ELSE "unlock")
  /\ UNCHANGED <<kv, mutex, at, sched, job, nodeVars, done, historyVars>>

\* executeJob: the callback is called, and returns, with the props of this JobOnce.
Execute(j) ==
  /\ Goto(j, "execute", "delete")
  /\ ran' = [ran EXCEPT ![sched[j]] = @ + 1]
  /\ UNCHANGED <<kv, mutex, at, sched, job, nodeVars, jobVars,
                 calls, stored, cancelled, misread, faultVars>>

----------------------------------------------------------------------------
(* cancelWhileHoldingMutex, in run and in JobOnce.Cancel. *)

Cancelled(p, entry) ==
  IF p \in Callers /\ entry # NoSchedule THEN cancelled \cup {entry} ELSE cancelled

\* KVDelete.
Delete(p) ==
  /\ Goto(p, "delete", "close")
  /\ kv' = NoSchedule
  /\ cancelled' = Cancelled(p, kv)
  /\ UNCHANGED <<mutex, at, sched, job, nodeVars, jobVars, calls, stored, ran, misread,
                 faultVars>>

\* The deletion fails, and the error is not looked at.
DeleteError(p) ==
  /\ Fault("delete")
  /\ Goto(p, "delete", "close")
  /\ UNCHANGED <<kv, mutex, at, sched, job, nodeVars, jobVars, historyVars>>

\* The job is forgotten, whichever it is that activeJobs has, and done is closed.
\* JobOnce.Cancel then waits for the goroutine.
Close(p) ==
  /\ pc[p] = "close"
  /\ Writable(at[p])
  /\ activeJobs' = [activeJobs EXCEPT ![at[p]] = NoProcess]
  /\ \/ p \in Jobs /\ done' = done \cup {p} /\ Goto(p, "close", "unlock")
     \/ p \in Callers /\ done' = done \cup {job[p]} /\ Goto(p, "close", "join")
  /\ UNCHANGED <<kv, mutex, at, sched, job, snapshot, handles, numFails,
                 historyVars, faultVars>>

\* The goroutine of the JobOnce has closed join.
Join(c) ==
  /\ Goto(c, "join", "return")
  /\ pc[job[c]] = "ended"
  /\ UNCHANGED <<kv, mutex, at, sched, job, nodeVars, jobVars, historyVars, faultVars>>

----------------------------------------------------------------------------
(* The scheduler. *)

Called == calls < MaxCalls /\ calls' = calls + 1

\* ScheduleOnce, up to the lock of saveMetadata.
ScheduleOnce(c, n) ==
  /\ Called
  /\ Goto(c, "idle", "saveLocking")
  /\ at' = [at EXCEPT ![c] = n]
  /\ sched' = [sched EXCEPT ![c] = calls']
  /\ UNCHANGED <<kv, mutex, job, nodeVars, jobVars, stored, cancelled, ran, misread,
                 faultVars>>

\* saveMetadata: an entry that exists is not overwritten, and the call fails.
SaveMetadata(c) ==
  /\ \/ /\ kv = NoSchedule
        /\ kv' = sched[c]
        /\ stored' = stored \cup {sched[c]}
        /\ Goto(c, "save", "saved")
     \/ /\ kv # NoSchedule
        /\ Goto(c, "save", "return")
        /\ UNCHANGED <<kv, stored>>
  /\ UNCHANGED <<mutex, at, sched, job, nodeVars, jobVars, calls, cancelled, ran, misread,
                 faultVars>>

\* Objects are all alike: any that is unused will do.
NextJob == CHOOSE j \in Jobs : pc[j] = "unused"

\* newJobOnce on node n for schedule s, with its goroutine or (pc "idle") without.
NewJobOnce(j, n, s) ==
  /\ pc[j] = "unused" /\ j = NextJob
  /\ at' = [at EXCEPT ![j] = n]
  /\ sched' = [sched EXCEPT ![j] = s]

\* runAndTrack, and ScheduleOnce returns its JobOnce: it has no goroutine if the
\* node has a JobOnce for the key already.
RunAndTrack(c, j) ==
  LET n == at[c] IN
  /\ pc[c] = "track"
  /\ Writable(n)
  /\ NewJobOnce(j, n, sched[c])
  /\ handles' = handles \cup {j}
  /\ \/ /\ activeJobs[n] = NoProcess
        /\ activeJobs' = [activeJobs EXCEPT ![n] = j]
        /\ pc' = [pc EXCEPT ![c] = "idle", ![j] = "waiting"]
     \/ /\ activeJobs[n] # NoProcess
        /\ pc' = [pc EXCEPT ![c] = "idle", ![j] = "idle"]
        /\ UNCHANGED activeJobs
  /\ UNCHANGED <<kv, mutex, job, snapshot, jobVars, historyVars, faultVars>>

\* The poller, and Start, read the entry ...
Poll(n) ==
  /\ snapshot[n] = NoSchedule
  /\ kv # NoSchedule
  /\ snapshot' = [snapshot EXCEPT ![n] = kv]
  /\ UNCHANGED <<kv, mutex, pc, at, sched, job, activeJobs, handles, jobVars,
                 historyVars, faultVars>>

PollStale(n) ==
  /\ Fault("lag")
  /\ snapshot[n] = NoSchedule
  /\ \E entry \in Earlier : snapshot' = [snapshot EXCEPT ![n] = entry]
  /\ UNCHANGED <<kv, mutex, pc, at, sched, job, activeJobs, handles, jobVars,
                 historyVars>>

\* ... and track it. A JobOnce that is not tracked is dropped.
TrackFromDB(n) ==
  /\ snapshot[n] # NoSchedule
  /\ Writable(n)
  /\ snapshot' = [snapshot EXCEPT ![n] = NoSchedule]
  /\ \/ /\ activeJobs[n] # NoProcess
        /\ UNCHANGED <<pc, at, sched, activeJobs>>
     \/ /\ activeJobs[n] = NoProcess
        /\ \E j \in Jobs : /\ NewJobOnce(j, n, snapshot[n])
                           /\ pc' = [pc EXCEPT ![j] = "waiting"]
                           /\ activeJobs' = [activeJobs EXCEPT ![n] = j]
  /\ UNCHANGED <<kv, mutex, job, handles, jobVars, historyVars, faultVars>>

\* A mistake: the entry is deleted without the lock.
CancelKeyUnlocked(c, n) ==
  /\ Called
  /\ at' = [at EXCEPT ![c] = n]
  /\ Goto(c, "idle", "dbDelete")
  /\ UNCHANGED <<kv, mutex, sched, job, nodeVars, jobVars, stored, cancelled, ran, misread,
                 faultVars>>

\* A mistake: a job is taken from activeJobs whether it has one or not.
CancelKeyNil(c, n) ==
  /\ Called
  /\ at' = [at EXCEPT ![c] = n]
  /\ Goto(c, "idle", "cancelLocking")
  /\ job' = [job EXCEPT ![c] = activeJobs[n]]
  /\ UNCHANGED <<kv, mutex, sched, nodeVars, jobVars, stored, cancelled, ran, misread,
                 faultVars>>

\* JobOnceScheduler.Cancel: the job of this node, or else the entry alone.
CancelKey(c, n) ==
  /\ Called
  /\ at' = [at EXCEPT ![c] = n]
  /\ \/ /\ activeJobs[n] = NoProcess
        /\ Goto(c, "idle", "dbLocking")
        /\ UNCHANGED job
     \/ /\ activeJobs[n] # NoProcess
        /\ Goto(c, "idle", "cancelLocking")
        /\ job' = [job EXCEPT ![c] = activeJobs[n]]
  /\ UNCHANGED <<kv, mutex, sched, nodeVars, jobVars, stored, cancelled, ran, misread,
                 faultVars>>

DeleteFromDB(c) ==
  /\ Goto(c, "dbDelete", "dbUnlock")
  /\ kv' = NoSchedule
  /\ cancelled' = Cancelled(c, kv)
  /\ UNCHANGED <<mutex, at, sched, job, nodeVars, jobVars, calls, stored, ran, misread,
                 faultVars>>

DeleteFromDBError(c) ==
  /\ Fault("delete")
  /\ Goto(c, "dbDelete", "dbUnlock")
  /\ UNCHANGED <<kv, mutex, at, sched, job, nodeVars, jobVars, historyVars>>

\* JobOnce.Cancel on what ScheduleOnce returned.
Cancel(c, j) ==
  /\ Called
  /\ j \in handles
  /\ Goto(c, "idle", "cancelLocking")
  /\ at' = [at EXCEPT ![c] = at[j]]
  /\ job' = [job EXCEPT ![c] = j]
  /\ UNCHANGED <<kv, mutex, sched, nodeVars, jobVars, stored, cancelled, ran, misread,
                 faultVars>>

----------------------------------------------------------------------------

\* A plugin instance dies and is started again; the mutex, if it had it, expires.
Crash(n) ==
  LET dead == {p \in Procs : at[p] = n} IN
  /\ Fault("crash")
  /\ dead # {}
  /\ pc' = [p \in Procs |-> IF p \notin dead THEN pc[p]
                            ELSE IF p \in Jobs THEN "unused" ELSE "idle"]
  /\ at' = [p \in Procs |-> IF p \in dead THEN NoProcess ELSE at[p]]
  /\ sched' = [p \in Procs |-> IF p \in dead THEN NoSchedule ELSE sched[p]]
  /\ job' = [c \in Callers |-> IF c \in dead THEN NoProcess ELSE job[c]]
  /\ mutex' = IF mutex \in dead THEN NoProcess ELSE mutex
  /\ numFails' = [j \in Jobs |-> IF j \in dead THEN 0 ELSE numFails[j]]
  /\ done' = done \ dead
  /\ handles' = handles \ dead
  /\ activeJobs' = [activeJobs EXCEPT ![n] = NoProcess]
  /\ snapshot' = [snapshot EXCEPT ![n] = NoSchedule]
  /\ UNCHANGED <<kv, historyVars>>

\* What goroutines and callers do once they have begun.
Step(p) ==
  \/ Acquire(p) \/ Release(p) \/ Delete(p) \/ Close(p)
  \/ p \in Jobs /\ (Wake(p) \/ End(p) \/ ReadMetadata(p) \/ Execute(p))
  \/ p \in Callers /\ \/ Join(p) \/ SaveMetadata(p) \/ DeleteFromDB(p)
                      \/ \E j \in Jobs : RunAndTrack(p, j)

Poller(n) == Poll(n) \/ TrackFromDB(n)

Call(c) == \/ \E n \in Nodes : ScheduleOnce(c, n) \/ CancelKey(c, n)
           \/ \E j \in Jobs : Cancel(c, j)

Failure == \/ \E p \in Procs : DeleteError(p)
           \/ \E j \in Jobs : ReadError(j) \/ ReadStale(j)
           \/ LoseMutex
           \/ \E c \in Callers : DeleteFromDBError(c)
           \/ \E n \in Nodes : PollStale(n) \/ Crash(n)

Next == \/ \E p \in Procs : Step(p)
        \/ \E n \in Nodes : Poller(n)
        \/ \E c \in Callers : Call(c)
        \/ Failure

Spec == Init /\ [][Next]_vars

FairSpec == /\ Spec
            /\ \A p \in Procs : WF_vars(Step(p))
            /\ \A n \in Nodes : WF_vars(Poll(n)) /\ WF_vars(TrackFromDB(n))

----------------------------------------------------------------------------
(* Properties. *)

\* "a scheduled job that will run once" (job_once_scheduler.go:126): however many
\* instances know of it, whatever reads fail, and although keys are deleted from
\* under other holders, it takes a slip for every run beyond the first: a
\* crash, a failed deletion, a stale read or a lost mutex.
AtMostOnce == \A s \in Schedules : ran[s] <= 1 + slips

\* "removes the job from the db, preventing it from being run in the future"
\* (job_once.go:69): what a Cancel has deleted has not been run and is not run, not
\* even by who had woken up for it already, but once for every slip.
CancelHolds == \A s \in cancelled : ran[s] <= slips

\* "When the clock reaches runAt, the callback will be called"
\* (job_once_scheduler.go:126): an entry goes away by being run or cancelled.
NotLost == \A s \in stored : s = kv \/ ran[s] > 0 \/ s \in cancelled

\* A stored schedule is run or cancelled in the end, through crashes of the
\* instance that made it or was running it, failing reads, failing deletions and
\* losses of the mutex. Only a replica that has not got the entry yet, or has it
\* no more, keeps it from being run: its own job then deletes it.
EventuallyRuns ==
  \A s \in Schedules : s \in stored ~> ran[s] > 0 \/ s \in cancelled \/ s \in misread

\* "Cancel terminates a scheduled job" (job_once.go:68): it comes back.
CancelReturns == \A c \in Callers : pc[c] = "cancelLocking" ~> pc[c] = "idle"
=============================================================================
