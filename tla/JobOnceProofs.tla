--------------------------- MODULE JobOnceProofs ---------------------------
(***************************************************************************)
(* Theorems about JobOnce: for any number of instances, callers and        *)
(* schedules, and any faults, a schedule runs once and, for each slip,     *)
(* once more at most; what was cancelled runs once for each slip at most.  *)
(***************************************************************************)
EXTENDS JobOnce, FiniteSetTheorems, TLAPS


\* Where a process holds the cluster mutex.
Holding == {"read", "execute", "delete", "close", "unlock", "save", "saved",
            "dbDelete", "dbUnlock", "join", "return"}

In == {p \in Procs : pc[p] \in Holding}

\* Those that have lost the mutex and do not know it.
Lost == In \ {mutex}

\* What processes refer to is there, and what goroutines are about was stored.
ObjectInv ==
  /\ \A j \in Jobs : pc[j] # "unused" => sched[j] \in stored
  /\ \A c \in Callers :
       /\ pc[c] \in {"saveLocking", "save"} => sched[c] \in Schedules
       /\ pc[c] \in {"saved", "track"} => sched[c] \in stored
       /\ pc[c] \in {"cancelLocking", "delete", "close", "join"} => job[c] \in Jobs
  /\ \A n \in Nodes : snapshot[n] \in stored \cup {NoSchedule}

Saving(c) == pc[c] \in {"saveLocking", "save"}

\* A call that is going to store its entry is like no call before it.
FreshInv ==
  /\ \A s \in stored : s <= calls
  /\ \A c \in Callers : Saving(c) => sched[c] <= calls /\ sched[c] \notin stored
  /\ \A c, d \in Callers :
       Saving(c) /\ Saving(d) /\ sched[c] = sched[d] => c = d

\* The entry there is has not been cancelled.
EntryInv ==
  /\ kv # NoSchedule => kv \in stored /\ kv \notin cancelled
  /\ cancelled \subseteq stored

IInv == TypeOK /\ ObjectInv /\ FreshInv /\ EntryInv

\* Jobs that are going to run the callback for a schedule, and those that are
\* going to delete its entry then.
Running(s) == {j \in Jobs : pc[j] = "execute" /\ sched[j] = s}
About(s) == {j \in Jobs : pc[j] \in {"execute", "delete"} /\ sched[j] = s}

\* Every slip lets one more process in, or one more run of an entry that stays:
\* the entry there is may have been run by those who are about to delete it, and
\* by one more for every slip that is not a process too many.
CountInv ==
  /\ Cardinality(Lost) <= slips
  /\ \A s \in Schedules :
       /\ s \notin stored => ran[s] = 0
       /\ kv = s => ran[s] + Cardinality(Running(s)) + Cardinality(Lost)
                      <= Cardinality(About(s)) + slips
       /\ s \in cancelled => ran[s] + Cardinality(Running(s)) <= slips
       /\ ran[s] + Cardinality(Running(s)) <= 1 + slips

\* Each schedule has a time of its own.
RunAtInjective == \A s, t \in Schedules : runAt[s] = runAt[t] => s = t

USE MaxCallsAssumption, RunAtAssumption, ProcsAssumption, FailsAssumption
USE DEF nodeVars, jobVars, historyVars, faultVars

\* The bound on faults, and which of them are slips.
LEMMA FaultType ==
  ASSUME TypeOK, NEW kind, Fault(kind)
  PROVE  /\ faults' \in 0 .. MaxFaults
         /\ slips' \in 0 .. faults'
         /\ slips' = IF kind = "read" THEN slips ELSE slips + 1
  BY DEF TypeOK, Fault

\* A call has a number of its own, after all others.
LEMMA CallType ==
  ASSUME TypeOK, Called
  PROVE  /\ calls' \in 0 .. MaxCalls
         /\ calls' \in Schedules
         /\ \A s \in Schedules \cup {NoSchedule} :
              s <= calls => s <= calls' /\ s # calls'
         /\ calls' <= calls'
  BY DEF TypeOK, Called, Schedules, NoSchedule

\* The variables but pc keep their types.
LEMMA NextTypeOK ==
  ASSUME TypeOK, ObjectInv, PcOK', [Next]_vars
  PROVE  TypeOK'
<1> USE DEF TypeOK
<1>1. ASSUME NEW p \in Procs, Acquire(p) PROVE TypeOK'
  BY <1>1 DEF Acquire, Lock!Acquire
<1>2. ASSUME NEW p \in Procs, Release(p) PROVE TypeOK'
  BY <1>2 DEF Release
<1>3. ASSUME NEW p \in Procs, Delete(p) PROVE TypeOK'
  <2>1. kv' \in Schedules \cup {NoSchedule} /\ cancelled' \subseteq Schedules
    BY <1>3 DEF Delete, Cancelled, NoSchedule
  <2> QED BY <1>3, <2>1 DEF Delete
<1>4. ASSUME NEW p \in Procs, Close(p) PROVE TypeOK'
  <2>1. activeJobs' \in [Nodes -> Jobs \cup {NoProcess}]
    BY <1>4 DEF Close
  <2>2. p \in Callers => job[p] \in Jobs
    BY <1>4 DEF Close, ObjectInv
  <2>3. done' \subseteq Jobs
    BY <1>4, <2>2 DEF Close
  <2> QED BY <1>4, <2>1, <2>3 DEF Close
<1>5. ASSUME NEW j \in Jobs, Wake(j) \/ End(j) \/ ReadMetadata(j) PROVE TypeOK'
  BY <1>5 DEF Wake, End, ReadMetadata
<1>6. ASSUME NEW j \in Jobs, Execute(j) PROVE TypeOK'
  <2>1. sched[j] \in Schedules
    BY <1>6 DEF Execute, Goto, ObjectInv, PcOK, JobPCs
  <2>2. ran' \in [Schedules -> Nat]
    BY <1>6, <2>1 DEF Execute
  <2> QED BY <1>6, <2>2 DEF Execute
<1>7. ASSUME NEW c \in Callers, Join(c) PROVE TypeOK'
  BY <1>7 DEF Join
<1>8. ASSUME NEW c \in Callers, SaveMetadata(c) PROVE TypeOK'
  <2>1. sched[c] \in Schedules
    BY <1>8 DEF SaveMetadata, Goto, ObjectInv
  <2>2. kv' \in Schedules \cup {NoSchedule} /\ stored' \subseteq Schedules
    BY <1>8, <2>1 DEF SaveMetadata
  <2> QED BY <1>8, <2>2 DEF SaveMetadata
<1>9. ASSUME NEW c \in Callers, DeleteFromDB(c) PROVE TypeOK'
  <2>1. kv' \in Schedules \cup {NoSchedule} /\ cancelled' \subseteq Schedules
    BY <1>9 DEF DeleteFromDB, Cancelled, NoSchedule
  <2> QED BY <1>9, <2>1 DEF DeleteFromDB
<1>10. ASSUME NEW c \in Callers, NEW j \in Jobs, RunAndTrack(c, j) PROVE TypeOK'
  <2>1. at' \in [Procs -> Nodes \cup {NoProcess}]
        /\ sched' \in [Procs -> Schedules \cup {NoSchedule}]
    BY <1>10 DEF RunAndTrack, NewJobOnce, Procs
  <2>2. activeJobs' \in [Nodes -> Jobs \cup {NoProcess}] /\ handles' \subseteq Jobs
    BY <1>10 DEF RunAndTrack
  <2> QED BY <1>10, <2>1, <2>2 DEF RunAndTrack, jobVars, historyVars
<1>11. ASSUME NEW n \in Nodes, Poll(n) PROVE TypeOK'
  BY <1>11 DEF Poll
<1>12. ASSUME NEW n \in Nodes, TrackFromDB(n) PROVE TypeOK'
  <2>1. at' \in [Procs -> Nodes \cup {NoProcess}]
        /\ sched' \in [Procs -> Schedules \cup {NoSchedule}]
    BY <1>12 DEF TrackFromDB, NewJobOnce, Procs
  <2>2. activeJobs' \in [Nodes -> Jobs \cup {NoProcess}]
        /\ snapshot' \in [Nodes -> Schedules \cup {NoSchedule}]
    BY <1>12 DEF TrackFromDB
  <2> QED BY <1>12, <2>1, <2>2 DEF TrackFromDB, jobVars, historyVars
<1>13. ASSUME NEW c \in Callers, NEW n \in Nodes, ScheduleOnce(c, n) PROVE TypeOK'
  <2>1. calls' \in 0 .. MaxCalls /\ calls' \in Schedules
    BY <1>13, CallType DEF ScheduleOnce
  <2>2. at' \in [Procs -> Nodes \cup {NoProcess}]
        /\ sched' \in [Procs -> Schedules \cup {NoSchedule}]
    BY <1>13, <2>1 DEF ScheduleOnce
  <2> QED BY <1>13, <2>1, <2>2 DEF ScheduleOnce
<1>14. ASSUME NEW c \in Callers, NEW n \in Nodes, CancelKey(c, n) PROVE TypeOK'
  <2>1. calls' \in 0 .. MaxCalls
    BY <1>14, CallType DEF CancelKey
  <2>2. at' \in [Procs -> Nodes \cup {NoProcess}]
        /\ job' \in [Callers -> Jobs \cup {NoProcess}]
    BY <1>14 DEF CancelKey
  <2> QED BY <1>14, <2>1, <2>2 DEF CancelKey
<1>15. ASSUME NEW c \in Callers, NEW j \in Jobs, Cancel(c, j) PROVE TypeOK'
  <2>1. calls' \in 0 .. MaxCalls
    BY <1>15, CallType DEF Cancel
  <2>2. at' \in [Procs -> Nodes \cup {NoProcess}]
        /\ job' \in [Callers -> Jobs \cup {NoProcess}]
    BY <1>15 DEF Cancel, Procs
  <2> QED BY <1>15, <2>1, <2>2 DEF Cancel
<1>16. ASSUME NEW p \in Procs, DeleteError(p) PROVE TypeOK'
  BY <1>16, FaultType DEF DeleteError
<1>17. ASSUME NEW j \in Jobs, ReadError(j) PROVE TypeOK'
  <2>1. /\ numFails' \in [Jobs -> Nat]
        /\ faults' \in 0 .. MaxFaults
        /\ slips' \in 0 .. faults'
    BY <1>17, FaultType DEF ReadError
  <2> QED BY <1>17, <2>1 DEF ReadError
<1>18. ASSUME NEW c \in Callers, DeleteFromDBError(c) PROVE TypeOK'
  BY <1>18, FaultType DEF DeleteFromDBError
<1>19. ASSUME NEW n \in Nodes, Crash(n) PROVE TypeOK'
  <2>1. faults' \in 0 .. MaxFaults /\ slips' \in 0 .. faults'
    BY <1>19, FaultType DEF Crash, NoSchedule
  <2>2. at' \in [Procs -> Nodes \cup {NoProcess}]
        /\ sched' \in [Procs -> Schedules \cup {NoSchedule}]
        /\ job' \in [Callers -> Jobs \cup {NoProcess}]
        /\ mutex' \in Procs \cup {NoProcess}
    BY <1>19 DEF Crash, NoSchedule
  <2>3. numFails' \in [Jobs -> Nat] /\ done' \subseteq Jobs /\ handles' \subseteq Jobs
    BY <1>19 DEF Crash, NoSchedule
  <2>4. activeJobs' \in [Nodes -> Jobs \cup {NoProcess}]
        /\ snapshot' \in [Nodes -> Schedules \cup {NoSchedule}]
    BY <1>19 DEF Crash, NoSchedule
  <2> QED BY <1>19, <2>1, <2>2, <2>3, <2>4 DEF Crash, NoSchedule
<1>20. ASSUME NEW j \in Jobs, ReadStale(j) PROVE TypeOK'
  <2>1. misread' \subseteq Schedules
    BY <1>20 DEF ReadStale, Due
  <2>2. faults' \in 0 .. MaxFaults /\ slips' \in 0 .. faults'
    BY <1>20, FaultType DEF ReadStale
  <2> QED BY <1>20, <2>1, <2>2 DEF ReadStale
<1>21. ASSUME LoseMutex PROVE TypeOK'
  BY <1>21, FaultType DEF LoseMutex
<1>22. ASSUME NEW n \in Nodes, PollStale(n) PROVE TypeOK'
  <2>1. snapshot' \in [Nodes -> Schedules \cup {NoSchedule}]
    BY <1>22 DEF PollStale, Earlier
  <2> QED BY <1>22, <2>1, FaultType DEF PollStale
<1>23. CASE UNCHANGED vars
  BY <1>23 DEF vars
<1> QED
  BY <1>1, <1>2, <1>3, <1>4, <1>5, <1>6, <1>7, <1>8, <1>9, <1>10, <1>11, <1>12,
     <1>13, <1>14, <1>15, <1>16, <1>17, <1>18, <1>19, <1>20, <1>21, <1>22, <1>23
     DEF Next, Step, Poller, Call, Failure
\* Where processes can be.
LEMMA NextPcOK ==
  ASSUME PcOK, [Next]_vars
  PROVE  PcOK'
<1> USE DEF PcOK, JobPCs, CallerPCs, Procs
<1>1. ASSUME NEW p \in Procs, Acquire(p) \/ Release(p) PROVE PcOK'
  BY <1>1 DEF Acquire, Release, Lock!Acquire, Goto
<1>2. ASSUME NEW p \in Procs, Delete(p) \/ DeleteError(p) PROVE PcOK'
  BY <1>2 DEF Delete, DeleteError, Goto, Cancelled
<1>3. ASSUME NEW p \in Procs, Close(p) PROVE PcOK'
  BY <1>3 DEF Close, Goto
<1>4. ASSUME NEW j \in Jobs, Wake(j) \/ End(j) PROVE PcOK'
  BY <1>4 DEF Wake, End, Goto
<1>5. ASSUME NEW j \in Jobs, ReadMetadata(j) \/ ReadStale(j) \/ ReadError(j)
      PROVE  PcOK'
  BY <1>5 DEF ReadMetadata, ReadStale, ReadError, Goto
<1>6. ASSUME NEW j \in Jobs, Execute(j) PROVE PcOK'
  BY <1>6 DEF Execute, Goto
<1>7. ASSUME NEW c \in Callers, Join(c) PROVE PcOK'
  BY <1>7 DEF Join, Goto
<1>8. ASSUME NEW c \in Callers, SaveMetadata(c) PROVE PcOK'
  BY <1>8 DEF SaveMetadata, Goto
<1>9. ASSUME NEW c \in Callers, DeleteFromDB(c) \/ DeleteFromDBError(c) PROVE PcOK'
  BY <1>9 DEF DeleteFromDB, DeleteFromDBError, Goto, Cancelled
<1>10. ASSUME NEW c \in Callers, NEW j \in Jobs, RunAndTrack(c, j) PROVE PcOK'
  BY <1>10 DEF RunAndTrack, NewJobOnce
<1>11. ASSUME NEW n \in Nodes, Poll(n) \/ PollStale(n) \/ TrackFromDB(n)
      PROVE  PcOK'
  BY <1>11 DEF Poll, PollStale, Earlier, TrackFromDB, NewJobOnce
<1>12. ASSUME NEW c \in Callers, NEW n \in Nodes, ScheduleOnce(c, n) PROVE PcOK'
  BY <1>12 DEF ScheduleOnce, Called, Goto
<1>13. ASSUME NEW c \in Callers, NEW n \in Nodes, CancelKey(c, n) PROVE PcOK'
  BY <1>13 DEF CancelKey, Called, Goto
<1>14. ASSUME NEW c \in Callers, NEW j \in Jobs, Cancel(c, j) PROVE PcOK'
  BY <1>14 DEF Cancel, Called, Goto
<1>15. ASSUME NEW n \in Nodes, Crash(n) PROVE PcOK'
  BY <1>15 DEF Crash
<1>16. ASSUME LoseMutex PROVE PcOK'
  BY <1>16 DEF LoseMutex
<1>17. CASE UNCHANGED vars
  BY <1>17 DEF vars
<1> QED
  BY <1>1, <1>2, <1>3, <1>4, <1>5, <1>6, <1>7, <1>8, <1>9, <1>10,
     <1>11, <1>12, <1>13, <1>14, <1>15, <1>16, <1>17
     DEF Next, Step, Poller, Call, Failure

\* References stay good.
LEMMA NextObjectInv ==
  ASSUME TypeOK, ObjectInv, EntryInv, [Next]_vars
  PROVE  ObjectInv'
<1> USE DEF ObjectInv, TypeOK, PcOK, JobPCs, CallerPCs, Procs
<1>1. ASSUME NEW p \in Procs, Acquire(p) \/ Release(p) PROVE ObjectInv'
  BY <1>1 DEF Acquire, Release, Lock!Acquire, Goto
<1>2. ASSUME NEW p \in Procs, Delete(p) \/ DeleteError(p) PROVE ObjectInv'
  BY <1>2 DEF Delete, DeleteError, Goto, Cancelled
<1>3. ASSUME NEW p \in Procs, Close(p) PROVE ObjectInv'
  BY <1>3 DEF Close, Goto
<1>4. ASSUME NEW j \in Jobs, Wake(j) \/ End(j) PROVE ObjectInv'
  BY <1>4 DEF Wake, End, Goto
<1>5. ASSUME NEW j \in Jobs, ReadMetadata(j) \/ ReadStale(j) \/ ReadError(j)
      PROVE  ObjectInv'
  BY <1>5 DEF ReadMetadata, ReadStale, ReadError, Goto
<1>6. ASSUME NEW j \in Jobs, Execute(j) PROVE ObjectInv'
  BY <1>6 DEF Execute, Goto
<1>7. ASSUME NEW c \in Callers, Join(c) PROVE ObjectInv'
  BY <1>7 DEF Join, Goto
<1>8. ASSUME NEW c \in Callers, SaveMetadata(c) PROVE ObjectInv'
  BY <1>8 DEF SaveMetadata, Goto
<1>9. ASSUME NEW c \in Callers, DeleteFromDB(c) \/ DeleteFromDBError(c) PROVE ObjectInv'
  BY <1>9 DEF DeleteFromDB, DeleteFromDBError, Goto, Cancelled
<1>10. ASSUME NEW c \in Callers, NEW j \in Jobs, RunAndTrack(c, j) PROVE ObjectInv'
  BY <1>10 DEF RunAndTrack, NewJobOnce
<1>11. ASSUME NEW n \in Nodes, Poll(n) \/ PollStale(n) \/ TrackFromDB(n)
      PROVE  ObjectInv'
  <2>1. CASE Poll(n)
    BY <2>1 DEF Poll, EntryInv
  <2>2. CASE PollStale(n)
    <3>1. PICK entry \in stored \cup {NoSchedule} : snapshot' = [snapshot EXCEPT ![n] = entry]
      BY <2>2 DEF PollStale, Earlier
    <3> QED BY <2>2, <3>1 DEF PollStale
  <2>3. CASE TrackFromDB(n)
    BY <2>3 DEF TrackFromDB, NewJobOnce
  <2> QED BY <1>11, <2>1, <2>2, <2>3
<1>12. ASSUME NEW c \in Callers, NEW n \in Nodes, ScheduleOnce(c, n) PROVE ObjectInv'
  <2>1. calls' \in Schedules
    BY <1>12, CallType DEF ScheduleOnce
  <2> QED BY <1>12, <2>1 DEF ScheduleOnce, Goto
<1>13. ASSUME NEW c \in Callers, NEW n \in Nodes, CancelKey(c, n) PROVE ObjectInv'
  BY <1>13 DEF CancelKey, Called, Goto
<1>14. ASSUME NEW c \in Callers, NEW j \in Jobs, Cancel(c, j) PROVE ObjectInv'
  BY <1>14 DEF Cancel, Called, Goto
<1>15. ASSUME NEW n \in Nodes, Crash(n) PROVE ObjectInv'
  BY <1>15 DEF Crash
<1>16. ASSUME LoseMutex PROVE ObjectInv'
  BY <1>16 DEF LoseMutex
<1>17. CASE UNCHANGED vars
  BY <1>17 DEF vars
<1> QED
  BY <1>1, <1>2, <1>3, <1>4, <1>5, <1>6, <1>7, <1>8, <1>9, <1>10,
     <1>11, <1>12, <1>13, <1>14, <1>15, <1>16, <1>17
     DEF Next, Step, Poller, Call, Failure

\* A call that is going to store stays fresh.
LEMMA NextFreshInv ==
  ASSUME TypeOK, ObjectInv, FreshInv, [Next]_vars
  PROVE  FreshInv'
<1> USE DEF FreshInv, Saving, TypeOK, PcOK, JobPCs, CallerPCs, Procs
<1>1. ASSUME NEW p \in Procs, Acquire(p) \/ Release(p) PROVE FreshInv'
  BY <1>1 DEF Acquire, Release, Lock!Acquire, Goto
<1>2. ASSUME NEW p \in Procs, Delete(p) \/ DeleteError(p) PROVE FreshInv'
  BY <1>2 DEF Delete, DeleteError, Goto, Cancelled
<1>3. ASSUME NEW p \in Procs, Close(p) PROVE FreshInv'
  BY <1>3 DEF Close, Goto
<1>4. ASSUME NEW j \in Jobs, Wake(j) \/ End(j) PROVE FreshInv'
  BY <1>4 DEF Wake, End, Goto
<1>5. ASSUME NEW j \in Jobs, ReadMetadata(j) \/ ReadStale(j) \/ ReadError(j)
      PROVE  FreshInv'
  BY <1>5 DEF ReadMetadata, ReadStale, ReadError, Goto
<1>6. ASSUME NEW j \in Jobs, Execute(j) PROVE FreshInv'
  BY <1>6 DEF Execute, Goto
<1>7. ASSUME NEW c \in Callers, Join(c) PROVE FreshInv'
  BY <1>7 DEF Join, Goto
<1>8. ASSUME NEW c \in Callers, SaveMetadata(c) PROVE FreshInv'
  BY <1>8 DEF SaveMetadata, Goto
<1>9. ASSUME NEW c \in Callers, DeleteFromDB(c) \/ DeleteFromDBError(c) PROVE FreshInv'
  BY <1>9 DEF DeleteFromDB, DeleteFromDBError, Goto, Cancelled
<1>10. ASSUME NEW c \in Callers, NEW j \in Jobs, RunAndTrack(c, j) PROVE FreshInv'
  BY <1>10 DEF RunAndTrack, NewJobOnce
<1>11. ASSUME NEW n \in Nodes, Poll(n) \/ PollStale(n) \/ TrackFromDB(n)
      PROVE  FreshInv'
  BY <1>11 DEF Poll, PollStale, Earlier, TrackFromDB, NewJobOnce
<1>12. ASSUME NEW c \in Callers, NEW n \in Nodes, ScheduleOnce(c, n) PROVE FreshInv'
  <2>1. /\ \A s \in Schedules \cup {NoSchedule} :
             s <= calls => s <= calls' /\ s # calls'
        /\ calls' <= calls'
    BY <1>12, CallType DEF ScheduleOnce
  <2>2. \A s \in stored' : s <= calls'
    BY <1>12, <2>1 DEF ScheduleOnce
  <2>3. ~ Saving(c) /\ Saving(c)' /\ sched'[c] = calls'
    BY <1>12 DEF ScheduleOnce, Goto
  <2>4. \A d \in Callers : d # c => sched'[d] = sched[d] /\ Saving(d)' = Saving(d)
    BY <1>12 DEF ScheduleOnce, Goto
  <2>5. stored' = stored
    BY <1>12 DEF ScheduleOnce
  <2>6. calls' \notin stored
    BY <2>1
  <2>7. \A d \in Callers : Saving(d)' => sched'[d] <= calls' /\ sched'[d] \notin stored'
    BY <2>1, <2>3, <2>4, <2>5, <2>6
  <2>8. \A d, e \in Callers :
          Saving(d)' /\ Saving(e)' /\ sched'[d] = sched'[e] => d = e
    BY <2>1, <2>3, <2>4
  <2> QED BY <2>2, <2>7, <2>8
<1>13. ASSUME NEW c \in Callers, NEW n \in Nodes, CancelKey(c, n) PROVE FreshInv'
  <2>1. \A s \in Schedules \cup {NoSchedule} :
          s <= calls => s <= calls' /\ s # calls'
    BY <1>13, CallType DEF CancelKey
  <2> QED BY <1>13, <2>1 DEF CancelKey, Goto
<1>14. ASSUME NEW c \in Callers, NEW j \in Jobs, Cancel(c, j) PROVE FreshInv'
  <2>1. \A s \in Schedules \cup {NoSchedule} :
          s <= calls => s <= calls' /\ s # calls'
    BY <1>14, CallType DEF Cancel
  <2> QED BY <1>14, <2>1 DEF Cancel, Goto
<1>15. ASSUME NEW n \in Nodes, Crash(n) PROVE FreshInv'
  BY <1>15 DEF Crash
<1>16. ASSUME LoseMutex PROVE FreshInv'
  BY <1>16 DEF LoseMutex
<1>17. CASE UNCHANGED vars
  BY <1>17 DEF vars
<1> QED
  BY <1>1, <1>2, <1>3, <1>4, <1>5, <1>6, <1>7, <1>8, <1>9, <1>10,
     <1>11, <1>12, <1>13, <1>14, <1>15, <1>16, <1>17
     DEF Next, Step, Poller, Call, Failure

\* The entry there is stays uncancelled.
LEMMA NextEntryInv ==
  ASSUME IInv, [Next]_vars
  PROVE  EntryInv'
<1> USE DEF EntryInv, IInv, TypeOK, PcOK, JobPCs, CallerPCs, Procs
<1>1. ASSUME NEW p \in Procs, Acquire(p) \/ Release(p) PROVE EntryInv'
  BY <1>1 DEF Acquire, Release, Lock!Acquire, Goto
<1>2. ASSUME NEW p \in Procs, Delete(p) \/ DeleteError(p) PROVE EntryInv'
  BY <1>2 DEF Delete, DeleteError, Goto, Cancelled
<1>3. ASSUME NEW p \in Procs, Close(p) PROVE EntryInv'
  BY <1>3 DEF Close, Goto
<1>4. ASSUME NEW j \in Jobs, Wake(j) \/ End(j) PROVE EntryInv'
  BY <1>4 DEF Wake, End, Goto
<1>5. ASSUME NEW j \in Jobs, ReadMetadata(j) \/ ReadStale(j) \/ ReadError(j)
      PROVE  EntryInv'
  BY <1>5 DEF ReadMetadata, ReadStale, ReadError, Goto
<1>6. ASSUME NEW j \in Jobs, Execute(j) PROVE EntryInv'
  BY <1>6 DEF Execute, Goto
<1>7. ASSUME NEW c \in Callers, Join(c) PROVE EntryInv'
  BY <1>7 DEF Join, Goto
<1>8. ASSUME NEW c \in Callers, SaveMetadata(c) PROVE EntryInv'
  <2>1. pc[c] = "save" /\ cancelled' = cancelled
    BY <1>8 DEF SaveMetadata, Goto
  <2>2. sched[c] \in Schedules /\ sched[c] \notin stored
    BY <2>1 DEF ObjectInv, FreshInv, Saving
  <2> QED BY <1>8, <2>1, <2>2 DEF SaveMetadata
<1>9. ASSUME NEW c \in Callers, DeleteFromDB(c) \/ DeleteFromDBError(c) PROVE EntryInv'
  BY <1>9 DEF DeleteFromDB, DeleteFromDBError, Goto, Cancelled
<1>10. ASSUME NEW c \in Callers, NEW j \in Jobs, RunAndTrack(c, j) PROVE EntryInv'
  BY <1>10 DEF RunAndTrack, NewJobOnce
<1>11. ASSUME NEW n \in Nodes, Poll(n) \/ PollStale(n) \/ TrackFromDB(n)
      PROVE  EntryInv'
  BY <1>11 DEF Poll, PollStale, Earlier, TrackFromDB, NewJobOnce
<1>12. ASSUME NEW c \in Callers, NEW n \in Nodes, ScheduleOnce(c, n) PROVE EntryInv'
  BY <1>12 DEF ScheduleOnce, Called, Goto
<1>13. ASSUME NEW c \in Callers, NEW n \in Nodes, CancelKey(c, n) PROVE EntryInv'
  BY <1>13 DEF CancelKey, Called, Goto
<1>14. ASSUME NEW c \in Callers, NEW j \in Jobs, Cancel(c, j) PROVE EntryInv'
  BY <1>14 DEF Cancel, Called, Goto
<1>15. ASSUME NEW n \in Nodes, Crash(n) PROVE EntryInv'
  BY <1>15 DEF Crash
<1>16. ASSUME LoseMutex PROVE EntryInv'
  BY <1>16 DEF LoseMutex
<1>17. CASE UNCHANGED vars
  BY <1>17 DEF vars
<1> QED
  BY <1>1, <1>2, <1>3, <1>4, <1>5, <1>6, <1>7, <1>8, <1>9, <1>10,
     <1>11, <1>12, <1>13, <1>14, <1>15, <1>16, <1>17
     DEF Next, Step, Poller, Call, Failure


----------------------------------------------------------------------------
(* Counting. *)


\* The sets that are counted are finite, and whoever is about to delete an entry
\* is let in.
CountsOK(s) ==
  /\ IsFiniteSet(In) /\ IsFiniteSet(Lost) /\ IsFiniteSet(Running(s)) /\ IsFiniteSet(About(s))
  /\ About(s) \subseteq In /\ Running(s) \subseteq About(s)
  /\ Cardinality(In) \in Nat /\ Cardinality(Lost) \in Nat
  /\ Cardinality(Running(s)) \in Nat /\ Cardinality(About(s)) \in Nat
  /\ Cardinality(In) <= Cardinality(Lost) + 1

LEMMA Counts == \A s \in Nat : CountsOK(s)
<1> SUFFICES ASSUME NEW s \in Nat PROVE CountsOK(s)
  OBVIOUS
<1>1. IsFiniteSet(Procs)
  BY FiniteAssumption, FS_Union DEF Procs
<1>2. In \subseteq Procs /\ Lost \subseteq In
  BY DEF In, Lost
<1>3. About(s) \subseteq In /\ Running(s) \subseteq About(s)
  BY DEF About, Running, In, Holding, Procs
<1>4. IsFiniteSet(In)
  BY <1>1, <1>2, FS_Subset
<1>5. IsFiniteSet(Lost) /\ IsFiniteSet(About(s))
  BY <1>2, <1>3, <1>4, FS_Subset
<1>6. IsFiniteSet(Running(s))
  BY <1>3, <1>5, FS_Subset
<1>7. /\ Cardinality(In) \in Nat /\ Cardinality(Lost) \in Nat
      /\ Cardinality(Running(s)) \in Nat /\ Cardinality(About(s)) \in Nat
  BY <1>4, <1>5, <1>6, FS_CardinalityType
<1>8. Cardinality(In) <= Cardinality(Lost) + 1
  <2>1. CASE mutex \in In
    <3>1. Cardinality(In \ {mutex}) = Cardinality(In) - 1
      BY <1>4, <2>1, FS_RemoveElement
    <3> QED BY <1>7, <3>1 DEF Lost
  <2>2. CASE mutex \notin In
    BY <1>7, <2>2 DEF Lost
  <2> QED BY <2>1, <2>2
<1> QED BY <1>3, <1>4, <1>5, <1>6, <1>7, <1>8 DEF CountsOK

LEMMA CountsNext == \A s \in Nat : CountsOK(s)'
<1>1. (\A s \in Nat : CountsOK(s))'
  BY Counts, PTL
<1> QED BY <1>1

\* What a lemma about a step may use of the state before and after it.
LEMMA CountTypes ==
  ASSUME TypeOK, TypeOK', NEW s \in Schedules
  PROVE  /\ slips \in Nat /\ slips' \in Nat /\ ran[s] \in Nat /\ ran'[s] \in Nat
         /\ CountsOK(s) /\ CountsOK(s)'
         /\ Schedules \subseteq Nat
  BY Counts, CountsNext DEF TypeOK, Schedules

LEMMA LostType == Cardinality(Lost) \in Nat /\ Cardinality(Lost)' \in Nat
<1>1. 0 \in Nat
  OBVIOUS
<1>2. CountsOK(0) /\ CountsOK(0)'
  BY <1>1, Counts, CountsNext
<1> QED BY <1>2 DEF CountsOK

\* A step that lets nobody in, runs nothing and deletes nothing.
LEMMA CountQuiet ==
  ASSUME TypeOK, CountInv, TypeOK',
         kv' = kv, ran' = ran, stored' = stored, cancelled' = cancelled,
         slips <= slips',
         Cardinality(Lost)' <= Cardinality(Lost),
         \A s \in Schedules : Running(s)' = Running(s) /\ About(s) \subseteq About(s)'
  PROVE  CountInv'
<1>1. Cardinality(Lost)' <= slips'
  <2>1. slips \in Nat /\ slips' \in Nat
    BY DEF TypeOK
  <2> QED BY <2>1, LostType DEF CountInv
<1>2. ASSUME NEW s \in Schedules
      PROVE  /\ s \notin stored => ran'[s] = 0
             /\ kv = s => ran'[s] + Cardinality(Running(s))' + Cardinality(Lost)'
                            <= Cardinality(About(s))' + slips'
             /\ s \in cancelled => ran'[s] + Cardinality(Running(s))' <= slips'
             /\ ran'[s] + Cardinality(Running(s))' <= 1 + slips'
  <2>1. /\ slips \in Nat /\ slips' \in Nat /\ ran[s] \in Nat
        /\ CountsOK(s) /\ CountsOK(s)'
    BY CountTypes
  <2>2. Cardinality(Running(s))' = Cardinality(Running(s))
    OBVIOUS
  <2>3. Cardinality(About(s)) <= Cardinality(About(s))'
    BY <2>1, FS_Subset DEF CountsOK
  <2> DEFINE r == Cardinality(Running(s))
             l == Cardinality(Lost)
             m == Cardinality(Lost)'
             a == Cardinality(About(s))
             b == Cardinality(About(s))'
  <2>4. r \in Nat /\ l \in Nat /\ m \in Nat /\ a \in Nat /\ b \in Nat
    BY <2>1 DEF CountsOK
  <2>5. /\ s \notin stored => ran[s] = 0
        /\ kv = s => ran[s] + r + l <= a + slips
        /\ s \in cancelled => ran[s] + r <= slips
        /\ ran[s] + r <= 1 + slips
    BY DEF CountInv
  <2>6. m <= l /\ a <= b
    BY <2>3
  <2> HIDE DEF r, l, m, a, b
  <2>7. /\ s \notin stored => ran[s] = 0
        /\ kv = s => ran[s] + r + m <= b + slips'
        /\ s \in cancelled => ran[s] + r <= slips'
        /\ ran[s] + r <= 1 + slips'
    BY <2>1, <2>4, <2>5, <2>6
  <2> QED BY <2>2, <2>7 DEF r, m, b
<1> QED BY <1>1, <1>2 DEF CountInv

\* Steps that only let a process in or out.
LEMMA CountMutex ==
  ASSUME TypeOK, CountInv, TypeOK', NEW p \in Procs, Acquire(p) \/ Release(p)
  PROVE  CountInv'
<1> USE DEF TypeOK, PcOK, JobPCs, CallerPCs, Procs
<1>1. /\ kv' = kv /\ ran' = ran /\ stored' = stored /\ cancelled' = cancelled
      /\ slips' = slips /\ sched' = sched
  BY DEF Acquire, Release
<1>2. \A j \in Jobs : /\ pc'[j] = "execute" <=> pc[j] = "execute"
                      /\ pc'[j] = "delete" <=> pc[j] = "delete"
  BY DEF Acquire, Release, Goto
<1>3. \A s \in Schedules : Running(s)' = Running(s) /\ About(s)' = About(s)
  BY <1>1, <1>2 DEF Running, About
<1>4. Cardinality(Lost)' <= Cardinality(Lost)
  <2>0. 0 \in Nat
    OBVIOUS
  <2>1. CountsOK(0) /\ CountsOK(0)'
    BY <2>0, Counts, CountsNext
  <2>2. CASE Acquire(p)
    <3>1. mutex = NoProcess /\ mutex' = p
      BY <2>2 DEF Acquire, Lock!Acquire
    <3>2. \A q \in Procs : q # p => pc'[q] = pc[q]
      BY <2>2 DEF Acquire, Goto
    <3>3. Lost' \subseteq Lost
      BY <3>1, <3>2 DEF Lost, In
    <3> QED BY <2>1, <3>3, FS_Subset DEF CountsOK
  <2>3. CASE Release(p)
    <3>1. mutex' = NoProcess /\ p \in In
      BY <2>3 DEF Release, Goto, In, Holding
    <3>2. \A q \in Procs : q # p => pc'[q] = pc[q]
      BY <2>3 DEF Release, Goto
    <3>3. pc'[p] \notin Holding
      BY <2>3 DEF Release, Goto, Holding
    <3>4. Lost' = In \ {p}
      BY <3>1, <3>2, <3>3 DEF Lost, In
    <3>5. Cardinality(In \ {p}) = Cardinality(In) - 1
      BY <2>1, <3>1, FS_RemoveElement DEF CountsOK
    <3>6. Cardinality(Lost)' = Cardinality(In) - 1
      BY <3>4, <3>5
    <3>7. Cardinality(In) \in Nat /\ Cardinality(Lost) \in Nat
          /\ Cardinality(In) <= Cardinality(Lost) + 1
      BY <2>1 DEF CountsOK
    <3> QED BY <3>6, <3>7
  <2> QED BY <2>2, <2>3
<1> QED BY <1>1, <1>3, <1>4, CountQuiet

\* Steps that leave those who are let in, and the jobs about to run, as they are.
LEMMA CountSame ==
  ASSUME TypeOK, CountInv, TypeOK',
         kv' = kv, ran' = ran, stored' = stored, cancelled' = cancelled,
         mutex' = mutex, slips <= slips',
         In' = In, \A s \in Schedules : Running(s)' = Running(s) /\ About(s) \subseteq About(s)'
  PROVE  CountInv'
<1>1. Lost' = Lost
  BY DEF Lost
<1>2. Cardinality(Lost)' = Cardinality(Lost)
  BY <1>1
<1>3. Cardinality(Lost)' <= Cardinality(Lost)
  BY <1>2, LostType
<1> QED BY <1>3, CountQuiet

\* Most steps are of that kind.
LEMMA CountOthers ==
  ASSUME TypeOK, CountInv, TypeOK',
         \/ \E j \in Jobs : Wake(j) \/ End(j) \/ ReadError(j)
         \/ \E p \in Procs : Close(p)
         \/ \E c \in Callers :
              \/ Join(c)
              \/ \E j \in Jobs : RunAndTrack(c, j) \/ Cancel(c, j)
              \/ \E n \in Nodes : ScheduleOnce(c, n) \/ CancelKey(c, n)
         \/ \E n \in Nodes : Poll(n) \/ PollStale(n) \/ TrackFromDB(n)
         \/ UNCHANGED vars
  PROVE  CountInv'
<1> USE DEF TypeOK, PcOK, JobPCs, CallerPCs, Procs, In, Running, About, Holding
<1>1. ASSUME NEW j \in Jobs, Wake(j) \/ End(j) PROVE CountInv'
  <2>1. In' = In
    BY <1>1 DEF Wake, End, Goto
  <2>2. \A s \in Schedules : Running(s)' = Running(s) /\ About(s)' = About(s)
    BY <1>1 DEF Wake, End, Goto
  <2> QED BY <1>1, <2>1, <2>2, CountSame DEF Wake, End
<1>2. ASSUME NEW j \in Jobs, ReadError(j) PROVE CountInv'
  <2>1. In' = In
    BY <1>2 DEF ReadError, Goto
  <2>2. \A s \in Schedules : Running(s)' = Running(s) /\ About(s) \subseteq About(s)'
    BY <1>2 DEF ReadError, Goto
  <2>3. slips <= slips'
    BY <1>2, FaultType DEF ReadError
  <2> QED BY <1>2, <2>1, <2>2, <2>3, CountSame DEF ReadError
<1>3. ASSUME NEW p \in Procs, Close(p) PROVE CountInv'
  <2>1. In' = In
    BY <1>3 DEF Close, Goto
  <2>2. \A s \in Schedules : Running(s)' = Running(s) /\ About(s)' = About(s)
    BY <1>3 DEF Close, Goto
  <2> QED BY <1>3, <2>1, <2>2, CountSame DEF Close
<1>4. ASSUME NEW c \in Callers, Join(c) PROVE CountInv'
  <2>1. In' = In
    BY <1>4 DEF Join, Goto
  <2>2. \A s \in Schedules : Running(s)' = Running(s) /\ About(s)' = About(s)
    BY <1>4 DEF Join, Goto
  <2> QED BY <1>4, <2>1, <2>2, CountSame DEF Join
<1>5. ASSUME NEW c \in Callers, NEW j \in Jobs, RunAndTrack(c, j) PROVE CountInv'
  <2>1. In' = In
    BY <1>5 DEF RunAndTrack, NewJobOnce
  <2>2. \A s \in Schedules : Running(s)' = Running(s) /\ About(s)' = About(s)
    BY <1>5 DEF RunAndTrack, NewJobOnce
  <2> QED BY <1>5, <2>1, <2>2, CountSame DEF RunAndTrack
<1>6. ASSUME NEW c \in Callers, NEW j \in Jobs, Cancel(c, j) PROVE CountInv'
  <2>1. In' = In
    BY <1>6 DEF Cancel, Goto
  <2>2. \A s \in Schedules : Running(s)' = Running(s) /\ About(s)' = About(s)
    BY <1>6 DEF Cancel, Goto
  <2> QED BY <1>6, <2>1, <2>2, CountSame DEF Cancel
<1>7. ASSUME NEW c \in Callers, NEW n \in Nodes, ScheduleOnce(c, n) PROVE CountInv'
  <2>1. In' = In
    BY <1>7 DEF ScheduleOnce, Goto
  <2>2. \A s \in Schedules : Running(s)' = Running(s) /\ About(s)' = About(s)
    BY <1>7 DEF ScheduleOnce, Goto
  <2> QED BY <1>7, <2>1, <2>2, CountSame DEF ScheduleOnce
<1>8. ASSUME NEW c \in Callers, NEW n \in Nodes, CancelKey(c, n) PROVE CountInv'
  <2>1. In' = In
    BY <1>8 DEF CancelKey, Goto
  <2>2. \A s \in Schedules : Running(s)' = Running(s) /\ About(s)' = About(s)
    BY <1>8 DEF CancelKey, Goto
  <2> QED BY <1>8, <2>1, <2>2, CountSame DEF CancelKey
<1>9. ASSUME NEW n \in Nodes, Poll(n) PROVE CountInv'
  BY <1>9, CountSame DEF Poll
<1>10. ASSUME NEW n \in Nodes, PollStale(n) PROVE CountInv'
  <2>1. slips <= slips'
    BY <1>10, FaultType DEF PollStale
  <2> QED BY <1>10, <2>1, CountSame DEF PollStale
<1>11. ASSUME NEW n \in Nodes, TrackFromDB(n) PROVE CountInv'
  <2>1. In' = In
    BY <1>11 DEF TrackFromDB, NewJobOnce
  <2>2. \A s \in Schedules : Running(s)' = Running(s) /\ About(s)' = About(s)
    BY <1>11 DEF TrackFromDB, NewJobOnce
  <2> QED BY <1>11, <2>1, <2>2, CountSame DEF TrackFromDB
<1>12. CASE UNCHANGED vars
  BY <1>12, CountSame DEF vars
<1> QED BY <1>1, <1>2, <1>3, <1>4, <1>5, <1>6, <1>7, <1>8, <1>9, <1>10, <1>11, <1>12

\* One element more, or less.
LEMMA OneMore ==
  ASSUME NEW S, NEW T, NEW x, IsFiniteSet(S), x \notin S, T = S \cup {x}
  PROVE  Cardinality(T) = Cardinality(S) + 1
  BY FS_AddElement

LEMMA OneMoreAtMost ==
  ASSUME NEW S, NEW x, IsFiniteSet(S)
  PROVE  /\ IsFiniteSet(S \cup {x})
         /\ Cardinality(S \cup {x}) <= Cardinality(S) + 1
         /\ Cardinality(S \cup {x}) \in Nat
<1>1. /\ IsFiniteSet(S \cup {x})
      /\ Cardinality(S \cup {x}) \in {Cardinality(S), Cardinality(S) + 1}
  BY FS_AddElement
<1>2. Cardinality(S) \in Nat
  BY FS_CardinalityType
<1> QED BY <1>1, <1>2

LEMMA OneLess ==
  ASSUME NEW S, NEW T, NEW x, IsFiniteSet(S), x \in S, T = S \ {x}
  PROVE  Cardinality(T) = Cardinality(S) - 1
  BY FS_RemoveElement

\* A job has read an entry that is its own: the one there is, or one that was.
LEMMA CountDue ==
  ASSUME RunAtInjective, IInv, CountInv, TypeOK', NEW j \in Jobs,
         Goto(j, "read", "execute"),
         kv' = kv, ran' = ran, stored' = stored, cancelled' = cancelled,
         mutex' = mutex, sched' = sched,
         \/ kv = sched[j] /\ slips' = slips
         \/ slips' = slips + 1
  PROVE  CountInv'
<1> USE DEF IInv, TypeOK, PcOK, JobPCs, CallerPCs, Procs
<1>1. pc[j] = "read" /\ pc'[j] = "execute" /\ \A q \in Procs : q # j => pc'[q] = pc[q]
  BY DEF Goto
<1>2. In' = In /\ Lost' = Lost
  BY <1>1 DEF In, Lost, Holding
<1>3. /\ sched[j] \in Schedules /\ sched[j] \in stored
      /\ kv = sched[j] => sched[j] \notin cancelled
  BY <1>1 DEF ObjectInv, EntryInv, Schedules, NoSchedule
<1>4. ASSUME NEW s \in Schedules
      PROVE  /\ s \notin stored' => ran'[s] = 0
             /\ kv' = s => ran'[s] + Cardinality(Running(s))' + Cardinality(Lost)'
                             <= Cardinality(About(s))' + slips'
             /\ s \in cancelled' => ran'[s] + Cardinality(Running(s))' <= slips'
             /\ ran'[s] + Cardinality(Running(s))' <= 1 + slips'
  <2>1. /\ slips \in Nat /\ slips' \in Nat /\ ran[s] \in Nat
        /\ CountsOK(s) /\ CountsOK(s)'
    BY CountTypes
  <2> DEFINE r == Cardinality(Running(s))
             t == Cardinality(Running(s))'
             l == Cardinality(Lost)
             i == Cardinality(In)
             a == Cardinality(About(s))
             b == Cardinality(About(s))'
  <2>2. /\ r \in Nat /\ t \in Nat /\ l \in Nat /\ a \in Nat /\ b \in Nat /\ i \in Nat
        /\ i <= l + 1
    BY <2>1 DEF CountsOK
  <2>3. b <= i
    <3>1. About(s)' \subseteq In /\ IsFiniteSet(In)
      BY <2>1, <1>2 DEF CountsOK
    <3> QED BY <3>1, FS_Subset
  <2>4. /\ s \notin stored => ran[s] = 0
        /\ kv = s => ran[s] + r + l <= a + slips
        /\ s \in cancelled => ran[s] + r <= slips
        /\ ran[s] + r <= 1 + slips
    BY DEF CountInv
  <2>5. Cardinality(Lost)' = l
    BY <1>2
  <2>6. CASE s # sched[j]
    <3>1. Running(s)' = Running(s) /\ About(s)' = About(s)
      BY <1>1, <2>6 DEF Running, About
    <3>2. t = r /\ b = a
      BY <3>1
    <3> HIDE DEF r, t, l, i, a, b
    <3>3. /\ s \notin stored => ran[s] = 0
          /\ kv = s => ran[s] + t + l <= b + slips'
          /\ s \in cancelled => ran[s] + t <= slips'
          /\ ran[s] + t <= 1 + slips'
      BY <2>1, <2>2, <2>4, <3>2
    <3> QED BY <2>5, <3>3 DEF t, b
  <2>7. CASE s = sched[j]
    <3>1. /\ Running(s)' = Running(s) \cup {j} /\ j \notin Running(s)
          /\ About(s)' = About(s) \cup {j} /\ j \notin About(s)
      BY <1>1, <2>7 DEF Running, About
    <3>2. t = r + 1
      <4>1. IsFiniteSet(Running(s))
        BY <2>1 DEF CountsOK
      <4> QED BY <3>1, <4>1, OneMore
    <3>3. b = a + 1
      <4>1. IsFiniteSet(About(s))
        BY <2>1 DEF CountsOK
      <4> QED BY <3>1, <4>1, OneMore
    <3> HIDE DEF r, t, l, i, a, b
    <3>4. /\ s \notin stored => ran[s] = 0
          /\ kv = s => ran[s] + t + l <= b + slips'
          /\ s \in cancelled => ran[s] + t <= slips'
          /\ ran[s] + t <= 1 + slips'
      <4>1. CASE slips' = slips + 1
        BY <2>1, <2>2, <2>3, <2>4, <3>2, <3>3, <4>1
      <4>2. CASE kv = sched[j] /\ slips' = slips
        BY <1>3, <2>1, <2>2, <2>3, <2>4, <2>7, <3>2, <3>3, <4>2
      <4> QED BY <4>1, <4>2
    <3> QED BY <2>5, <3>4 DEF t, b
  <2> QED BY <2>6, <2>7
<1>5. Cardinality(Lost)' <= slips'
  <2>1. Cardinality(Lost)' = Cardinality(Lost)
    BY <1>2
  <2> QED BY <2>1, LostType DEF CountInv
<1> QED BY <1>4, <1>5 DEF CountInv

\* A job reads the entry.
LEMMA CountRead ==
  ASSUME RunAtInjective, IInv, CountInv, TypeOK', NEW j \in Jobs,
         ReadMetadata(j) \/ ReadStale(j)
  PROVE  CountInv'
<1> USE DEF IInv
<1>1. /\ kv' = kv /\ ran' = ran /\ stored' = stored /\ cancelled' = cancelled
      /\ mutex' = mutex /\ sched' = sched /\ slips <= slips'
  BY FaultType DEF ReadMetadata, ReadStale, TypeOK
<1>2. CASE Goto(j, "read", "delete")
  <2> USE DEF TypeOK, PcOK, JobPCs, CallerPCs, Procs
  <2>1. In' = In
    BY <1>2 DEF In, Holding, Goto
  <2>2. \A s \in Schedules : Running(s)' = Running(s) /\ About(s) \subseteq About(s)'
    BY <1>1, <1>2 DEF Running, About, Goto
  <2> QED BY <1>1, <2>1, <2>2, CountSame
<1>3. CASE ReadMetadata(j) /\ Goto(j, "read", "execute")
  <2>1. Due(j, kv)
    BY <1>3 DEF ReadMetadata, Goto, TypeOK, PcOK, Procs
  <2>2. sched[j] \in Schedules /\ kv \in Schedules
    BY <1>3, <2>1 DEF Due, Goto, ObjectInv, TypeOK
  <2>3. kv = sched[j]
    BY <2>1, <2>2 DEF Due, RunAtInjective
  <2>4. slips' = slips
    BY <1>3 DEF ReadMetadata
  <2> QED BY <1>1, <1>3, <2>3, <2>4, CountDue
<1>4. CASE ReadStale(j) /\ Goto(j, "read", "execute")
  <2>1. slips' = slips + 1
    BY <1>4, FaultType DEF ReadStale
  <2> QED BY <1>1, <1>4, <2>1, CountDue
<1>5. Goto(j, "read", "delete") \/ Goto(j, "read", "execute")
  BY DEF ReadMetadata, ReadStale
<1> QED BY <1>2, <1>3, <1>4, <1>5

\* The callback is called: one run more, and one job less about to run it.
LEMMA CountExecute ==
  ASSUME IInv, CountInv, TypeOK', NEW j \in Jobs, Execute(j)
  PROVE  CountInv'
<1> USE DEF IInv, TypeOK, PcOK, JobPCs, CallerPCs, Procs
<1>1. /\ kv' = kv /\ stored' = stored /\ cancelled' = cancelled
      /\ mutex' = mutex /\ sched' = sched /\ slips' = slips
      /\ ran' = [ran EXCEPT ![sched[j]] = @ + 1]
  BY DEF Execute
<1>2. pc[j] = "execute" /\ pc'[j] = "delete" /\ \A q \in Procs : q # j => pc'[q] = pc[q]
  BY DEF Execute, Goto
<1>3. In' = In /\ Lost' = Lost
  BY <1>1, <1>2 DEF In, Lost, Holding
<1>4. sched[j] \in Schedules /\ sched[j] \in stored
  BY <1>2 DEF ObjectInv
<1>5. ASSUME NEW s \in Schedules
      PROVE  /\ s \notin stored' => ran'[s] = 0
             /\ kv' = s => ran'[s] + Cardinality(Running(s))' + Cardinality(Lost)'
                             <= Cardinality(About(s))' + slips'
             /\ s \in cancelled' => ran'[s] + Cardinality(Running(s))' <= slips'
             /\ ran'[s] + Cardinality(Running(s))' <= 1 + slips'
  <2>1. /\ slips \in Nat /\ ran[s] \in Nat /\ CountsOK(s) /\ CountsOK(s)'
    BY CountTypes
  <2>2. About(s)' = About(s)
    BY <1>1, <1>2 DEF About
  <2>3. /\ Cardinality(About(s))' = Cardinality(About(s))
        /\ Cardinality(Lost)' = Cardinality(Lost)
    BY <1>3, <2>2
  <2>4. ran'[s] + Cardinality(Running(s))' = ran[s] + Cardinality(Running(s))
    <3>1. CASE s = sched[j]
      <4>1. Running(s)' = Running(s) \ {j} /\ j \in Running(s) /\ IsFiniteSet(Running(s))
        BY <1>1, <1>2, <2>1, <3>1 DEF Running, CountsOK
      <4>2. Cardinality(Running(s))' = Cardinality(Running(s)) - 1
        BY <4>1, OneLess
      <4>3. ran'[s] = ran[s] + 1
        BY <1>1, <1>4, <3>1
      <4>4. Cardinality(Running(s)) \in Nat
        BY <2>1 DEF CountsOK
      <4> QED BY <2>1, <4>2, <4>3, <4>4
    <3>2. CASE s # sched[j]
      <4>1. Running(s)' = Running(s)
        BY <1>1, <1>2, <3>2 DEF Running
      <4>2. ran'[s] = ran[s]
        BY <1>1, <3>2
      <4> QED BY <4>1, <4>2
    <3> QED BY <3>1, <3>2
  <2>5. s \notin stored' => ran'[s] = 0
    BY <1>1, <1>4 DEF CountInv
  <2> QED BY <1>1, <2>3, <2>4, <2>5 DEF CountInv
<1>6. Cardinality(Lost)' <= slips'
  BY <1>1, <1>3 DEF CountInv
<1> QED BY <1>5, <1>6 DEF CountInv

\* The entry is deleted: those who might have run it are let in no more, but those
\* who were when it was, and of these a canceller is one.
LEMMA CountDelete ==
  ASSUME IInv, CountInv, TypeOK', NEW p \in Procs,
         Delete(p) \/ (p \in Callers /\ DeleteFromDB(p))
  PROVE  CountInv'
<1> USE DEF IInv, TypeOK, PcOK, JobPCs, CallerPCs, Procs
<1>1. /\ kv' = NoSchedule /\ stored' = stored /\ cancelled' = Cancelled(p, kv)
      /\ mutex' = mutex /\ sched' = sched /\ slips' = slips /\ ran' = ran
  BY DEF Delete, DeleteFromDB
<1>2. /\ pc[p] \in {"delete", "dbDelete"} /\ pc'[p] \in {"close", "dbUnlock"}
      /\ \A q \in Procs : q # p => pc'[q] = pc[q]
  BY DEF Delete, DeleteFromDB, Goto
<1>3. In' = In /\ Lost' = Lost
  BY <1>1, <1>2 DEF In, Lost, Holding
<1>4. Cardinality(Lost)' = Cardinality(Lost)
  BY <1>3
<1>5. ASSUME NEW s \in Schedules
      PROVE  /\ s \notin stored' => ran'[s] = 0
             /\ kv' # s
             /\ s \in cancelled' => ran'[s] + Cardinality(Running(s))' <= slips'
             /\ ran'[s] + Cardinality(Running(s))' <= 1 + slips'
  <2>1. /\ slips \in Nat /\ ran[s] \in Nat /\ CountsOK(s) /\ CountsOK(s)'
    BY CountTypes
  <2>2. Running(s)' = Running(s)
    BY <1>1, <1>2 DEF Running
  <2>3. Cardinality(Running(s))' = Cardinality(Running(s))
    BY <2>2
  <2>4. kv' # s
    BY <1>1 DEF Schedules, NoSchedule
  <2>5. CASE s \in cancelled' /\ s \notin cancelled
    <3>1. p \in Callers /\ kv = s
      BY <1>1, <2>5 DEF Cancelled
    <3>2. p \in In /\ About(s) \subseteq In \ {p}
      BY <1>2, <2>1, <3>1 DEF In, Holding, About, CountsOK
    <3> DEFINE r == Cardinality(Running(s))
               l == Cardinality(Lost)
               i == Cardinality(In)
               a == Cardinality(About(s))
    <3>3. Cardinality(In \ {p}) = i - 1 /\ IsFiniteSet(In \ {p})
      BY <2>1, <3>2, FS_RemoveElement DEF CountsOK
    <3>4. a <= Cardinality(In \ {p})
      BY <3>2, <3>3, FS_Subset
    <3>5. r \in Nat /\ l \in Nat /\ i \in Nat /\ a \in Nat /\ i <= l + 1
      BY <2>1 DEF CountsOK
    <3>6. ran[s] + r + l <= a + slips
      BY <3>1 DEF CountInv
    <3>7. a <= i - 1
      BY <3>3, <3>4
    <3> HIDE DEF r, l, i, a
    <3>8. ran[s] + r <= slips
      BY <2>1, <3>5, <3>6, <3>7
    <3>9. ran'[s] + Cardinality(Running(s))' <= slips'
      BY <1>1, <2>3, <3>8 DEF r
    <3> QED BY <1>1, <2>3, <2>4, <3>9 DEF CountInv
  <2>6. CASE s \in cancelled' => s \in cancelled
    BY <1>1, <2>3, <2>4, <2>6 DEF CountInv
  <2> QED BY <2>5, <2>6
<1> QED BY <1>1, <1>4, <1>5 DEF CountInv

\* An entry is stored that was never there before.
LEMMA CountSave ==
  ASSUME IInv, CountInv, TypeOK', NEW c \in Callers, SaveMetadata(c)
  PROVE  CountInv'
<1> USE DEF IInv, TypeOK, PcOK, JobPCs, CallerPCs, Procs
<1>1. /\ cancelled' = cancelled /\ mutex' = mutex /\ sched' = sched
      /\ slips' = slips /\ ran' = ran /\ stored \subseteq stored'
      /\ kv' = kv \/ kv' = sched[c]
  BY DEF SaveMetadata
<1>2. /\ pc[c] = "save" /\ pc'[c] \in {"saved", "return"}
      /\ \A q \in Procs : q # c => pc'[q] = pc[q]
  BY DEF SaveMetadata, Goto
<1>3. In' = In /\ Lost' = Lost
  BY <1>1, <1>2 DEF In, Lost, Holding
<1>4. \A s \in Schedules : Running(s)' = Running(s) /\ About(s)' = About(s)
  BY <1>1, <1>2 DEF Running, About
<1>5. sched[c] \notin stored /\ sched[c] \in Schedules
  BY <1>2 DEF FreshInv, Saving, ObjectInv
<1>6. Cardinality(Lost)' = Cardinality(Lost)
  BY <1>3
<1>7. ASSUME NEW s \in Schedules, s = sched[c]
      PROVE  ran[s] + Cardinality(Running(s)) + Cardinality(Lost)
               <= Cardinality(About(s)) + slips
  <2>1. /\ slips \in Nat /\ CountsOK(s)
    BY CountTypes
  <2>2. ran[s] = 0
    BY <1>5, <1>7 DEF CountInv
  <2>3. Running(s) = {}
    BY <1>5, <1>7 DEF Running, ObjectInv
  <2>4. Cardinality(Running(s)) = 0
    BY <2>3, FS_EmptySet
  <2>5. Cardinality(Lost) <= slips /\ Cardinality(Lost) \in Nat
        /\ Cardinality(About(s)) \in Nat
    BY <2>1 DEF CountInv, CountsOK
  <2> QED BY <2>1, <2>2, <2>4, <2>5
<1>8. ASSUME NEW s \in Schedules
      PROVE  /\ s \notin stored' => ran'[s] = 0
             /\ kv' = s => ran'[s] + Cardinality(Running(s))' + Cardinality(Lost)'
                             <= Cardinality(About(s))' + slips'
             /\ s \in cancelled' => ran'[s] + Cardinality(Running(s))' <= slips'
             /\ ran'[s] + Cardinality(Running(s))' <= 1 + slips'
  <2>1. /\ Cardinality(Running(s))' = Cardinality(Running(s))
        /\ Cardinality(About(s))' = Cardinality(About(s))
    BY <1>4
  <2> QED BY <1>1, <1>6, <1>7, <2>1 DEF CountInv
<1> QED BY <1>1, <1>6, <1>8 DEF CountInv

\* A slip: one process more that does not know it lost the mutex, or one less that
\* is about to delete an entry.
LEMMA CountSlip ==
  ASSUME TypeOK, CountInv, TypeOK',
         kv' = kv, ran' = ran, stored' = stored, cancelled' = cancelled,
         slips' = slips + 1,
         Cardinality(Lost)' <= Cardinality(Lost) + 1,
         \A s \in Schedules :
           /\ Running(s)' \subseteq Running(s)
           /\ Cardinality(Lost)' + Cardinality(About(s))
                <= Cardinality(Lost) + Cardinality(About(s))' + 1
  PROVE  CountInv'
<1>1. slips \in Nat
  BY DEF TypeOK
<1>2. Cardinality(Lost)' <= slips'
  BY <1>1, LostType DEF CountInv
<1>3. ASSUME NEW s \in Schedules
      PROVE  /\ s \notin stored => ran'[s] = 0
             /\ kv = s => ran'[s] + Cardinality(Running(s))' + Cardinality(Lost)'
                            <= Cardinality(About(s))' + slips'
             /\ s \in cancelled => ran'[s] + Cardinality(Running(s))' <= slips'
             /\ ran'[s] + Cardinality(Running(s))' <= 1 + slips'
  <2>1. ran[s] \in Nat /\ CountsOK(s) /\ CountsOK(s)'
    BY CountTypes
  <2>2. Cardinality(Running(s))' <= Cardinality(Running(s))
    BY <2>1, FS_Subset DEF CountsOK
  <2> DEFINE r == Cardinality(Running(s))
             t == Cardinality(Running(s))'
             l == Cardinality(Lost)
             m == Cardinality(Lost)'
             a == Cardinality(About(s))
             b == Cardinality(About(s))'
  <2>3. /\ r \in Nat /\ t \in Nat /\ l \in Nat /\ m \in Nat /\ a \in Nat /\ b \in Nat
    BY <2>1 DEF CountsOK
  <2>4. /\ s \notin stored => ran[s] = 0
        /\ kv = s => ran[s] + r + l <= a + slips
        /\ s \in cancelled => ran[s] + r <= slips
        /\ ran[s] + r <= 1 + slips
    BY DEF CountInv
  <2>5. t <= r /\ m + a <= l + b + 1
    BY <2>2
  <2> HIDE DEF r, t, l, m, a, b
  <2>6. /\ s \notin stored => ran[s] = 0
        /\ kv = s => ran[s] + t + m <= b + slips'
        /\ s \in cancelled => ran[s] + t <= slips'
        /\ ran[s] + t <= 1 + slips'
    BY <1>1, <2>1, <2>3, <2>4, <2>5
  <2> QED BY <2>6 DEF t, m, b
<1> QED BY <1>2, <1>3 DEF CountInv

\* A deletion fails.
LEMMA CountDeleteError ==
  ASSUME TypeOK, CountInv, TypeOK', NEW p \in Procs,
         DeleteError(p) \/ (p \in Callers /\ DeleteFromDBError(p))
  PROVE  CountInv'
<1> USE DEF TypeOK, PcOK, JobPCs, CallerPCs, Procs
<1>1. /\ kv' = kv /\ stored' = stored /\ cancelled' = cancelled
      /\ mutex' = mutex /\ sched' = sched /\ ran' = ran
  BY DEF DeleteError, DeleteFromDBError
<1>2. slips' = slips + 1
  BY FaultType DEF DeleteError, DeleteFromDBError
<1>3. /\ pc[p] \in {"delete", "dbDelete"} /\ pc'[p] \in {"close", "dbUnlock"}
      /\ \A q \in Procs : q # p => pc'[q] = pc[q]
  BY DEF DeleteError, DeleteFromDBError, Goto
<1>4. In' = In /\ Lost' = Lost
  BY <1>1, <1>3 DEF In, Lost, Holding
<1>5. Cardinality(Lost)' = Cardinality(Lost)
  BY <1>4
<1>6. ASSUME NEW s \in Schedules
      PROVE  /\ Running(s)' \subseteq Running(s)
             /\ Cardinality(About(s)) <= Cardinality(About(s))' + 1
             /\ Cardinality(About(s)) \in Nat /\ Cardinality(About(s))' \in Nat
  <2>1. CountsOK(s) /\ CountsOK(s)'
    BY CountTypes
  <2>2. Running(s)' \subseteq Running(s)
    BY <1>1, <1>3 DEF Running
  <2>3. About(s)' = About(s) \ {p}
    BY <1>1, <1>3 DEF About
  <2>4. Cardinality(About(s))' \in {Cardinality(About(s)), Cardinality(About(s)) - 1}
    <3>1. CASE p \in About(s)
      BY <2>1, <2>3, <3>1, OneLess DEF CountsOK
    <3>2. CASE p \notin About(s)
      <4>1. About(s)' = About(s)
        BY <2>3, <3>2
      <4> QED BY <4>1
    <3> QED BY <3>1, <3>2
  <2>5. Cardinality(About(s)) \in Nat /\ Cardinality(About(s))' \in Nat
    BY <2>1 DEF CountsOK
  <2> QED BY <2>2, <2>4, <2>5
<1>7. Cardinality(Lost)' <= Cardinality(Lost) + 1
  BY <1>5, LostType
<1>8. \A s \in Schedules :
        Cardinality(Lost)' + Cardinality(About(s))
          <= Cardinality(Lost) + Cardinality(About(s))' + 1
  BY <1>5, <1>6, LostType
<1> QED BY <1>1, <1>2, <1>6, <1>7, <1>8, CountSlip

\* The mutex is lost.
LEMMA CountLose ==
  ASSUME TypeOK, CountInv, TypeOK', LoseMutex
  PROVE  CountInv'
<1>1. /\ kv' = kv /\ stored' = stored /\ cancelled' = cancelled
      /\ pc' = pc /\ sched' = sched /\ ran' = ran
  BY DEF LoseMutex
<1>2. slips' = slips + 1
  BY FaultType DEF LoseMutex
<1>3. Lost' \subseteq Lost \cup {mutex}
  BY <1>1 DEF Lost, In
<1>4. Cardinality(Lost)' <= Cardinality(Lost) + 1
  <2>1. 0 \in Nat
    OBVIOUS
  <2>2. IsFiniteSet(Lost)
    BY <2>1, Counts DEF CountsOK
  <2>3. /\ IsFiniteSet(Lost \cup {mutex})
        /\ Cardinality(Lost \cup {mutex}) <= Cardinality(Lost) + 1
    BY <2>2, OneMoreAtMost
  <2>4. Cardinality(Lost)' <= Cardinality(Lost \cup {mutex})
    BY <1>3, <2>3, FS_Subset
  <2>5. Cardinality(Lost \cup {mutex}) \in Nat
    BY <2>3, FS_CardinalityType
  <2> QED BY <2>3, <2>4, <2>5, LostType
<1>5. ASSUME NEW s \in Schedules
      PROVE  /\ Running(s)' \subseteq Running(s)
             /\ Cardinality(About(s))' = Cardinality(About(s))
             /\ Cardinality(About(s)) \in Nat
  <2>1. Running(s)' = Running(s) /\ About(s)' = About(s)
    BY <1>1 DEF Running, About
  <2>2. CountsOK(s)
    BY CountTypes
  <2> QED BY <2>1, <2>2 DEF CountsOK
<1>6. \A s \in Schedules :
        Cardinality(Lost)' + Cardinality(About(s))
          <= Cardinality(Lost) + Cardinality(About(s))' + 1
  BY <1>4, <1>5, LostType
<1> QED BY <1>1, <1>2, <1>4, <1>5, <1>6, CountSlip

\* An instance dies, with whatever is on it.
LEMMA CountCrash ==
  ASSUME TypeOK, CountInv, TypeOK', NEW n \in Nodes, Crash(n)
  PROVE  CountInv'
<1> DEFINE dead == {p \in Procs : at[p] = n}
<1>1. /\ kv' = kv /\ stored' = stored /\ cancelled' = cancelled /\ ran' = ran
      /\ pc' = [p \in Procs |-> IF p \notin dead THEN pc[p]
                                ELSE IF p \in Jobs THEN "unused" ELSE "idle"]
      /\ sched' = [p \in Procs |-> IF p \in dead THEN NoSchedule ELSE sched[p]]
      /\ mutex' = IF mutex \in dead THEN NoProcess ELSE mutex
  BY DEF Crash
<1>2. slips' = slips + 1
  BY FaultType DEF Crash
<1> HIDE DEF dead
<1>3. Lost' = Lost \ dead
  <2>1. \A p \in Procs : pc'[p] \in Holding <=> pc[p] \in Holding /\ p \notin dead
    BY <1>1 DEF Holding
  <2>2. In' = In \ dead
    BY <2>1 DEF In
  <2>3. NoProcess \notin In
    BY DEF In
  <2> QED BY <1>1, <2>2, <2>3 DEF Lost
<1>4. \A s \in Schedules : Running(s)' \subseteq Running(s) /\ About(s)' = About(s) \ dead
  <2>1. \A j \in Jobs : /\ j \in dead => pc'[j] = "unused"
                        /\ j \notin dead => pc'[j] = pc[j] /\ sched'[j] = sched[j]
    BY <1>1 DEF Procs
  <2> QED BY <2>1 DEF Running, About
<1>5. ASSUME NEW s \in Nat
      PROVE  IsFiniteSet(Lost) /\ IsFiniteSet(About(s)) /\ About(s) \subseteq Lost \cup {mutex}
  BY Counts DEF CountsOK, Lost
<1>6. 0 \in Nat
  OBVIOUS
<1>7. /\ Cardinality(Lost)' = Cardinality(Lost) - Cardinality(Lost \cap dead)
      /\ IsFiniteSet(Lost \cap dead) /\ Cardinality(Lost \cap dead) \in Nat
  BY <1>3, <1>5, <1>6, FS_Difference, FS_Intersection, FS_CardinalityType
<1>8. ASSUME NEW s \in Schedules
      PROVE  Cardinality(Lost)' + Cardinality(About(s))
               <= Cardinality(Lost) + Cardinality(About(s))' + 1
  <2>0. s \in Nat
    BY DEF Schedules
  <2>1. /\ Cardinality(About(s) \ dead) = Cardinality(About(s)) - Cardinality(About(s) \cap dead)
        /\ IsFiniteSet(About(s) \cap dead) /\ Cardinality(About(s) \cap dead) \in Nat
    BY <1>5, <2>0, FS_Difference, FS_Intersection, FS_CardinalityType
  <2>2. About(s) \cap dead \subseteq (Lost \cap dead) \cup {mutex}
    BY <1>5, <2>0
  <2>3. /\ IsFiniteSet((Lost \cap dead) \cup {mutex})
        /\ Cardinality((Lost \cap dead) \cup {mutex}) <= Cardinality(Lost \cap dead) + 1
        /\ Cardinality((Lost \cap dead) \cup {mutex}) \in Nat
    BY <1>7, OneMoreAtMost
  <2>4. Cardinality(About(s) \cap dead) <= Cardinality((Lost \cap dead) \cup {mutex})
    BY <2>2, <2>3, FS_Subset
  <2>5. Cardinality(About(s))' = Cardinality(About(s) \ dead)
    BY <1>4
  <2>6. Cardinality(About(s)) \in Nat
    BY <1>5, <2>0, FS_CardinalityType
  <2> DEFINE l == Cardinality(Lost)
             m == Cardinality(Lost)'
             d == Cardinality(Lost \cap dead)
             a == Cardinality(About(s))
             b == Cardinality(About(s))'
             e == Cardinality(About(s) \cap dead)
             x == Cardinality((Lost \cap dead) \cup {mutex})
  <2>7. /\ l \in Nat /\ m \in Nat /\ d \in Nat /\ a \in Nat /\ e \in Nat /\ x \in Nat
        /\ m = l - d /\ b = a - e /\ e <= x /\ x <= d + 1
    BY <1>7, <2>1, <2>3, <2>4, <2>5, <2>6, LostType
  <2> HIDE DEF l, m, d, a, b, e, x
  <2>8. m + a <= l + b + 1
    BY <2>7
  <2> QED BY <2>8 DEF l, m, a, b
<1>9. Cardinality(Lost)' <= Cardinality(Lost) + 1
  BY <1>7, LostType
<1> QED BY <1>1, <1>2, <1>4, <1>8, <1>9, CountSlip

LEMMA NextCountInv ==
  ASSUME RunAtInjective, IInv, CountInv, TypeOK', [Next]_vars
  PROVE  CountInv'
<1>0. TypeOK
  BY DEF IInv
<1>1. ASSUME NEW p \in Procs, Acquire(p) \/ Release(p) PROVE CountInv'
  BY <1>0, <1>1, CountMutex
<1>2. ASSUME NEW j \in Jobs, ReadMetadata(j) \/ ReadStale(j) PROVE CountInv'
  BY <1>2, CountRead
<1>3. ASSUME NEW j \in Jobs, Execute(j) PROVE CountInv'
  BY <1>3, CountExecute
<1>4. ASSUME NEW p \in Procs, Delete(p) \/ (p \in Callers /\ DeleteFromDB(p)) PROVE CountInv'
  BY <1>4, CountDelete
<1>5. ASSUME NEW c \in Callers, SaveMetadata(c) PROVE CountInv'
  BY <1>5, CountSave
<1>6. ASSUME NEW p \in Procs, DeleteError(p) \/ (p \in Callers /\ DeleteFromDBError(p))
      PROVE  CountInv'
  BY <1>0, <1>6, CountDeleteError
<1>7. ASSUME LoseMutex PROVE CountInv'
  BY <1>0, <1>7, CountLose
<1>8. ASSUME NEW n \in Nodes, Crash(n) PROVE CountInv'
  BY <1>0, <1>8, CountCrash
<1>9. ASSUME \/ \E j \in Jobs : Wake(j) \/ End(j) \/ ReadError(j)
             \/ \E p \in Procs : Close(p)
             \/ \E c \in Callers :
                  \/ Join(c)
                  \/ \E j \in Jobs : RunAndTrack(c, j) \/ Cancel(c, j)
                  \/ \E n \in Nodes : ScheduleOnce(c, n) \/ CancelKey(c, n)
             \/ \E n \in Nodes : Poll(n) \/ PollStale(n) \/ TrackFromDB(n)
             \/ UNCHANGED vars
      PROVE  CountInv'
  BY <1>0, <1>9, CountOthers
<1>10. ASSUME NEW p \in Procs, Step(p) PROVE CountInv'
  <2>1. CASE p \in Jobs /\ (Wake(p) \/ End(p))
    BY <1>9, <2>1
  <2>2. CASE p \in Callers /\ Join(p)
    BY <1>9, <2>2
  <2>3. CASE Close(p)
    BY <1>9, <2>3
  <2>4. CASE p \in Callers /\ \E j \in Jobs : RunAndTrack(p, j)
    BY <1>9, <2>4
  <2>5. CASE Acquire(p) \/ Release(p)
    BY <1>1, <2>5
  <2>6. CASE p \in Jobs /\ ReadMetadata(p)
    BY <1>2, <2>6
  <2>7. CASE p \in Jobs /\ Execute(p)
    BY <1>3, <2>7
  <2>8. CASE Delete(p) \/ (p \in Callers /\ DeleteFromDB(p))
    BY <1>4, <2>8
  <2>9. CASE p \in Callers /\ SaveMetadata(p)
    BY <1>5, <2>9
  <2> QED
    <3>1. \/ Acquire(p) \/ Release(p) \/ Delete(p) \/ Close(p)
          \/ p \in Jobs /\ (Wake(p) \/ End(p) \/ ReadMetadata(p) \/ Execute(p))
          \/ p \in Callers /\ \/ Join(p) \/ SaveMetadata(p) \/ DeleteFromDB(p)
                              \/ \E j \in Jobs : RunAndTrack(p, j)
      BY <1>10 DEF Step
    <3> QED BY <2>1, <2>2, <2>3, <2>4, <2>5, <2>6, <2>7, <2>8, <2>9, <3>1
<1>11. ASSUME NEW c \in Callers, Call(c) PROVE CountInv'
  BY <1>9, <1>11 DEF Call
<1>12. ASSUME NEW n \in Nodes, Poller(n) PROVE CountInv'
  BY <1>9, <1>12 DEF Poller
<1>13. ASSUME Failure PROVE CountInv'
  <2>1. CASE \E j \in Jobs : ReadError(j)
    BY <1>9, <2>1
  <2>2. CASE \E n \in Nodes : PollStale(n)
    BY <1>9, <2>2
  <2>3. CASE \E c \in Callers : DeleteFromDBError(c)
    BY <1>6, <2>3 DEF Procs
  <2>4. CASE \E j \in Jobs : ReadStale(j)
    BY <1>2, <2>4
  <2>5. ASSUME NEW p \in Procs, DeleteError(p) PROVE CountInv'
    BY <1>6, <2>5
  <2>6. CASE \E n \in Nodes : Crash(n)
    BY <1>8, <2>6
  <2> QED BY <1>7, <1>13, <2>1, <2>2, <2>3, <2>4, <2>5, <2>6 DEF Failure
<1> QED
  BY <1>9, <1>10, <1>11, <1>12, <1>13 DEF Next

----------------------------------------------------------------------------
(* Theorems. *)

LEMMA InitIInv == Init => IInv
<1> SUFFICES ASSUME Init PROVE IInv
  OBVIOUS
<1> USE DEF Init, NoSchedule
<1>1. TypeOK
  BY DEF TypeOK, PcOK, JobPCs, CallerPCs, Procs
<1>2. ObjectInv /\ FreshInv
  BY DEF ObjectInv, FreshInv, Saving, Procs
<1>3. EntryInv
  BY DEF EntryInv
<1> QED BY <1>1, <1>2, <1>3 DEF IInv

LEMMA InitCountInv == Init => CountInv
<1> SUFFICES ASSUME Init PROVE CountInv
  OBVIOUS
<1>1. In = {}
  BY DEF Init, In, Holding, Procs
<1>2. Lost = {} /\ \A s \in Schedules : Running(s) = {}
  BY <1>1 DEF Lost, Running, Init, Procs
<1>3. Cardinality(Lost) = 0 /\ \A s \in Schedules : Cardinality(Running(s)) = 0
  BY <1>2, FS_EmptySet
<1>4. \A s \in Schedules : s # kv
  BY DEF Init, Schedules, NoSchedule
<1> QED BY <1>3, <1>4 DEF Init, CountInv

LEMMA NextIInv ==
  ASSUME IInv, [Next]_vars
  PROVE  IInv'
<1>1. PcOK' /\ TypeOK'
  BY NextPcOK, NextTypeOK DEF IInv, TypeOK
<1>2. ObjectInv' /\ FreshInv'
  BY NextObjectInv, NextFreshInv DEF IInv
<1>3. EntryInv'
  BY NextEntryInv
<1> QED BY <1>1, <1>2, <1>3 DEF IInv

\* Type correctness; the references between processes are what keeps it.
THEOREM TypeTheorem == Spec => []TypeOK
<1>1. Init => IInv
  BY InitIInv
<1>2. IInv /\ [Next]_vars => IInv'
  BY NextIInv
<1>3. IInv => TypeOK
  BY DEF IInv
<1> QED BY <1>1, <1>2, <1>3, PTL DEF Spec

LEMMA CountTheorem == RunAtInjective => (Spec => [](IInv /\ CountInv))
<1> SUFFICES ASSUME RunAtInjective PROVE Spec => [](IInv /\ CountInv)
  OBVIOUS
<1>1. Init => IInv /\ CountInv
  BY InitIInv, InitCountInv
<1>2. IInv /\ CountInv /\ [Next]_vars => (IInv /\ CountInv)'
  <2>1. ASSUME IInv, CountInv, [Next]_vars PROVE IInv' /\ CountInv'
    <3>1. IInv'
      BY <2>1, NextIInv
    <3> QED BY <2>1, <3>1, NextCountInv DEF IInv
  <2> QED BY <2>1
<1> QED BY <1>1, <1>2, PTL DEF Spec

\* A schedule is run once at most (JobOnce.run), and once more at most for each
\* crash, failed deletion, read of a replica that lags behind and loss of the mutex,
\* in whatever order they come, as long as what is rescheduled has another time.
THEOREM AtMostOnceTheorem == RunAtInjective => (Spec => []AtMostOnce)
<1> SUFFICES ASSUME RunAtInjective PROVE Spec => []AtMostOnce
  OBVIOUS
<1>1. IInv /\ CountInv => AtMostOnce
  <2> SUFFICES ASSUME IInv, CountInv, NEW s \in Schedules PROVE ran[s] <= 1 + slips
    BY DEF AtMostOnce
  <2>1. s \in Nat /\ slips \in Nat /\ ran[s] \in Nat
    BY DEF IInv, TypeOK, Schedules
  <2>2. Cardinality(Running(s)) \in Nat
    BY <2>1, Counts DEF CountsOK
  <2>3. ran[s] + Cardinality(Running(s)) <= 1 + slips
    BY DEF CountInv
  <2> QED BY <2>1, <2>2, <2>3
<1> QED BY <1>1, CountTheorem, PTL

\* An entry that a Cancel has deleted (JobOnce.Cancel, JobOnceScheduler.Cancel) is
\* run once at most for each of those slips, before or after: without one it never is.
THEOREM CancelTheorem == RunAtInjective => (Spec => []CancelHolds)
<1> SUFFICES ASSUME RunAtInjective PROVE Spec => []CancelHolds
  OBVIOUS
<1>1. IInv /\ CountInv => CancelHolds
  <2> SUFFICES ASSUME IInv, CountInv, NEW s \in cancelled PROVE ran[s] <= slips
    BY DEF CancelHolds
  <2>1. s \in Schedules /\ s \in Nat /\ slips \in Nat /\ ran[s] \in Nat
    BY DEF IInv, TypeOK, Schedules
  <2>2. Cardinality(Running(s)) \in Nat
    BY <2>1, Counts DEF CountsOK
  <2>3. ran[s] + Cardinality(Running(s)) <= slips
    BY <2>1 DEF CountInv
  <2> QED BY <2>1, <2>2, <2>3
<1> QED BY <1>1, CountTheorem, PTL
=============================================================================
