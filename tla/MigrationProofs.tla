------------------------- MODULE MigrationProofs -------------------------
(***************************************************************************)
(* Proofs about MigrationService, for any requests, keys and crashes:       *)
(* the types, then the inductive invariant of the execution lock, then      *)
(* where a row is when its job is at a given step, and from the last two    *)
(* the refinement of MigrationLifecycle.                                    *)
(*                                                                          *)
(* And about ProgressHub, which carries the events of one of its jobs, for  *)
(* any number of clients, any channel capacity and any number of events.    *)
(***************************************************************************)
EXTENDS MigrationService, ProgressHub, SequenceTheorems, TLAPS

\* Every step is one of these; the case split of every proof below.
LEMMA NextCases ==
  ASSUME [Next]_vars, NEW P,
         \A j \in Jobs : CheckRequest(j) => P, \A j \in Jobs : AcquireLock(j) => P,
         \A j \in Jobs : CreateRow(j) => P, \A j \in Jobs : CountRows(j) => P,
         \A j \in Jobs : Launch(j) => P, \A j \in Jobs : MarkRunning(j) => P,
         \A j \in Jobs : ResolveConnections(j) => P, \A j \in Jobs : StreamReturns(j) => P,
         \A j \in Jobs : Classify(j) => P, \A j \in Jobs : RecordOutcome(j) => P,
         \A j \in Jobs : NotifyOutcome(j) => P, \A j \in Jobs : CloseHub(j) => P,
         \A j \in Jobs : DropCancelFunc(j) => P, \A j \in Jobs : ReleaseLock(j) => P,
         \A c \in Cancels : CancelStep(c) => P,
         DeleteProject => P, Crash => P, UNCHANGED vars => P
  PROVE  P
  BY DEF Next, HandlerStep, GoroutineStep

-----------------------------------------------------------------------------
(***************************************************************************)
(* Types                                                                    *)
(***************************************************************************)

\* The constants and step sets every type proof opens.
USE ServiceAssumption DEF Terminal, Statuses, LockedSteps, StartSteps, WorkingSteps,
    RegisteredSteps, LiveSteps, JobSteps, CancelSteps, EventKinds

\* A status write keeps the types of what it writes.
LEMMA UpdateStatusType ==
  ASSUME TypeOK, NEW j \in Jobs, NEW s \in Statuses, UpdateStatus(j, s)
  PROVE  status' \in [Jobs -> Statuses] /\ lostWrites' \in SUBSET Jobs
  BY DEF TypeOK, UpdateStatus

\* The goroutine records and notifies only after it has taken a branch.
VerdictTaken == \A j \in Jobs : jobPC[j] \in {"recording", "notifying"} => verdict[j] \in Terminal

TInv == TypeOK /\ VerdictTaken

LEMMA TypesPreserved == TInv /\ [Next]_vars => TInv'
<1> SUFFICES ASSUME TInv, [Next]_vars PROVE TInv'
  OBVIOUS
<1> USE DEF TInv, TypeOK, VerdictTaken, vars, memory, cancelVars, streamVars, history
<1>1. ASSUME NEW j \in Jobs, CheckRequest(j) PROVE TInv'
  BY <1>1 DEF CheckRequest
<1>2. ASSUME NEW j \in Jobs, AcquireLock(j) PROVE TInv'
  BY <1>2 DEF AcquireLock
<1>3. ASSUME NEW j \in Jobs, CreateRow(j) PROVE TInv'
  <2>1. startPC' \in [Jobs -> StartSteps]
    <3>1. \E s \in StartSteps : startPC' = [startPC EXCEPT ![j] = s]
      BY <1>3 DEF CreateRow
    <3> QED
      BY <3>1
  <2>2. runningJobs' \in SUBSET LockKeys
    BY <1>3 DEF CreateRow
  <2>3. status' \in [Jobs -> Statuses]
    BY <1>3 DEF CreateRow
  <2> QED
    BY <1>3, <2>1, <2>2, <2>3 DEF CreateRow
<1>4. ASSUME NEW j \in Jobs, CountRows(j) PROVE TInv'
  <2>1. startPC' \in [Jobs -> StartSteps]
    <3>1. \E s \in StartSteps : startPC' = [startPC EXCEPT ![j] = s]
      BY <1>4 DEF CountRows
    <3> QED
      BY <3>1
  <2>2. runningJobs' \in SUBSET LockKeys
    BY <1>4 DEF CountRows
  <2> QED
    BY <1>4, <2>1, <2>2 DEF CountRows
<1>5. ASSUME NEW j \in Jobs, Launch(j) PROVE TInv'
  BY <1>5 DEF Launch
<1>6. ASSUME NEW j \in Jobs, MarkRunning(j) PROVE TInv'
  BY <1>6, UpdateStatusType DEF MarkRunning
<1>7. ASSUME NEW j \in Jobs, ResolveConnections(j) PROVE TInv'
  <2>1. jobPC' \in [Jobs -> JobSteps]
    BY <1>7 DEF ResolveConnections
  <2>2. streamRet' \in [Jobs -> {"none", "nil", "error"}]
    BY <1>7 DEF ResolveConnections
  <2>3. VerdictTaken'
    BY <1>7 DEF ResolveConnections
  <2> QED
    BY <1>7, <2>1, <2>2, <2>3 DEF ResolveConnections
<1>8. ASSUME NEW j \in Jobs, StreamReturns(j) PROVE TInv'
  BY <1>8 DEF StreamReturns
<1>9. ASSUME NEW j \in Jobs, Classify(j) PROVE TInv'
  BY <1>9 DEF Classify
<1>10. ASSUME NEW j \in Jobs, RecordOutcome(j) PROVE TInv'
  BY <1>10, UpdateStatusType DEF RecordOutcome
<1>11. ASSUME NEW j \in Jobs, NotifyOutcome(j) PROVE TInv'
  BY <1>11 DEF NotifyOutcome
<1>12. ASSUME NEW j \in Jobs, CloseHub(j) PROVE TInv'
  BY <1>12 DEF CloseHub
<1>13. ASSUME NEW j \in Jobs, DropCancelFunc(j) PROVE TInv'
  BY <1>13 DEF DropCancelFunc
<1>14. ASSUME NEW j \in Jobs, ReleaseLock(j) PROVE TInv'
  BY <1>14 DEF ReleaseLock
<1>15. ASSUME NEW c \in Cancels, CancelStep(c) PROVE TInv'
  <2>1. CASE CancelRead(c)
    BY <2>1 DEF CancelRead
  <2>2. CASE CancelLoad(c)
    BY <2>2 DEF CancelLoad
  <2>3. CASE CancelCall(c)
    BY <2>3 DEF CancelCall
  <2> QED
    BY <1>15, <2>1, <2>2, <2>3 DEF CancelStep
<1>16. CASE DeleteProject
  BY <1>16 DEF DeleteProject
<1>17. CASE Crash
  BY <1>17 DEF Crash
<1>18. CASE UNCHANGED vars
  BY <1>18
<1> QED
  BY <1>1, <1>2, <1>3, <1>4, <1>5, <1>6, <1>7, <1>8, <1>9, <1>10, <1>11, <1>12,
     <1>13, <1>14, <1>15, <1>16, <1>17, <1>18, NextCases

\* Variables keep their types: the results of calls, the counters and the logs
\* are what the code's branches tell apart and nothing else.
THEOREM TypeCorrect == Spec => []TypeOK
<1>1. Init => TInv
  BY DEF Init, TInv, TypeOK, VerdictTaken
<1>2. TInv => TypeOK
  BY DEF TInv
<1> QED
  BY <1>1, <1>2, TypesPreserved, PTL DEF Spec

-----------------------------------------------------------------------------
(***************************************************************************)
(* The execution lock                                                       *)
(***************************************************************************)

\* A goroutine exists only when its handler has returned.
LaunchedByHandler == \A j \in Jobs : jobPC[j] # "none" => startPC[j] = "returned"

\* LockMapExact, key by key.
LockMapByKey ==
    \A k \in LockKeys : k \in runningJobs <=> \E j \in Jobs : Holds(j) /\ LockKey[j] = k

Exclusion == OneJobPerKey /\ LockMapByKey

LockInv == LaunchedByHandler /\ Exclusion

HIDE DEF Terminal, Statuses, LockedSteps, StartSteps, WorkingSteps,
    RegisteredSteps, LiveSteps, JobSteps, CancelSteps, EventKinds

\* Exclusion concerns the holders and the map only. It survives a step that
\* leaves both alone,
LEMMA HoldersKept ==
  ASSUME Exclusion, \A i \in Jobs : Holds(i)' <=> Holds(i), runningJobs' = runningJobs
  PROVE  Exclusion'
  BY DEF Exclusion, OneJobPerKey, LockMapByKey

\* one that adds a holder whose key was free,
LEMMA HolderAdded ==
  ASSUME Exclusion, NEW j \in Jobs, Holds(j)', LockKey[j] \notin runningJobs,
         \A i \in Jobs \ {j} : Holds(i)' <=> Holds(i),
         runningJobs' = runningJobs \cup {LockKey[j]}
  PROVE  Exclusion'
  BY DEF Exclusion, OneJobPerKey, LockMapByKey

\* and one that removes a holder together with its key.
LEMMA HolderRemoved ==
  ASSUME Exclusion, NEW j \in Jobs, Holds(j), ~Holds(j)',
         \A i \in Jobs \ {j} : Holds(i)' <=> Holds(i),
         runningJobs' = runningJobs \ {LockKey[j]}
  PROVE  Exclusion'
  BY DEF Exclusion, OneJobPerKey, LockMapByKey

LEMMA LockPreserved == TInv /\ LockInv /\ [Next]_vars => LockInv'
<1> SUFFICES ASSUME TInv, LockInv, [Next]_vars PROVE LockInv'
  OBVIOUS
<1> USE DEF TInv, TypeOK, LockInv, LaunchedByHandler, Holds, LockedSteps, LiveSteps,
        RegisteredSteps, WorkingSteps, memory
<1>1. ASSUME NEW j \in Jobs, CheckRequest(j) PROVE LockInv'
  BY <1>1, HoldersKept DEF CheckRequest
<1>2. ASSUME NEW j \in Jobs, AcquireLock(j) PROVE LockInv'
  <2>1. LaunchedByHandler'
    BY <1>2 DEF AcquireLock
  <2>2. CASE LockKey[j] \in runningJobs
    BY <1>2, <2>1, <2>2, HoldersKept DEF AcquireLock
  <2>3. CASE LockKey[j] \notin runningJobs
    BY <1>2, <2>1, <2>3, HolderAdded DEF AcquireLock
  <2> QED
    BY <2>2, <2>3
<1>3. ASSUME NEW j \in Jobs, CreateRow(j) PROVE LockInv'
  <2>1. LaunchedByHandler'
    BY <1>3 DEF CreateRow
  <2>2. CASE startPC' = [startPC EXCEPT ![j] = "created"] /\ UNCHANGED runningJobs
    BY <1>3, <2>1, <2>2, HoldersKept DEF CreateRow
  <2>3. CASE startPC' = [startPC EXCEPT ![j] = "refused"] /\ runningJobs' = runningJobs \ {LockKey[j]}
    BY <1>3, <2>1, <2>3, HolderRemoved DEF CreateRow
  <2> QED
    BY <1>3, <2>2, <2>3 DEF CreateRow
<1>4. ASSUME NEW j \in Jobs, CountRows(j) PROVE LockInv'
  <2>1. LaunchedByHandler'
    BY <1>4 DEF CountRows
  <2>2. CASE startPC' = [startPC EXCEPT ![j] = "counted"] /\ UNCHANGED runningJobs
    BY <1>4, <2>1, <2>2, HoldersKept DEF CountRows
  <2>3. CASE startPC' = [startPC EXCEPT ![j] = "refused"] /\ runningJobs' = runningJobs \ {LockKey[j]}
    BY <1>4, <2>1, <2>3, HolderRemoved DEF CountRows
  <2> QED
    BY <1>4, <2>2, <2>3 DEF CountRows
<1>5. ASSUME NEW j \in Jobs, Launch(j) PROVE LockInv'
  BY <1>5, HoldersKept DEF Launch
<1>6. ASSUME NEW j \in Jobs, MarkRunning(j) PROVE LockInv'
  BY <1>6, HoldersKept DEF MarkRunning
<1>7. ASSUME NEW j \in Jobs, ResolveConnections(j) PROVE LockInv'
  BY <1>7, HoldersKept DEF ResolveConnections
<1>8. ASSUME NEW j \in Jobs, StreamReturns(j) PROVE LockInv'
  BY <1>8, HoldersKept DEF StreamReturns
<1>9. ASSUME NEW j \in Jobs, Classify(j) PROVE LockInv'
  BY <1>9, HoldersKept DEF Classify
<1>10. ASSUME NEW j \in Jobs, RecordOutcome(j) PROVE LockInv'
  BY <1>10, HoldersKept DEF RecordOutcome
<1>11. ASSUME NEW j \in Jobs, NotifyOutcome(j) PROVE LockInv'
  BY <1>11, HoldersKept DEF NotifyOutcome
<1>12. ASSUME NEW j \in Jobs, CloseHub(j) PROVE LockInv'
  BY <1>12, HoldersKept DEF CloseHub
<1>13. ASSUME NEW j \in Jobs, DropCancelFunc(j) PROVE LockInv'
  BY <1>13, HoldersKept DEF DropCancelFunc
<1>14. ASSUME NEW j \in Jobs, ReleaseLock(j) PROVE LockInv'
  BY <1>14, HolderRemoved DEF ReleaseLock
<1>15. ASSUME NEW c \in Cancels, CancelStep(c) PROVE LockInv'
  BY <1>15, HoldersKept DEF CancelStep, CancelRead, CancelLoad, CancelCall
<1>16. CASE DeleteProject
  BY <1>16, HoldersKept DEF DeleteProject
<1>17. CASE Crash
  <2>1. LaunchedByHandler'
    BY <1>17 DEF Crash
  <2>2. \A i \in Jobs : ~Holds(i)'
    BY <1>17 DEF Crash
  <2> QED
    BY <1>17, <2>1, <2>2 DEF Crash, Exclusion, OneJobPerKey, LockMapByKey
<1>18. CASE UNCHANGED vars
  BY <1>18, HoldersKept DEF vars
<1> QED
  BY <1>1, <1>2, <1>3, <1>4, <1>5, <1>6, <1>7, <1>8, <1>9, <1>10, <1>11, <1>12,
     <1>13, <1>14, <1>15, <1>16, <1>17, <1>18, NextCases

LEMMA InvariantHolds == Spec => [](TInv /\ LockInv)
<1>1. Init => TInv /\ LockInv
  <2>1. Init => TInv
    BY DEF Init, TInv, TypeOK, VerdictTaken, Terminal, Statuses, StartSteps, JobSteps, CancelSteps
  <2>2. Init => LockInv
    BY DEF Init, LockInv, LaunchedByHandler, Exclusion, OneJobPerKey, LockMapByKey, Holds,
           LockedSteps, LiveSteps, RegisteredSteps, WorkingSteps
  <2> QED
    BY <2>1, <2>2
<1> QED
  BY <1>1, TypesPreserved, LockPreserved, PTL DEF Spec

\* Two jobs for one source, target and table never run at the same time, for any
\* number of requests and keys, and with crashes and error paths.
THEOREM LockExcludes == Spec => []OneJobPerKey
<1>1. LockInv => OneJobPerKey
  BY DEF LockInv, Exclusion
<1> QED
  BY <1>1, InvariantHolds, PTL

\* The lock map is exactly the keys of the requests and goroutines that own one:
\* no path leaves a key behind or gives one back twice.
THEOREM LockMapCorrect == Spec => []LockMapExact
<1>1. TInv /\ LockInv => LockMapExact
  BY DEF TInv, TypeOK, LockInv, Exclusion, LockMapByKey, LockMapExact, Active
<1> QED
  BY <1>1, InvariantHolds, PTL

-----------------------------------------------------------------------------
(***************************************************************************)
(* Cancel functions                                                         *)
(***************************************************************************)

\* A job can be cancelled exactly while its goroutine is at work or closes the hub:
\* the registered cancel functions are those of the live goroutines, also after a
\* crash.
THEOREM CancelFuncsCorrect == Spec => []CancelFuncsExact
<1> USE DEF CancelFuncsExact, RegisteredSteps, WorkingSteps
<1>a. Init => CancelFuncsExact
  BY DEF Init
<1>b. TInv /\ CancelFuncsExact /\ [Next]_vars => CancelFuncsExact'
  <2> SUFFICES ASSUME TInv, CancelFuncsExact, [Next]_vars PROVE CancelFuncsExact'
    OBVIOUS
  <2> USE DEF TInv, TypeOK, memory
  <2>1. ASSUME NEW j \in Jobs, CheckRequest(j) PROVE CancelFuncsExact'
    BY <2>1 DEF CheckRequest
  <2>2. ASSUME NEW j \in Jobs, AcquireLock(j) PROVE CancelFuncsExact'
    BY <2>2 DEF AcquireLock
  <2>3. ASSUME NEW j \in Jobs, CreateRow(j) PROVE CancelFuncsExact'
    BY <2>3 DEF CreateRow
  <2>4. ASSUME NEW j \in Jobs, CountRows(j) PROVE CancelFuncsExact'
    BY <2>4 DEF CountRows
  <2>5. ASSUME NEW j \in Jobs, Launch(j) PROVE CancelFuncsExact'
    BY <2>5 DEF Launch
  <2>6. ASSUME NEW j \in Jobs, MarkRunning(j) PROVE CancelFuncsExact'
    BY <2>6 DEF MarkRunning
  <2>7. ASSUME NEW j \in Jobs, ResolveConnections(j) PROVE CancelFuncsExact'
    BY <2>7 DEF ResolveConnections
  <2>8. ASSUME NEW j \in Jobs, StreamReturns(j) PROVE CancelFuncsExact'
    BY <2>8 DEF StreamReturns
  <2>9. ASSUME NEW j \in Jobs, Classify(j) PROVE CancelFuncsExact'
    BY <2>9 DEF Classify
  <2>10. ASSUME NEW j \in Jobs, RecordOutcome(j) PROVE CancelFuncsExact'
    BY <2>10 DEF RecordOutcome
  <2>11. ASSUME NEW j \in Jobs, NotifyOutcome(j) PROVE CancelFuncsExact'
    BY <2>11 DEF NotifyOutcome
  <2>12. ASSUME NEW j \in Jobs, CloseHub(j) PROVE CancelFuncsExact'
    BY <2>12 DEF CloseHub
  <2>13. ASSUME NEW j \in Jobs, DropCancelFunc(j) PROVE CancelFuncsExact'
    BY <2>13 DEF DropCancelFunc
  <2>14. ASSUME NEW j \in Jobs, ReleaseLock(j) PROVE CancelFuncsExact'
    BY <2>14 DEF ReleaseLock
  <2>15. ASSUME NEW c \in Cancels, CancelStep(c) PROVE CancelFuncsExact'
    BY <2>15 DEF CancelStep, CancelRead, CancelLoad, CancelCall
  <2>16. CASE DeleteProject
    BY <2>16 DEF DeleteProject
  <2>17. CASE Crash
    BY <2>17 DEF Crash, JobSteps, LiveSteps
  <2>18. CASE UNCHANGED vars
    BY <2>18 DEF vars
  <2> QED
    BY <2>1, <2>2, <2>3, <2>4, <2>5, <2>6, <2>7, <2>8, <2>9, <2>10, <2>11, <2>12,
       <2>13, <2>14, <2>15, <2>16, <2>17, <2>18, NextCases
<1> QED
  BY <1>a, <1>b, InvariantHolds, PTL DEF Spec

-----------------------------------------------------------------------------
(***************************************************************************)
(* Where the row is, and the refinement of MigrationLifecycle               *)
(***************************************************************************)

\* The row of a job at each step of its handler and goroutine.
RowInv ==
    \A j \in Jobs :
        /\ startPC[j] \in {"idle", "checked", "locked"} => status[j] = "none"
        /\ startPC[j] \in {"created", "counted"} => status[j] \in {"pending", "deleted"}
        /\ jobPC[j] = "launched" => status[j] \in {"pending", "deleted"}
        /\ jobPC[j] \in {"resolving", "streaming", "returned", "recording"} =>
               status[j] \in {"pending", "running", "deleted"}

LEMMA RowPreserved == TInv /\ LaunchedByHandler /\ RowInv /\ [Next]_vars => RowInv'
<1> SUFFICES ASSUME TInv, LaunchedByHandler, RowInv, [Next]_vars PROVE RowInv'
  OBVIOUS
<1> USE DEF TInv, TypeOK, LaunchedByHandler, RowInv, memory, streamVars, history
<1>1. ASSUME NEW j \in Jobs, CheckRequest(j) PROVE RowInv'
  BY <1>1 DEF CheckRequest
<1>2. ASSUME NEW j \in Jobs, AcquireLock(j) PROVE RowInv'
  BY <1>2 DEF AcquireLock
<1>3. ASSUME NEW j \in Jobs, CreateRow(j) PROVE RowInv'
  BY <1>3 DEF CreateRow
<1>4. ASSUME NEW j \in Jobs, CountRows(j) PROVE RowInv'
  BY <1>4 DEF CountRows
<1>5. ASSUME NEW j \in Jobs, Launch(j) PROVE RowInv'
  BY <1>5 DEF Launch
<1>6. ASSUME NEW j \in Jobs, MarkRunning(j) PROVE RowInv'
  BY <1>6 DEF MarkRunning, UpdateStatus
<1>7. ASSUME NEW j \in Jobs, ResolveConnections(j) PROVE RowInv'
  BY <1>7 DEF ResolveConnections
<1>8. ASSUME NEW j \in Jobs, StreamReturns(j) PROVE RowInv'
  BY <1>8 DEF StreamReturns
<1>9. ASSUME NEW j \in Jobs, Classify(j) PROVE RowInv'
  BY <1>9 DEF Classify
<1>10. ASSUME NEW j \in Jobs, RecordOutcome(j) PROVE RowInv'
  BY <1>10 DEF RecordOutcome, UpdateStatus
<1>11. ASSUME NEW j \in Jobs, NotifyOutcome(j) PROVE RowInv'
  BY <1>11 DEF NotifyOutcome
<1>12. ASSUME NEW j \in Jobs, CloseHub(j) PROVE RowInv'
  BY <1>12 DEF CloseHub
<1>13. ASSUME NEW j \in Jobs, DropCancelFunc(j) PROVE RowInv'
  BY <1>13 DEF DropCancelFunc
<1>14. ASSUME NEW j \in Jobs, ReleaseLock(j) PROVE RowInv'
  BY <1>14 DEF ReleaseLock
<1>15. ASSUME NEW c \in Cancels, CancelStep(c) PROVE RowInv'
  BY <1>15 DEF CancelStep, CancelRead, CancelLoad, CancelCall
<1>16. CASE DeleteProject
  BY <1>16 DEF DeleteProject
<1>17. CASE Crash
  BY <1>17 DEF Crash, LockedSteps, LiveSteps, RegisteredSteps, WorkingSteps
<1>18. CASE UNCHANGED vars
  BY <1>18 DEF vars
<1> QED
  BY <1>1, <1>2, <1>3, <1>4, <1>5, <1>6, <1>7, <1>8, <1>9, <1>10, <1>11, <1>12,
     <1>13, <1>14, <1>15, <1>16, <1>17, <1>18, NextCases

LEMMA RowInvHolds == Spec => []RowInv
<1>1. Init => RowInv
  BY DEF Init, RowInv
<1>2. TInv /\ LockInv /\ RowInv /\ [Next]_vars => RowInv'
  BY RowPreserved DEF LockInv
<1> QED
  BY <1>1, <1>2, InvariantHolds, PTL DEF Spec

\* A status write of an active job is a step of its row, or no step.
LEMMA WriteRefines ==
  ASSUME TInv, NEW j \in Jobs, NEW s \in Statuses, Holds(j), Active' = Active,
         UpdateStatus(j, s),
         \/ s = "running" /\ status[j] \in {"pending", "deleted"}
         \/ s \in Terminal /\ status[j] \in {"pending", "running", "deleted"}
  PROVE  [Lifecycle!Next]_Lifecycle!vars
<1> USE DEF Active, Lifecycle!vars
<1>1. CASE UNCHANGED status
  BY <1>1
<1>2. CASE /\ s = "running" /\ status[j] = "pending"
           /\ status' = [status EXCEPT ![j] = s]
  BY <1>2 DEF Lifecycle!Next, Lifecycle!Begin, Lifecycle!Advance
<1>3. CASE /\ s \in Terminal /\ status[j] \in {"pending", "running"}
           /\ status' = [status EXCEPT ![j] = s]
  <2>1. Lifecycle!Finish(j)
    BY <1>3 DEF Lifecycle!Finish, Lifecycle!Advance, Lifecycle!Outcomes, Terminal
  <2> QED
    BY <2>1 DEF Lifecycle!Next
<1> QED
  BY <1>1, <1>2, <1>3 DEF UpdateStatus

\* A step that gives a job's lock back and does not touch the rows retires it.
LEMMA ReleaseRefines ==
  ASSUME NEW j \in Jobs, Holds(j), ~Holds(j)', UNCHANGED status,
         \A i \in Jobs \ {j} : Holds(i)' <=> Holds(i)
  PROVE  [Lifecycle!Next]_Lifecycle!vars
<1>1. j \in Active /\ Active' = Active \ {j}
  BY DEF Active
<1> QED
  BY <1>1 DEF Lifecycle!Next, Lifecycle!Retire

\* A step that touches neither the rows nor the set of active jobs is no step.
LEMMA StutterRefines ==
  ASSUME \A i \in Jobs : Holds(i)' <=> Holds(i), UNCHANGED status
  PROVE  [Lifecycle!Next]_Lifecycle!vars
  BY DEF Lifecycle!vars, Active

LEMMA StepRefines ==
  TInv /\ LockInv /\ RowInv /\ [Next]_vars => [Lifecycle!Next]_Lifecycle!vars
<1> SUFFICES ASSUME TInv, LockInv, RowInv, [Next]_vars
             PROVE  [Lifecycle!Next]_Lifecycle!vars
  OBVIOUS
<1> USE DEF TInv, TypeOK, LockInv, LaunchedByHandler, RowInv, Holds, LockedSteps, LiveSteps,
        RegisteredSteps, WorkingSteps, memory
<1>1. ASSUME NEW j \in Jobs, CheckRequest(j) PROVE [Lifecycle!Next]_Lifecycle!vars
  BY <1>1, StutterRefines DEF CheckRequest
<1>2. ASSUME NEW j \in Jobs, AcquireLock(j) PROVE [Lifecycle!Next]_Lifecycle!vars
  <2>1. CASE LockKey[j] \in runningJobs
    BY <1>2, <2>1, StutterRefines DEF AcquireLock
  <2>2. CASE LockKey[j] \notin runningJobs
    <3>1. ~Holds(j) /\ Holds(j)' /\ status[j] = "none"
      BY <1>2, <2>2 DEF AcquireLock
    <3>2. \A i \in Jobs \ {j} : Holds(i)' <=> Holds(i)
      BY <1>2, <2>2 DEF AcquireLock
    <3>3. j \notin Active /\ Active' = Active \cup {j}
      <4> HIDE DEF Holds
      <4> QED
        BY <3>1, <3>2 DEF Active
    <3>4. \A i \in Active : LockKey[i] # LockKey[j]
      BY <2>2, ServiceAssumption DEF Active, Exclusion, LockMapByKey
    <3> QED
      BY <1>2, <2>2, <3>1, <3>3, <3>4 DEF AcquireLock, Lifecycle!Next, Lifecycle!Admit
  <2> QED
    BY <2>1, <2>2
<1>3. ASSUME NEW j \in Jobs, CreateRow(j) PROVE [Lifecycle!Next]_Lifecycle!vars
  <2>1. CASE startPC' = [startPC EXCEPT ![j] = "created"] /\ status' = [status EXCEPT ![j] = "pending"]
    <3>1. j \in Active /\ Active' = Active
      BY <1>3, <2>1 DEF CreateRow, Active
    <3> QED
      BY <1>3, <2>1, <3>1 DEF CreateRow, Lifecycle!Next, Lifecycle!Create, Lifecycle!Advance
  <2>2. CASE startPC' = [startPC EXCEPT ![j] = "refused"] /\ UNCHANGED status
    BY <1>3, <2>2, ReleaseRefines DEF CreateRow
  <2> QED
    BY <1>3, <2>1, <2>2 DEF CreateRow
<1>4. ASSUME NEW j \in Jobs, CountRows(j) PROVE [Lifecycle!Next]_Lifecycle!vars
  <2>1. CASE startPC' = [startPC EXCEPT ![j] = "counted"]
    BY <1>4, <2>1, StutterRefines DEF CountRows
  <2>2. CASE startPC' = [startPC EXCEPT ![j] = "refused"]
    BY <1>4, <2>2, ReleaseRefines DEF CountRows
  <2> QED
    BY <1>4, <2>1, <2>2 DEF CountRows
<1>5. ASSUME NEW j \in Jobs, Launch(j) PROVE [Lifecycle!Next]_Lifecycle!vars
  BY <1>5, StutterRefines DEF Launch
<1>6. ASSUME NEW j \in Jobs, MarkRunning(j) PROVE [Lifecycle!Next]_Lifecycle!vars
  <2>1. Holds(j) /\ Active' = Active
    BY <1>6 DEF MarkRunning, Active
  <2>2. UpdateStatus(j, "running") /\ "running" \in Statuses
    BY <1>6 DEF MarkRunning, Statuses
  <2> QED
    BY <1>6, <2>1, <2>2, WriteRefines DEF MarkRunning
<1>7. ASSUME NEW j \in Jobs, ResolveConnections(j) PROVE [Lifecycle!Next]_Lifecycle!vars
  BY <1>7, StutterRefines DEF ResolveConnections
<1>8. ASSUME NEW j \in Jobs, StreamReturns(j) PROVE [Lifecycle!Next]_Lifecycle!vars
  BY <1>8, StutterRefines DEF StreamReturns
<1>9. ASSUME NEW j \in Jobs, Classify(j) PROVE [Lifecycle!Next]_Lifecycle!vars
  BY <1>9, StutterRefines DEF Classify
<1>10. ASSUME NEW j \in Jobs, RecordOutcome(j) PROVE [Lifecycle!Next]_Lifecycle!vars
  <2>1. Holds(j) /\ Active' = Active
    BY <1>10 DEF RecordOutcome, Active
  <2>2. UpdateStatus(j, verdict[j]) /\ verdict[j] \in Statuses
    BY <1>10 DEF RecordOutcome, Statuses, VerdictTaken, Terminal
  <2> QED
    BY <1>10, <2>1, <2>2, WriteRefines DEF RecordOutcome, VerdictTaken
<1>11. ASSUME NEW j \in Jobs, NotifyOutcome(j) PROVE [Lifecycle!Next]_Lifecycle!vars
  BY <1>11, StutterRefines DEF NotifyOutcome
<1>12. ASSUME NEW j \in Jobs, CloseHub(j) PROVE [Lifecycle!Next]_Lifecycle!vars
  BY <1>12, StutterRefines DEF CloseHub
<1>13. ASSUME NEW j \in Jobs, DropCancelFunc(j) PROVE [Lifecycle!Next]_Lifecycle!vars
  BY <1>13, StutterRefines DEF DropCancelFunc
<1>14. ASSUME NEW j \in Jobs, ReleaseLock(j) PROVE [Lifecycle!Next]_Lifecycle!vars
  BY <1>14, ReleaseRefines DEF ReleaseLock
<1>15. ASSUME NEW c \in Cancels, CancelStep(c) PROVE [Lifecycle!Next]_Lifecycle!vars
  BY <1>15, StutterRefines DEF CancelStep, CancelRead, CancelLoad, CancelCall
<1>16. CASE DeleteProject
  <2>1. Active' = Active
    BY <1>16 DEF DeleteProject, Active
  <2> QED
    BY <1>16, <2>1 DEF DeleteProject, Lifecycle!Next, Lifecycle!Purge
<1>17. CASE Crash
  <2>1. Active' = {}
    BY <1>17 DEF Crash, Active
  <2> QED
    BY <1>17, <2>1 DEF Crash, Lifecycle!Next, Lifecycle!Restart
<1>18. CASE UNCHANGED vars
  BY <1>18, StutterRefines DEF vars
<1> QED
  BY <1>1, <1>2, <1>3, <1>4, <1>5, <1>6, <1>7, <1>8, <1>9, <1>10, <1>11, <1>12,
     <1>13, <1>14, <1>15, <1>16, <1>17, <1>18, NextCases

\* The service with its handlers, goroutines, cancellations, deletions and crashes
\* implements the lifecycle of a job: its row is written under its lock only, goes
\* forwards only, and a deleted row does not come back.
THEOREM ServiceImplementsLifecycle == Spec => LifecycleSpec
<1>1. Init => Lifecycle!Init
  BY DEF Init, Lifecycle!Init, Active, Holds, LockedSteps, LiveSteps, RegisteredSteps, WorkingSteps
<1> QED
  BY <1>1, StepRefines, InvariantHolds, RowInvHolds, PTL DEF Spec, LifecycleSpec, Lifecycle!Spec

-----------------------------------------------------------------------------
(***************************************************************************)
(* What the outside is told, and the row                                    *)
(***************************************************************************)

\* The row of j shows the branch its goroutine took, or one of the exceptions holds.
Shown(j) == verdict[j] \in Terminal
            /\ (status[j] \in {verdict[j], "deleted"} \/ j \in ctxDone \cup lostWrites)

\* "started" has been issued for j, and after it the outcome or nothing.
Began(j) == Len(issued[j]) = 1 /\ issued[j][1] = "started"
Told(j) == Len(issued[j]) = 2 /\ issued[j][1] = "started" /\ issued[j][2] = verdict[j]

\* What has been issued at each step, and from which step on the row is settled.
\* A killed goroutine may have stopped anywhere: it has told the outcome, or closed
\* the hub, only if it got that far.
NoticeInv ==
    \A j \in Jobs :
        /\ jobPC[j] = "none" => Len(issued[j]) = 0
        /\ jobPC[j] \in WorkingSteps => Began(j)
        /\ jobPC[j] \in {"closingHub", "unregistering", "unlocking", "ended"} => Told(j)
        /\ jobPC[j] = "killed" => Began(j) \/ Told(j)
        /\ jobPC[j] \in {"notifying", "closingHub", "unregistering", "unlocking", "ended"} => Shown(j)
        /\ Told(j) \/ j \in hubClosed => Shown(j)
        /\ j \in hubClosed => jobPC[j] \in {"unregistering", "unlocking", "ended", "killed"}

\* One more event.
LEMMA IssueOne ==
  ASSUME NEW s \in Seq(EventKinds), NEW e \in EventKinds
  PROVE  /\ Len(Append(s, e)) = Len(s) + 1
         /\ Append(s, e)[Len(s) + 1] = e
         /\ \A i \in 1..Len(s) : Append(s, e)[i] = s[i]
  OBVIOUS

LEMMA NoticePreserved == TInv /\ LaunchedByHandler /\ NoticeInv /\ [Next]_vars => NoticeInv'
<1> SUFFICES ASSUME TInv, LaunchedByHandler, NoticeInv, [Next]_vars PROVE NoticeInv'
  OBVIOUS
<1> USE DEF TInv, TypeOK, LaunchedByHandler, NoticeInv, Began, Told, Shown, WorkingSteps,
        memory, streamVars, history
<1>1. ASSUME NEW j \in Jobs, CheckRequest(j) PROVE NoticeInv'
  BY <1>1 DEF CheckRequest
<1>2. ASSUME NEW j \in Jobs, AcquireLock(j) PROVE NoticeInv'
  BY <1>2 DEF AcquireLock
<1>3. ASSUME NEW j \in Jobs, CreateRow(j) PROVE NoticeInv'
  <2>1. jobPC[j] = "none" /\ ~Told(j) /\ j \notin hubClosed
    BY <1>3 DEF CreateRow
  <2>2. \A i \in Jobs \ {j} : status'[i] = status[i]
    BY <1>3 DEF CreateRow
  <2>3. UNCHANGED <<jobPC, issued, hubClosed, verdict, ctxDone, lostWrites>>
    BY <1>3 DEF CreateRow
  <2> QED
    BY <2>1, <2>2, <2>3
<1>4. ASSUME NEW j \in Jobs, CountRows(j) PROVE NoticeInv'
  BY <1>4 DEF CountRows
<1>5. ASSUME NEW j \in Jobs, Launch(j) PROVE NoticeInv'
  BY <1>5 DEF Launch
<1>6. ASSUME NEW j \in Jobs, MarkRunning(j) PROVE NoticeInv'
  BY <1>6 DEF MarkRunning, UpdateStatus, VerdictTaken
<1>7. ASSUME NEW j \in Jobs, ResolveConnections(j) PROVE NoticeInv'
  BY <1>7 DEF ResolveConnections
<1>8. ASSUME NEW j \in Jobs, StreamReturns(j) PROVE NoticeInv'
  BY <1>8 DEF StreamReturns
<1>9. ASSUME NEW j \in Jobs, Classify(j) PROVE NoticeInv'
  BY <1>9 DEF Classify, VerdictTaken, Terminal
<1>10. ASSUME NEW j \in Jobs, RecordOutcome(j) PROVE NoticeInv'
  BY <1>10 DEF RecordOutcome, UpdateStatus, VerdictTaken
<1>11. ASSUME NEW j \in Jobs, NotifyOutcome(j) PROVE NoticeInv'
  <2>1. verdict[j] \in EventKinds /\ Began(j) /\ Shown(j)
    BY <1>11 DEF NotifyOutcome, VerdictTaken, EventKinds
  <2>2. issued'[j] = Append(issued[j], verdict[j])
    BY <1>11 DEF NotifyOutcome
  <2>3. Len(issued'[j]) = 2 /\ issued'[j][1] = "started" /\ issued'[j][2] = verdict[j]
    <3>1. issued[j] \in Seq(EventKinds) /\ Len(issued[j]) = 1 /\ issued[j][1] = "started"
      BY <2>1
    <3> HIDE DEF TInv, TypeOK, LaunchedByHandler, NoticeInv
    <3>2. /\ Len(Append(issued[j], verdict[j])) = Len(issued[j]) + 1
          /\ Append(issued[j], verdict[j])[Len(issued[j]) + 1] = verdict[j]
          /\ Append(issued[j], verdict[j])[1] = issued[j][1]
      BY <2>1, <3>1, IssueOne
    <3> QED
      BY <2>2, <3>1, <3>2
  <2>4. \A i \in Jobs \ {j} : issued'[i] = issued[i] /\ jobPC'[i] = jobPC[i]
    BY <1>11 DEF NotifyOutcome
  <2>5. jobPC'[j] = "closingHub" /\ j \notin hubClosed
    BY <1>11 DEF NotifyOutcome
  <2>6. UNCHANGED <<status, hubClosed, verdict, ctxDone, lostWrites>>
    BY <1>11 DEF NotifyOutcome
  <2> QED
    BY <2>1, <2>3, <2>4, <2>5, <2>6
<1>12. ASSUME NEW j \in Jobs, CloseHub(j) PROVE NoticeInv'
  BY <1>12 DEF CloseHub
<1>13. ASSUME NEW j \in Jobs, DropCancelFunc(j) PROVE NoticeInv'
  BY <1>13 DEF DropCancelFunc
<1>14. ASSUME NEW j \in Jobs, ReleaseLock(j) PROVE NoticeInv'
  BY <1>14 DEF ReleaseLock
<1>15. ASSUME NEW c \in Cancels, CancelStep(c) PROVE NoticeInv'
  BY <1>15 DEF CancelStep, CancelRead, CancelLoad, CancelCall
<1>16. CASE DeleteProject
  BY <1>16 DEF DeleteProject
<1>17. CASE Crash
  BY <1>17 DEF Crash, LiveSteps, RegisteredSteps
<1>18. CASE UNCHANGED vars
  BY <1>18 DEF vars
<1> QED
  BY <1>1, <1>2, <1>3, <1>4, <1>5, <1>6, <1>7, <1>8, <1>9, <1>10, <1>11, <1>12,
     <1>13, <1>14, <1>15, <1>16, <1>17, <1>18, NextCases

LEMMA NoticeHolds == Spec => [](TInv /\ NoticeInv)
<1>1. Init => NoticeInv
  BY DEF Init, NoticeInv, WorkingSteps, Began, Told, Shown
<1>2. TInv /\ LockInv /\ NoticeInv /\ [Next]_vars => NoticeInv'
  BY NoticePreserved DEF LockInv
<1> QED
  BY <1>1, <1>2, InvariantHolds, PTL DEF Spec

\* Once a client's stream can have ended, the row it fetches shows an outcome, with
\* the exceptions the property names.
THEOREM ClosedAfterOutcome == Spec => []ClosedMeansTerminal
<1>1. TInv /\ NoticeInv => ClosedMeansTerminal
  BY DEF TInv, TypeOK, NoticeInv, Shown, ClosedMeansTerminal
<1> QED
  BY <1>1, NoticeHolds, PTL

\* Audit log and webhooks are told one outcome, after "started", and the row shows
\* the same one, with the exceptions the property names.
THEOREM NotificationsAgree == Spec => []NotificationsMatchRow
<1>1. TInv /\ NoticeInv => NotificationsMatchRow
  <2> SUFFICES ASSUME TInv, NoticeInv, NEW j \in Jobs, Len(issued[j]) > 1
               PROVE  /\ Len(issued[j]) = 2 /\ issued[j][1] = "started"
                      /\ status[j] \in {issued[j][2], "deleted"} \/ j \in ctxDone \cup lostWrites
    BY DEF NotificationsMatchRow
  <2>1. jobPC[j] \in {"none", "closingHub", "unregistering", "unlocking", "ended", "killed"} \cup WorkingSteps
    BY DEF TInv, TypeOK, JobSteps, LiveSteps, RegisteredSteps
  <2>2. Told(j)
    <3>1. issued[j] \in Seq(EventKinds)
      BY DEF TInv, TypeOK
    <3>2. \A n \in {0, 1} : Len(issued[j]) # n
      <4>1. \A n \in {0, 1} : ~(n > 1)
        OBVIOUS
      <4> QED
        BY <4>1
    <3>3. jobPC[j] # "none"
      BY <3>2 DEF NoticeInv
    <3>4. ~Began(j)
      BY <3>2 DEF Began
    <3> QED
      BY <2>1, <3>3, <3>4 DEF NoticeInv
  <2> QED
    BY <2>2 DEF NoticeInv, Told, Shown
<1> QED
  BY <1>1, NoticeHolds, PTL

-----------------------------------------------------------------------------
(***************************************************************************)
(* The hub                                                                  *)
(***************************************************************************)
\* What the hub's two maps need: the types of the two and their agreement.
HubInv == /\ subscribers \in SUBSET Clients
          /\ chanState \in [Clients -> {"none", "open", "closed"}]
          /\ handler \in [Clients -> {"idle", "waiting", "flushing", "leaving", "gone"}]
          /\ SubscribersExact
          /\ NoPanic

\* Every step keeps the invariant of the hub.
LEMMA HubPreserved == HubInv /\ [HubNext]_allVars => HubInv'
<1> SUFFICES ASSUME HubInv, [HubNext]_allVars PROVE HubInv'
  OBVIOUS
<1> USE DEF HubInv, SubscribersExact, NoPanic
<1>1. CASE Progress
  BY <1>1 DEF Progress, Broadcast, handlerVars
<1>2. CASE Succeed
  BY <1>2 DEF Succeed, Broadcast, handlerVars
<1>3. CASE Fail
  BY <1>3 DEF Fail, hubVars, handlerVars
<1>4. CASE EndJob
  BY <1>4 DEF EndJob, Close, handlerVars
<1>5. ASSUME NEW c \in Clients, Connect(c) PROVE HubInv'
  BY <1>5 DEF Connect, Subscribe
<1>6. ASSUME NEW c \in Clients, Receive(c) PROVE HubInv'
  BY <1>6 DEF Receive
<1>7. ASSUME NEW c \in Clients, Flush(c) PROVE HubInv'
  BY <1>7 DEF Flush, hubVars
<1>8. ASSUME NEW c \in Clients, Leave(c) PROVE HubInv'
  BY <1>8 DEF Leave, Unsubscribe
<1>9. ASSUME NEW c \in Clients, Disconnect(c) PROVE HubInv'
  BY <1>9 DEF Disconnect, hubVars
<1>10. CASE UNCHANGED allVars
  BY <1>10 DEF allVars, hubVars, handlerVars
<1> QED
  BY <1>1, <1>2, <1>3, <1>4, <1>5, <1>6, <1>7, <1>8, <1>9, <1>10
     DEF HubNext, JobStep, StreamStep

\* The invariant of the hub always holds.
LEMMA HubInvHolds == HubSpec => []HubInv
<1>1. HubInit => HubInv
  BY DEF HubInit, HubInv, SubscribersExact, NoPanic
<1> QED
  BY <1>1, HubPreserved, PTL DEF HubSpec

\* Nothing is sent on a closed channel and no channel is closed twice, in whatever
\* order the job's Close and Broadcast and the handlers' Unsubscribe come.
THEOREM HubDoesNotPanic == HubSpec => []NoPanic
<1>1. HubInv => NoPanic
  BY DEF HubInv
<1> QED
  BY <1>1, HubInvHolds, PTL

\* The hub knows exactly the open channels, and none of a handler that has ended.
THEOREM HubForgets == HubSpec => []SubscribersExact
<1>1. HubInv => SubscribersExact
  BY DEF HubInv
<1> QED
  BY <1>1, HubInvHolds, PTL

-----------------------------------------------------------------------------
\* A client's buffer after one more event, or one less.
LEMMA BufferLemma ==
  ASSUME NEW s \in Seq(Events), Len(s) <= ChanCap
  PROVE  /\ \A e \in Events : Len(s) < ChanCap =>
                Append(s, e) \in Seq(Events) /\ Len(Append(s, e)) <= ChanCap
         /\ s # <<>> => Head(s) \in Events /\ Tail(s) \in Seq(Events) /\ Len(Tail(s)) <= ChanCap
  BY HubAssumption

\* Broadcasting an event keeps the channels in their bound: a full one is skipped.
LEMMA BroadcastType ==
  ASSUME HubTypeOK, NEW e \in Events, Broadcast(e)
  PROVE  /\ published' \in Seq(Events)
         /\ channel' \in [Clients -> Seq(Events)]
         /\ \A c \in Clients : Len(channel'[c]) <= ChanCap
         /\ UNCHANGED <<subscribers, chanState>>
         /\ panicked' \in BOOLEAN
         /\ dropped' \in SUBSET Clients
<1>1. \A c \in Clients : Len(channel[c]) \in Nat
  BY DEF HubTypeOK
<1>2. \A c \in Clients : /\ channel'[c] \in Seq(Events)
                         /\ Len(channel'[c]) <= ChanCap
  BY <1>1, BufferLemma, HubAssumption DEF Broadcast, HubTypeOK
<1> QED
  BY <1>2 DEF Broadcast, HubTypeOK

\* A loop that is about to write has something to write.
EventHeld == \A c \in Clients : handler[c] = "flushing" => event[c] # <<>>

HubTInv == HubTypeOK /\ EventHeld

\* No subscriber's buffer grows beyond its capacity, however slow the client, and
\* the other variables keep their types.
THEOREM HubTypeCorrect == HubSpec => []HubTypeOK
<1>1. HubInit => HubTInv
  <2>1. <<>> \in Seq(Events) /\ Len(<<>>) <= ChanCap
    BY HubAssumption
  <2>2. HubInit => \A c \in Clients : channel[c] = <<>>
    BY DEF HubInit
  <2>3. HubInit => \A c \in Clients : Len(channel[c]) <= ChanCap
    BY <2>1, <2>2
  <2>4. HubInit => EventHeld
    BY DEF HubInit, EventHeld
  <2>5. HubInit => /\ channel \in [Clients -> Seq(Events)]
                /\ event \in [Clients -> Seq(Events)]
                /\ delivered \in [Clients -> Seq(Events)]
                /\ published \in Seq(Events)
    BY <2>1 DEF HubInit
  <2>6. HubInit => /\ chanState \in [Clients -> {"none", "open", "closed"}]
                /\ handler \in [Clients -> {"idle", "waiting", "flushing", "leaving", "gone"}]
                /\ joinedAt \in [Clients -> Nat]
    BY DEF HubInit
  <2> QED
    BY <2>3, <2>4, <2>5, <2>6 DEF HubInit, HubTInv, HubTypeOK
<1>2. HubTInv /\ [HubNext]_allVars => HubTInv'
  <2> SUFFICES ASSUME HubTInv, [HubNext]_allVars PROVE HubTInv'
    OBVIOUS
  <2> USE DEF HubTInv, EventHeld
  <2>1. CASE Progress
    BY <2>1, BroadcastType DEF Progress, HubTypeOK, handlerVars, Events
  <2>2. CASE Succeed
    BY <2>2, BroadcastType DEF Succeed, HubTypeOK, handlerVars, Events
  <2>3. CASE Fail
    BY <2>3 DEF Fail, HubTypeOK, hubVars, handlerVars
  <2>4. CASE EndJob
    BY <2>4 DEF EndJob, Close, HubTypeOK, handlerVars
  <2>5. ASSUME NEW c \in Clients, Connect(c) PROVE HubTInv'
    BY <2>5 DEF Connect, Subscribe, HubTypeOK, jobVars
  <2>6. ASSUME NEW c \in Clients, Receive(c) PROVE HubTInv'
    <3>1. CASE channel[c] = <<>>
      BY <2>6, <3>1 DEF Receive, HubTypeOK, jobVars
    <3>2. CASE channel[c] # <<>>
      <4>1. Head(channel[c]) \in Events /\ Tail(channel[c]) \in Seq(Events)
              /\ Len(Tail(channel[c])) <= ChanCap
        BY <3>2, BufferLemma DEF HubTypeOK
      <4>2. event' = [event EXCEPT ![c] = <<Head(channel[c])>>]
              /\ channel' = [channel EXCEPT ![c] = Tail(@)]
              /\ handler' = [handler EXCEPT ![c] = "flushing"]
        BY <2>6, <3>2 DEF Receive
      <4>3. event' \in [Clients -> Seq(Events)]
        <5>1. <<Head(channel[c])>> \in Seq(Events)
          BY <4>1
        <5> QED
          BY <4>2, <5>1 DEF HubTypeOK
      <4>4. channel' \in [Clients -> Seq(Events)] /\ \A b \in Clients : Len(channel'[b]) <= ChanCap
        BY <4>1, <4>2 DEF HubTypeOK
      <4> QED
        BY <2>6, <4>2, <4>3, <4>4 DEF Receive, HubTypeOK, jobVars
    <3> QED
      BY <3>1, <3>2
  <2>7. ASSUME NEW c \in Clients, Flush(c) PROVE HubTInv'
    <3>1. delivered' \in [Clients -> Seq(Events)]
      <4>1. event[c] \in Seq(Events) /\ event[c] # <<>>
        BY <2>7 DEF Flush, HubTypeOK
      <4>2. event[c][1] \in Events
        BY <4>1
      <4> QED
        <5>1. CASE UNCHANGED delivered
          BY <5>1 DEF HubTypeOK
        <5>2. CASE delivered' = [delivered EXCEPT ![c] = Append(@, event[c][1])]
          BY <4>2, <5>2 DEF HubTypeOK
        <5> QED
          BY <2>7, <5>1, <5>2 DEF Flush
    <3>2. event' \in [Clients -> Seq(Events)]
      <4>1. <<>> \in Seq(Events)
        OBVIOUS
      <4> QED
        BY <2>7, <4>1 DEF Flush, HubTypeOK
    <3>3. handler' \in [Clients -> {"idle", "waiting", "flushing", "leaving", "gone"}]
      <4>1. \E h \in {"waiting", "leaving"} : handler' = [handler EXCEPT ![c] = h]
        BY <2>7 DEF Flush
      <4> QED
        BY <4>1 DEF HubTypeOK
    <3> QED
      BY <2>7, <3>1, <3>2, <3>3 DEF Flush, HubTypeOK, hubVars, jobVars
  <2>8. ASSUME NEW c \in Clients, Leave(c) PROVE HubTInv'
    BY <2>8 DEF Leave, Unsubscribe, HubTypeOK, jobVars
  <2>9. ASSUME NEW c \in Clients, Disconnect(c) PROVE HubTInv'
    BY <2>9 DEF Disconnect, HubTypeOK, hubVars, jobVars
  <2>10. CASE UNCHANGED allVars
    BY <2>10 DEF allVars, HubTypeOK, hubVars, jobVars, handlerVars
  <2> QED
    BY <2>1, <2>2, <2>3, <2>4, <2>5, <2>6, <2>7, <2>8, <2>9, <2>10
       DEF HubNext, JobStep, StreamStep
<1>3. HubTInv => HubTypeOK
  BY DEF HubTInv
<1> QED
  BY <1>1, <1>2, <1>3, PTL DEF HubSpec

-----------------------------------------------------------------------------
\* A handler holds an event exactly while it writes it, and has none, nor received
\* one, before it subscribes.
HandlerHolds ==
  \A c \in Clients :
     /\ IF handler[c] = "flushing" THEN Len(event[c]) = 1 ELSE event[c] = <<>>
     /\ handler[c] = "idle" => delivered[c] = <<>> /\ channel[c] = <<>> /\ c \notin subscribers
     /\ joinedAt[c] <= Len(published)

\* An event more at the end of what was published is one more at the end of every
\* later part of it.
LEMMA AppendLemma ==
  ASSUME NEW p \in Seq(Events), NEW x \in Events, NEW j \in 0..Len(p)
  PROVE  SubSeq(Append(p, x), j + 1, Len(Append(p, x))) = Append(SubSeq(p, j + 1, Len(p)), x)
<1> DEFINE q == Append(p, x)  n == Len(p)  a == SubSeq(q, j + 1, n)  b == SubSeq(p, j + 1, n)
<1>1. q \in Seq(Events) /\ Len(q) = n + 1 /\ q[n + 1] = x /\ (\A i \in 1..n : q[i] = p[i]) /\ n \in Nat
  OBVIOUS
<1>2. SubSeq(q, j + 1, n + 1) = SubSeq(q, j + 1, (n + 1) - 1) \o <<q[n + 1]>>
  <2>1. j + 1 \in 1..Len(q) /\ n + 1 \in (j + 1)..Len(q)
    BY <1>1
  <2> HIDE DEF q, n
  <2> QED
    BY <1>1, <2>1, SubSeqRecursiveSecond
<1>3. (n + 1) - 1 = n
  BY <1>1
<1>4. \A i \in (j + 1)..n : p[i] \in Events /\ q[i] \in Events /\ q[i] = p[i]
  BY <1>1
<1>5. /\ b \in Seq(Events) /\ Len(b) = IF j + 1 <= n THEN n - (j + 1) + 1 ELSE 0
      /\ \A i \in 1..(n - (j + 1) + 1) : b[i] = p[(j + 1) + i - 1]
  <2> HIDE DEF q, n
  <2> QED
    BY <1>1, <1>4, SubSeqProperties
<1>6. /\ a \in Seq(Events) /\ Len(a) = IF j + 1 <= n THEN n - (j + 1) + 1 ELSE 0
      /\ \A i \in 1..(n - (j + 1) + 1) : a[i] = q[(j + 1) + i - 1]
  <2> HIDE DEF q, n
  <2> QED
    BY <1>1, <1>4, SubSeqProperties
<1>7. a = b
  <2>1. \A i \in 1..Len(a) : i \in 1..(n - (j + 1) + 1) /\ (j + 1) + i - 1 \in (j + 1)..n
    BY <1>1, <1>6
  <2>2. Len(a) = Len(b) /\ \A i \in 1..Len(a) : a[i] = b[i]
    BY <1>4, <1>5, <1>6, <2>1
  <2> HIDE DEF a, b
  <2> QED
    BY <1>5, <1>6, <2>2, SeqEqual
<1>8. b \o <<x>> = Append(b, x)
  <2> HIDE DEF b
  <2> QED
    BY <1>5
<1> QED
  BY <1>1, <1>2, <1>3, <1>7, <1>8

\* An event on its way from the channel through the handler to the client.
LEMMA MoveLemma ==
  ASSUME NEW d \in Seq(Events), NEW s \in Seq(Events), NEW x \in Events
  PROVE  /\ s # <<>> => d \o <<Head(s)>> \o Tail(s) = d \o <<>> \o s
         /\ Append(d, x) \o <<>> \o s = d \o <<x>> \o s
<1>1. s # <<>> => d \o <<Head(s)>> \o Tail(s) = d \o <<>> \o s
  OBVIOUS
<1>2. Append(d, x) \o <<>> \o s = d \o <<x>> \o s
  OBVIOUS
<1> QED
  BY <1>1, <1>2

\* What the provers need of one client whose variables a step leaves alone.
Unmoved(c) == UNCHANGED <<handler[c], event[c], channel[c], delivered[c], joinedAt[c]>>

Flow == HandlerHolds /\ NothingLostUnlessFull

\* One more event published: every subscriber gets it or is known to have lost it.
LEMMA BroadcastFlow ==
  ASSUME HubTypeOK, Flow, NEW e \in Events, Broadcast(e), UNCHANGED handlerVars
  PROVE  Flow'
<1>0. /\ published \in Seq(Events) /\ published' = Append(published, e) /\ subscribers' = subscribers
      /\ Len(published) \in Nat /\ Len(published') = Len(published) + 1
  BY DEF HubTypeOK, Broadcast
<1>1. ASSUME NEW c \in Clients
      PROVE  /\ handler'[c] = handler[c] /\ event'[c] = event[c] /\ delivered'[c] = delivered[c]
             /\ joinedAt'[c] = joinedAt[c] /\ (c \in connected' <=> c \in connected)
             /\ event[c] \in Seq(Events) /\ delivered[c] \in Seq(Events) /\ channel[c] \in Seq(Events)
             /\ joinedAt[c] \in 0..Len(published)
             /\ c \notin subscribers => channel'[c] = channel[c]
  BY <1>0 DEF handlerVars, Broadcast, HubTypeOK, Flow, HandlerHolds
<1>2. ASSUME NEW c \in Clients, c \in subscribers, c \notin dropped'
      PROVE  c \notin dropped /\ channel'[c] = Append(channel[c], e)
  BY <1>2 DEF Broadcast
<1>3. HandlerHolds'
  BY <1>0, <1>1 DEF Flow, HandlerHolds
<1>4. ASSUME NEW c \in Clients, c \in connected' \ dropped', c \in subscribers'
      PROVE  delivered'[c] \o event'[c] \o channel'[c] = SubSeq(published', joinedAt'[c] + 1, Len(published'))
  <2>1. c \notin dropped /\ c \in subscribers /\ c \in connected /\ channel'[c] = Append(channel[c], e)
    BY <1>0, <1>1, <1>2, <1>4
  <2>2. delivered[c] \o event[c] \o channel[c] = SubSeq(published, joinedAt[c] + 1, Len(published))
    BY <2>1 DEF Flow, NothingLostUnlessFull
  <2>3. /\ delivered[c] \o event[c] \o Append(channel[c], e) = Append(delivered[c] \o event[c] \o channel[c], e)
        /\ SubSeq(Append(published, e), joinedAt[c] + 1, Len(Append(published, e)))
             = Append(SubSeq(published, joinedAt[c] + 1, Len(published)), e)
    <3>1. delivered[c] \in Seq(Events) /\ event[c] \in Seq(Events) /\ channel[c] \in Seq(Events)
          /\ published \in Seq(Events) /\ joinedAt[c] \in 0..Len(published)
      BY <1>0, <1>1
    <3>2. \A d, v, s \in Seq(Events) : d \o v \o Append(s, e) = Append(d \o v \o s, e)
      OBVIOUS
    <3>3. \A p \in Seq(Events) : \A j \in 0..Len(p) :
             SubSeq(Append(p, e), j + 1, Len(Append(p, e))) = Append(SubSeq(p, j + 1, Len(p)), e)
      BY AppendLemma, Zenon
    <3>4. delivered[c] \o event[c] \o Append(channel[c], e) = Append(delivered[c] \o event[c] \o channel[c], e)
      BY <3>1, <3>2, Zenon
    <3>5. SubSeq(Append(published, e), joinedAt[c] + 1, Len(Append(published, e)))
             = Append(SubSeq(published, joinedAt[c] + 1, Len(published)), e)
      BY <3>1, <3>3, Zenon
    <3> QED
      BY <3>4, <3>5
  <2> QED
    BY <1>0, <1>1, <2>1, <2>2, <2>3
<1> QED
  BY <1>3, <1>4 DEF Flow, NothingLostUnlessFull

\* A handler's step moves the events of its own client on, and nobody else's.
LEMMA HandlerFlow ==
  ASSUME HubTypeOK, Flow, NEW c \in Clients, Connect(c) \/ StreamStep(c)
  PROVE  Flow'
<1>0. /\ published' = published /\ connected' = connected /\ dropped' = dropped
      /\ published \in Seq(Events) /\ Len(published) \in Nat
  BY DEF Connect, StreamStep, Receive, Flush, Leave, Subscribe, Unsubscribe, jobVars, hubVars, HubTypeOK
<1>1. ASSUME NEW d \in Clients, d # c
      PROVE  Unmoved(d) /\ (d \in subscribers' <=> d \in subscribers)
  <2>1. CASE Connect(c) \/ Receive(c) \/ Leave(c)
    BY <1>1, <2>1 DEF Connect, Receive, Leave, Subscribe, Unsubscribe, Unmoved, HubTypeOK, jobVars
  <2>2. CASE Flush(c)
    BY <1>1, <2>2 DEF Flush, Unmoved, HubTypeOK, jobVars, hubVars
  <2> QED
    BY <2>1, <2>2 DEF StreamStep
<1> DEFINE Kept(x) ==
      /\ IF handler[x] = "flushing" THEN Len(event[x]) = 1 ELSE event[x] = <<>>
      /\ handler[x] = "idle" => delivered[x] = <<>> /\ channel[x] = <<>> /\ x \notin subscribers
      /\ joinedAt[x] <= Len(published)
      /\ x \in connected \ dropped /\ x \in subscribers =>
           delivered[x] \o event[x] \o channel[x] = SubSeq(published, joinedAt[x] + 1, Len(published))
<1>2. Flow <=> \A x \in Clients : Kept(x)
  BY DEF Flow, HandlerHolds, NothingLostUnlessFull
<1>3. Flow' <=> \A x \in Clients : Kept(x)'
  BY DEF Flow, HandlerHolds, NothingLostUnlessFull
<1>4. ASSUME NEW d \in Clients, d # c PROVE Kept(d)'
  <2>1. Kept(d) /\ Unmoved(d) /\ (d \in subscribers' <=> d \in subscribers)
    BY <1>1, <1>2, <1>4
  <2> QED
    BY <1>0, <2>1 DEF Unmoved
<1>t. /\ event[c] \in Seq(Events) /\ delivered[c] \in Seq(Events) /\ channel[c] \in Seq(Events)
      /\ joinedAt[c] \in Nat /\ Kept(c) /\ c \in DOMAIN handler /\ c \in DOMAIN event /\ c \in DOMAIN delivered
      /\ c \in DOMAIN channel /\ c \in DOMAIN joinedAt
  BY <1>2 DEF HubTypeOK
<1>5. CASE Connect(c)
  <2>1. /\ handler[c] = "idle" /\ handler'[c] = "waiting" /\ event'[c] = event[c] /\ delivered'[c] = delivered[c]
        /\ channel'[c] = channel[c] /\ joinedAt'[c] = Len(published)
    BY <1>5, <1>t DEF Connect, Subscribe
  <2>2. event[c] = <<>> /\ delivered[c] = <<>> /\ channel[c] = <<>>
    BY <1>t, <2>1
  <2>3. SubSeq(published, Len(published) + 1, Len(published)) = <<>> /\ <<>> \o <<>> \o <<>> = <<>>
    BY <1>0, SubSeqEmpty
  <2>4. delivered'[c] \o event'[c] \o channel'[c] = SubSeq(published', joinedAt'[c] + 1, Len(published'))
    BY <1>0, <2>1, <2>2, <2>3
  <2>5. Kept(c)'
    BY <1>0, <2>1, <2>2, <2>4
  <2> QED
    BY <1>3, <1>4, <2>5
<1>6. CASE Receive(c) /\ channel[c] # <<>>
  <2>1. /\ handler[c] = "waiting" /\ handler'[c] = "flushing" /\ event'[c] = <<Head(channel[c])>>
        /\ channel'[c] = Tail(channel[c]) /\ delivered'[c] = delivered[c] /\ joinedAt'[c] = joinedAt[c]
        /\ subscribers' = subscribers
    BY <1>6, <1>t DEF Receive
  <2>2. event[c] = <<>>
    BY <1>t, <2>1
  <2>3. delivered[c] \o <<Head(channel[c])>> \o Tail(channel[c]) = delivered[c] \o <<>> \o channel[c]
    BY <1>6, <1>t, MoveLemma, HeadTailProperties
  <2>4. Len(event'[c]) = 1
    BY <2>1
  <2>5. c \in connected \ dropped /\ c \in subscribers =>
          delivered'[c] \o event'[c] \o channel'[c] = SubSeq(published, joinedAt[c] + 1, Len(published))
    <3>1. c \in connected \ dropped /\ c \in subscribers =>
            delivered[c] \o <<>> \o channel[c] = SubSeq(published, joinedAt[c] + 1, Len(published))
      BY <1>t, <2>2
    <3> QED
      BY <2>1, <2>3, <3>1
  <2>6. Kept(c)'
    BY <1>0, <1>t, <2>1, <2>4, <2>5
  <2> QED
    BY <1>3, <1>4, <2>6
<1>7. CASE Receive(c) /\ channel[c] = <<>>
  <2>1. /\ handler[c] = "waiting" /\ handler'[c] = "leaving" /\ event'[c] = event[c] /\ channel'[c] = channel[c]
        /\ delivered'[c] = delivered[c] /\ joinedAt'[c] = joinedAt[c] /\ subscribers' = subscribers
    BY <1>7, <1>t DEF Receive
  <2> QED
    BY <1>0, <1>t, <1>3, <1>4, <2>1
<1>8. CASE Flush(c)
  <2>1. /\ handler[c] = "flushing" /\ handler'[c] \in {"waiting", "leaving"} /\ event'[c] = <<>>
        /\ channel'[c] = channel[c] /\ joinedAt'[c] = joinedAt[c] /\ subscribers' = subscribers
        /\ c \in connected => delivered'[c] = Append(delivered[c], event[c][1])
    BY <1>8, <1>t DEF Flush, hubVars
  <2>2. event[c][1] \in Events /\ event[c] = <<event[c][1]>>
    <3>1. \A v \in Seq(Events) : Len(v) = 1 => v[1] \in Events /\ v = <<v[1]>>
      OBVIOUS
    <3>2. Len(event[c]) = 1
      BY <1>t, <2>1
    <3> QED
      BY <1>t, <3>1, <3>2
  <2>3. Append(delivered[c], event[c][1]) \o <<>> \o channel[c] = delivered[c] \o <<event[c][1]>> \o channel[c]
    BY <1>t, <2>2, MoveLemma
  <2> QED
    BY <1>0, <1>t, <1>3, <1>4, <2>1, <2>2, <2>3
<1>9. CASE Leave(c)
  <2>1. /\ handler[c] = "leaving" /\ handler'[c] = "gone" /\ event'[c] = event[c] /\ channel'[c] = channel[c]
        /\ delivered'[c] = delivered[c] /\ joinedAt'[c] = joinedAt[c] /\ c \notin subscribers'
    BY <1>9, <1>t DEF Leave, Unsubscribe
  <2> QED
    BY <1>0, <1>t, <1>3, <1>4, <2>1
<1> QED
  BY <1>5, <1>6, <1>7, <1>8, <1>9 DEF StreamStep

\* A client whose channel was never full gets every event from its subscription on,
\* in order, whatever the capacity and however many clients there are: Broadcast,
\* the loop of StreamProgress and the connection lose nothing between them.
THEOREM NothingIsLost == HubSpec => []NothingLostUnlessFull
<1>1. HubInit => Flow
  <2> SUFFICES ASSUME HubInit PROVE Flow
    OBVIOUS
  <2> QED
    BY DEF HubInit, Flow, HandlerHolds, NothingLostUnlessFull
<1>2. HubTypeOK /\ Flow /\ [HubNext]_allVars => Flow'
  <2> SUFFICES ASSUME HubTypeOK, Flow, [HubNext]_allVars PROVE Flow'
    OBVIOUS
  <2>1. CASE Progress \/ Succeed
    BY <2>1, BroadcastFlow DEF Progress, Succeed, Events
  <2>2. CASE Fail \/ EndJob \/ UNCHANGED allVars
    <3>1. UNCHANGED <<published, channel, dropped, handlerVars>> /\ subscribers' \subseteq subscribers
      BY <2>2 DEF Fail, EndJob, Close, allVars, hubVars, jobVars
    <3> QED
      BY <3>1 DEF Flow, HandlerHolds, NothingLostUnlessFull, handlerVars
  <2>3. ASSUME NEW c \in Clients, Connect(c) \/ StreamStep(c) PROVE Flow'
    BY <2>3, HandlerFlow
  <2>4. ASSUME NEW c \in Clients, Disconnect(c) PROVE Flow'
    BY <2>4 DEF Disconnect, Flow, HandlerHolds, NothingLostUnlessFull, hubVars, jobVars
  <2> QED
    BY <2>1, <2>2, <2>3, <2>4 DEF HubNext, JobStep
<1>3. Flow => NothingLostUnlessFull
  BY DEF Flow
<1> QED
  BY <1>1, <1>2, <1>3, HubTypeCorrect, PTL DEF HubSpec
=============================================================================
