--------------------------- MODULE MigrationService ---------------------------
(***************************************************************************)
(* The migration service of the backend: StartMigration, the background     *)
(* goroutine it launches, CancelMigration, and the two things that happen   *)
(* around them, the deletion of the project and a crash of the server.      *)
(*                                                                          *)
(* A handler or goroutine is a program counter; a step ends at a database   *)
(* call, a sync.Map operation or a context operation, the points at which   *)
(* other requests can come in between.  The streamer is only its result     *)
(* here (StreamReturns); StreamPipeline models how it comes to it.          *)
(*                                                                          *)
(* A definition whose name ends in "_" and a word is not part of the        *)
(* specification: it is the operation after it with a bug a programmer      *)
(* could have made, and the properties must tell the two apart.             *)
(***************************************************************************)
EXTENDS Naturals, Sequences, FiniteSets

CONSTANTS Jobs,       \* the start requests, and the ids of the rows they create
          LockKeys,   \* values of executionLockKey
          LockKey,    \* the key "src:dst:sourceTable" of each request
          Cancels,    \* the cancel requests
          MaxCrashes  \* bound on server crashes

ASSUME ServiceAssumption == /\ LockKey \in [Jobs -> LockKeys]
                            /\ MaxCrashes \in Nat

VARIABLES startPC,       \* handler of each start request
          jobPC,         \* background goroutine of each job
          cancelPC,      \* handler of each cancel request
          cancelJob,     \* the job a cancel request names
          runningJobs,   \* s.runningJobs: the keys present in the lock map
          cancelFuncs,   \* s.cancelFuncs: jobs with a registered CancelFunc
          ctxDone,       \* jobs whose bgCtx is cancelled
          status,        \* the status column of each job's row
          streamRet,     \* what Streamer.Stream returned
          verdict,       \* the branch the goroutine took after it
          announced,     \* jobs whose Completed event went to the hub
          hubClosed,     \* jobs whose hub.Close has run
          issued,        \* audit and webhook events issued for each job, in order
          lostWrites,    \* history: jobs with a status write the database refused
          projectExists,
          crashes

memory == <<runningJobs, cancelFuncs, ctxDone>>
cancelVars == <<cancelPC, cancelJob>>
streamVars == <<streamRet, verdict, announced>>
history == <<lostWrites, crashes>>
vars == <<startPC, jobPC, cancelPC, cancelJob, runningJobs, cancelFuncs, ctxDone,
          status, streamRet, verdict, announced, hubClosed, issued, lostWrites,
          projectExists, crashes>>

Terminal == {"completed", "failed", "cancelled"}
Statuses == {"none", "pending", "running", "deleted"} \cup Terminal

\* Steps of StartMigration during which the handler owns the execution lock.
LockedSteps == {"locked", "created", "counted"}
StartSteps == {"idle", "checked", "returned", "refused", "killed"} \cup LockedSteps

\* Steps of the goroutine, up to each of its three deferred calls.
WorkingSteps == {"launched", "resolving", "streaming", "returned", "recording", "notifying"}
RegisteredSteps == WorkingSteps \cup {"closingHub", "unregistering"}
LiveSteps == RegisteredSteps \cup {"unlocking"}
JobSteps == {"none", "ended", "killed"} \cup LiveSteps

CancelSteps == {"idle", "read", "loaded", "ok", "refused", "killed"}

\* The job, through its handler or its goroutine, is between LoadOrStore and Delete.
Holds(j) == startPC[j] \in LockedSteps \/ jobPC[j] \in LiveSteps

Active == {j \in Jobs : Holds(j)}

-----------------------------------------------------------------------------
Init == /\ startPC = [j \in Jobs |-> "idle"]
        /\ jobPC = [j \in Jobs |-> "none"]
        /\ cancelPC = [c \in Cancels |-> "idle"]
        /\ cancelJob \in [Cancels -> Jobs]
        /\ runningJobs = {}
        /\ cancelFuncs = {}
        /\ ctxDone = {}
        /\ status = [j \in Jobs |-> "none"]
        /\ streamRet = [j \in Jobs |-> "none"]
        /\ verdict = [j \in Jobs |-> "none"]
        /\ announced = {}
        /\ hubClosed = {}
        /\ issued = [j \in Jobs |-> <<>>]
        /\ lostWrites = {}
        /\ projectExists = TRUE
        /\ crashes = 0

-----------------------------------------------------------------------------
(***************************************************************************)
(* StartMigration                                                           *)
(***************************************************************************)

\* Role, project and connection checks. Any of them may refuse the request;
\* with the project gone they must.
CheckRequest(j) ==
    /\ startPC[j] = "idle"
    /\ \/ projectExists /\ startPC' = [startPC EXCEPT ![j] = "checked"]
       \/ startPC' = [startPC EXCEPT ![j] = "refused"]
    /\ UNCHANGED <<jobPC, cancelVars, memory, status, streamVars, hubClosed, issued, projectExists, history>>

\* Stores the key without looking whether it was there.
AcquireLock_Store(j) ==
    /\ startPC[j] = "checked"
    /\ runningJobs' = runningJobs \cup {LockKey[j]}
    /\ startPC' = [startPC EXCEPT ![j] = "locked"]
    /\ UNCHANGED <<jobPC, cancelVars, cancelFuncs, ctxDone, status, streamVars, hubClosed, issued, projectExists, history>>

\* runningJobs.LoadOrStore, or 409 MIGRATION_ALREADY_RUNNING.
AcquireLock(j) ==
    /\ startPC[j] = "checked"
    /\ \/ /\ LockKey[j] \notin runningJobs
          /\ runningJobs' = runningJobs \cup {LockKey[j]}
          /\ startPC' = [startPC EXCEPT ![j] = "locked"]
       \/ /\ LockKey[j] \in runningJobs
          /\ startPC' = [startPC EXCEPT ![j] = "refused"]
          /\ UNCHANGED runningJobs
    /\ UNCHANGED <<jobPC, cancelVars, cancelFuncs, ctxDone, status, streamVars, hubClosed, issued, projectExists, history>>

\* Forgets the lock on the error path.
CreateRow_Leak(j) ==
    /\ startPC[j] = "locked"
    /\ \/ /\ status' = [status EXCEPT ![j] = "pending"]
          /\ startPC' = [startPC EXCEPT ![j] = "created"]
       \/ /\ startPC' = [startPC EXCEPT ![j] = "refused"]
          /\ UNCHANGED status
    /\ UNCHANGED <<jobPC, cancelVars, memory, streamVars, hubClosed, issued, projectExists, history>>

\* migrationRepo.Create. Nothing ties the row to the project: it is inserted
\* even when the project was deleted after the checks.
CreateRow(j) ==
    /\ startPC[j] = "locked"
    /\ \/ /\ status' = [status EXCEPT ![j] = "pending"]
          /\ startPC' = [startPC EXCEPT ![j] = "created"]
          /\ UNCHANGED runningJobs
       \/ /\ runningJobs' = runningJobs \ {LockKey[j]}
          /\ startPC' = [startPC EXCEPT ![j] = "refused"]
          /\ UNCHANGED status
    /\ UNCHANGED <<jobPC, cancelVars, cancelFuncs, ctxDone, streamVars, hubClosed, issued, projectExists, history>>

\* Forgets the lock on the error path.
CountRows_Leak(j) ==
    /\ startPC[j] = "created"
    /\ \/ projectExists /\ startPC' = [startPC EXCEPT ![j] = "counted"]
       \/ startPC' = [startPC EXCEPT ![j] = "refused"]
    /\ UNCHANGED <<jobPC, cancelVars, memory, status, streamVars, hubClosed, issued, projectExists, history>>

\* streamer.CountSourceRows: looks the source connection up again, connects and
\* counts. The error path gives the lock back and leaves the row as it is.
CountRows(j) ==
    /\ startPC[j] = "created"
    /\ \/ /\ projectExists
          /\ startPC' = [startPC EXCEPT ![j] = "counted"]
          /\ UNCHANGED runningJobs
       \/ /\ runningJobs' = runningJobs \ {LockKey[j]}
          /\ startPC' = [startPC EXCEPT ![j] = "refused"]
    /\ UNCHANGED <<jobPC, cancelVars, cancelFuncs, ctxDone, status, streamVars, hubClosed, issued, projectExists, history>>

\* "started" to audit and webhooks, the CancelFunc registered, the goroutine started.
Launch(j) ==
    /\ startPC[j] = "counted"
    /\ issued' = [issued EXCEPT ![j] = Append(@, "started")]
    /\ cancelFuncs' = cancelFuncs \cup {j}
    /\ jobPC' = [jobPC EXCEPT ![j] = "launched"]
    /\ startPC' = [startPC EXCEPT ![j] = "returned"]
    /\ UNCHANGED <<cancelVars, runningJobs, ctxDone, status, streamVars, hubClosed, projectExists, history>>

-----------------------------------------------------------------------------
(***************************************************************************)
(* The goroutine                                                            *)
(***************************************************************************)

\* Saves the whole row, which inserts it again when it was deleted.
UpdateStatus_Upsert(j, s) ==
    IF j \in ctxDone
    THEN UNCHANGED <<status, lostWrites>>
    ELSE \/ status' = [status EXCEPT ![j] = s] /\ UNCHANGED lostWrites
         \/ lostWrites' = lostWrites \cup {j} /\ UNCHANGED status

\* migrationRepo.UpdateStatus(bgCtx, j, s), its error ignored by every caller.
\* With bgCtx cancelled or the row gone it changes nothing; the database may
\* also refuse the write.
UpdateStatus(j, s) ==
    IF j \in ctxDone \/ status[j] = "deleted"
    THEN UNCHANGED <<status, lostWrites>>
    ELSE \/ status' = [status EXCEPT ![j] = s] /\ UNCHANGED lostWrites
         \/ lostWrites' = lostWrites \cup {j} /\ UNCHANGED status

MarkRunning(j) ==
    /\ jobPC[j] = "launched"
    /\ UpdateStatus(j, "running")
    /\ jobPC' = [jobPC EXCEPT ![j] = "resolving"]
    /\ UNCHANGED <<startPC, cancelVars, memory, streamVars, hubClosed, issued, projectExists, crashes>>

\* An error before streaming leaves the goroutine at once, through its defers.
ResolveConnections_Exit(j) ==
    /\ jobPC[j] = "resolving"
    /\ \/ /\ projectExists /\ j \notin ctxDone
          /\ jobPC' = [jobPC EXCEPT ![j] = "streaming"]
          /\ UNCHANGED streamRet
       \/ /\ jobPC' = [jobPC EXCEPT ![j] = "closingHub"]
          /\ streamRet' = [streamRet EXCEPT ![j] = "error"]
    /\ UNCHANGED <<startPC, cancelVars, memory, status, verdict, announced, hubClosed, issued, projectExists, history>>

\* Stream's own look-ups of the two connections, before anything is read.
ResolveConnections(j) ==
    /\ jobPC[j] = "resolving"
    /\ \/ /\ projectExists /\ j \notin ctxDone
          /\ jobPC' = [jobPC EXCEPT ![j] = "streaming"]
          /\ UNCHANGED streamRet
       \/ /\ jobPC' = [jobPC EXCEPT ![j] = "returned"]
          /\ streamRet' = [streamRet EXCEPT ![j] = "error"]
    /\ UNCHANGED <<startPC, cancelVars, memory, status, verdict, announced, hubClosed, issued, projectExists, history>>

\* Stream returns: nil after broadcasting Completed, or an error. A cancelled
\* context does not force the error, the select may take the closed row channel.
StreamReturns(j) ==
    /\ jobPC[j] = "streaming"
    /\ \/ /\ streamRet' = [streamRet EXCEPT ![j] = "nil"]
          /\ announced' = announced \cup {j}
       \/ /\ streamRet' = [streamRet EXCEPT ![j] = "error"]
          /\ UNCHANGED announced
    /\ jobPC' = [jobPC EXCEPT ![j] = "returned"]
    /\ UNCHANGED <<startPC, cancelVars, memory, status, verdict, hubClosed, issued, projectExists, history>>

\* streamErr # nil, then bgCtx.Err() == context.Canceled, read at this moment.
Classify(j) ==
    /\ jobPC[j] = "returned"
    /\ verdict' = [verdict EXCEPT ![j] = IF streamRet[j] = "nil" THEN "completed"
                                         ELSE IF j \in ctxDone THEN "cancelled"
                                         ELSE "failed"]
    /\ jobPC' = [jobPC EXCEPT ![j] = "recording"]
    /\ UNCHANGED <<startPC, cancelVars, memory, status, streamRet, announced, hubClosed, issued, projectExists, history>>

\* Stores what the stream returned.
RecordOutcome_Raw(j) ==
    /\ jobPC[j] = "recording"
    /\ UpdateStatus(j, streamRet[j])
    /\ jobPC' = [jobPC EXCEPT ![j] = "notifying"]
    /\ UNCHANGED <<startPC, cancelVars, memory, streamVars, hubClosed, issued, projectExists, crashes>>

\* The failed branch has no UpdateStatus.
RecordOutcome_Skip(j) ==
    /\ jobPC[j] = "recording"
    /\ IF verdict[j] = "failed" THEN UNCHANGED <<status, lostWrites>> ELSE UpdateStatus(j, verdict[j])
    /\ jobPC' = [jobPC EXCEPT ![j] = "notifying"]
    /\ UNCHANGED <<startPC, cancelVars, memory, streamVars, hubClosed, issued, projectExists, crashes>>

\* The final UpdateStatus, through the same bgCtx in all three branches.
RecordOutcome(j) ==
    /\ jobPC[j] = "recording"
    /\ UpdateStatus(j, verdict[j])
    /\ jobPC' = [jobPC EXCEPT ![j] = "notifying"]
    /\ UNCHANGED <<startPC, cancelVars, memory, streamVars, hubClosed, issued, projectExists, crashes>>

\* auditService.Log and webhookService.DispatchEvent do not use bgCtx: they are
\* issued whatever happened to the status write.
NotifyOutcome(j) ==
    /\ jobPC[j] = "notifying"
    /\ issued' = [issued EXCEPT ![j] = Append(@, verdict[j])]
    /\ jobPC' = [jobPC EXCEPT ![j] = "closingHub"]
    /\ UNCHANGED <<startPC, cancelVars, memory, status, streamVars, hubClosed, projectExists, history>>

\* The deferred calls, last deferred first.
CloseHub(j) ==
    /\ jobPC[j] = "closingHub"
    /\ hubClosed' = hubClosed \cup {j}
    /\ jobPC' = [jobPC EXCEPT ![j] = "unregistering"]
    /\ UNCHANGED <<startPC, cancelVars, memory, status, streamVars, issued, projectExists, history>>

\* The second defer is missing.
DropCancelFunc_Skip(j) ==
    /\ jobPC[j] = "unregistering"
    /\ jobPC' = [jobPC EXCEPT ![j] = "unlocking"]
    /\ UNCHANGED <<startPC, cancelVars, memory, status, streamVars, hubClosed, issued, projectExists, history>>

DropCancelFunc(j) ==
    /\ jobPC[j] = "unregistering"
    /\ cancelFuncs' = cancelFuncs \ {j}
    /\ jobPC' = [jobPC EXCEPT ![j] = "unlocking"]
    /\ UNCHANGED <<startPC, cancelVars, runningJobs, ctxDone, status, streamVars, hubClosed, issued, projectExists, history>>

ReleaseLock(j) ==
    /\ jobPC[j] = "unlocking"
    /\ runningJobs' = runningJobs \ {LockKey[j]}
    /\ jobPC' = [jobPC EXCEPT ![j] = "ended"]
    /\ UNCHANGED <<startPC, cancelVars, cancelFuncs, ctxDone, status, streamVars, hubClosed, issued, projectExists, history>>

-----------------------------------------------------------------------------
(***************************************************************************)
(* CancelMigration                                                          *)
(***************************************************************************)

\* requireRole, GetByID and the check on the status just read. A row that is
\* not there, and a role that does not suffice, refuse the request.
CancelRead(c) ==
    /\ cancelPC[c] = "idle"
    /\ \/ /\ status[cancelJob[c]] \in {"pending", "running"}
          /\ cancelPC' = [cancelPC EXCEPT ![c] = "read"]
       \/ cancelPC' = [cancelPC EXCEPT ![c] = "refused"]
    /\ UNCHANGED <<startPC, jobPC, cancelJob, memory, status, streamVars, hubClosed, issued, projectExists, history>>

CancelLoad(c) ==
    /\ cancelPC[c] = "read"
    /\ cancelPC' = [cancelPC EXCEPT ![c] = IF cancelJob[c] \in cancelFuncs THEN "loaded" ELSE "refused"]
    /\ UNCHANGED <<startPC, jobPC, cancelJob, memory, status, streamVars, hubClosed, issued, projectExists, history>>

\* cancelFunc(); the handler answers "Migration cancelled".
CancelCall(c) ==
    /\ cancelPC[c] = "loaded"
    /\ ctxDone' = ctxDone \cup {cancelJob[c]}
    /\ cancelPC' = [cancelPC EXCEPT ![c] = "ok"]
    /\ UNCHANGED <<startPC, jobPC, cancelJob, runningJobs, cancelFuncs, status, streamVars, hubClosed, issued, projectExists, history>>

-----------------------------------------------------------------------------
(***************************************************************************)
(* The environment                                                          *)
(***************************************************************************)

\* projectRepo.DeleteProject (and orgRepo.Delete): connections, job rows and
\* project go in one transaction. Running goroutines are not told.
DeleteProject ==
    /\ projectExists
    /\ projectExists' = FALSE
    /\ status' = [j \in Jobs |-> IF status[j] = "none" THEN "none" ELSE "deleted"]
    /\ UNCHANGED <<startPC, jobPC, cancelVars, memory, streamVars, hubClosed, issued, history>>

\* The process dies: handlers, goroutines and both maps go, the rows stay.
\* main starts the server again without looking at them.  ctxDone is kept as
\* history: the contexts are gone and no one reads them again.
Crash ==
    /\ crashes < MaxCrashes
    /\ crashes' = crashes + 1
    /\ startPC' = [j \in Jobs |-> IF startPC[j] \in LockedSteps \cup {"checked"} THEN "killed" ELSE startPC[j]]
    /\ jobPC' = [j \in Jobs |-> IF jobPC[j] \in LiveSteps THEN "killed" ELSE jobPC[j]]
    /\ cancelPC' = [c \in Cancels |-> IF cancelPC[c] \in {"read", "loaded"} THEN "killed" ELSE cancelPC[c]]
    /\ runningJobs' = {}
    /\ cancelFuncs' = {}
    /\ UNCHANGED <<cancelJob, ctxDone, status, streamVars, hubClosed, issued, lostWrites, projectExists>>

HandlerStep(j) == CheckRequest(j) \/ AcquireLock(j) \/ CreateRow(j) \/ CountRows(j) \/ Launch(j)

GoroutineStep(j) == \/ MarkRunning(j) \/ ResolveConnections(j) \/ StreamReturns(j)
                    \/ Classify(j) \/ RecordOutcome(j) \/ NotifyOutcome(j)
                    \/ CloseHub(j) \/ DropCancelFunc(j) \/ ReleaseLock(j)

CancelStep(c) == CancelRead(c) \/ CancelLoad(c) \/ CancelCall(c)

Next == \/ \E j \in Jobs : HandlerStep(j) \/ GoroutineStep(j)
        \/ \E c \in Cancels : CancelStep(c)
        \/ DeleteProject
        \/ Crash

Spec == Init /\ [][Next]_vars

\* The Go scheduler runs every goroutine that can run, and a handler or goroutine
\* never waits on another one; requests, deletions and crashes need not happen.
FairSpec == /\ Spec
            /\ \A j \in Jobs : /\ WF_vars(AcquireLock(j) \/ CreateRow(j) \/ CountRows(j) \/ Launch(j))
                               /\ WF_vars(GoroutineStep(j))
            /\ \A c \in Cancels : WF_vars(CancelLoad(c) \/ CancelCall(c))
-----------------------------------------------------------------------------
(***************************************************************************)
(* Properties                                                               *)
(***************************************************************************)

EventKinds == {"started"} \cup Terminal

\* Every variable has its type.
TypeOK == /\ startPC \in [Jobs -> StartSteps]
          /\ jobPC \in [Jobs -> JobSteps]
          /\ cancelPC \in [Cancels -> CancelSteps]
          /\ cancelJob \in [Cancels -> Jobs]
          /\ runningJobs \in SUBSET LockKeys
          /\ cancelFuncs \in SUBSET Jobs
          /\ ctxDone \in SUBSET Jobs
          /\ status \in [Jobs -> Statuses]
          /\ streamRet \in [Jobs -> {"none", "nil", "error"}]
          /\ verdict \in [Jobs -> {"none"} \cup Terminal]
          /\ announced \in SUBSET Jobs
          /\ hubClosed \in SUBSET Jobs
          /\ issued \in [Jobs -> Seq(EventKinds)]
          /\ lostWrites \in SUBSET Jobs
          /\ projectExists \in BOOLEAN
          /\ crashes \in 0..MaxCrashes

\* The execution lock excludes: two jobs for the same source connection, target
\* connection and source table are never both between LoadOrStore and the Delete
\* that gives the key back, whatever path each took to it.
OneJobPerKey == \A i, j \in Jobs : Holds(i) /\ Holds(j) /\ LockKey[i] = LockKey[j] => i = j

\* The lock map has no residue and no gap: a key is in it exactly while some
\* request or goroutine owns it.  A key left behind would answer 409 for ever.
LockMapExact == runningJobs = {LockKey[j] : j \in Active}

\* CancelMigration reaches exactly the goroutines that are at work: each has its
\* CancelFunc registered until its outcome is recorded and its subscribers are
\* released, and no finished or never started job has one.
CancelFuncsExact == cancelFuncs = {j \in Jobs : jobPC[j] \in RegisteredSteps}

\* What audit log and webhooks are told agrees with the row.  The second event of
\* a job is its outcome, and the row shows the same outcome unless a cancellation
\* or the database stopped the write or the row was deleted.
NotificationsMatchRow ==
    \A j \in Jobs : Len(issued[j]) > 1 =>
        /\ Len(issued[j]) = 2 /\ issued[j][1] = "started"
        /\ status[j] \in {issued[j][2], "deleted"} \/ j \in ctxDone \cup lostWrites

\* Subscribers are released only when the outcome can be read: once hub.Close has
\* run the row is terminal, with the same three exceptions.  Clients fetch the
\* job when their stream ends and do not ask again.
ClosedMeansTerminal ==
    \A j \in hubClosed : status[j] \in Terminal \cup {"deleted"} \/ j \in ctxDone \cup lostWrites

\* The service implements MigrationLifecycle, where a job is active from LoadOrStore
\* to the Delete of its key: a row is written only by the owner of its lock, goes
\* forwards only, keeps its outcome once it has one, and is never brought back
\* after a deletion.
Lifecycle == INSTANCE MigrationLifecycle WITH active <- Active

LifecycleSpec == Lifecycle!Spec

\* No lock is held for ever: every key that is taken is given back, on each of
\* the error paths too.
LockReleased == \A k \in LockKeys : k \in runningJobs ~> k \notin runningJobs

\* Every job whose goroutine was launched reaches a terminal row, unless it was
\* cancelled, a write of it was lost, its row was deleted or the server crashed.
OutcomeRecorded ==
    \A j \in Jobs : jobPC[j] = "launched" ~>
        \/ status[j] \in Terminal \cup {"deleted"}
        \/ j \in ctxDone \cup lostWrites
        \/ jobPC[j] = "killed"

(***************************************************************************)
(* What the repository's documents say and the code does not do             *)
(***************************************************************************)

\* Docs/testing/Phase_5_Migration_Engine.md:88: cancelling a migration "marks job
\* `cancelled`".  A goroutine that took the cancelled branch and ended has left a
\* row saying so (or the row was deleted, or the database refused the write).
CancelMarksCancelled ==
    \A j \in Jobs : jobPC[j] = "ended" /\ verdict[j] = "cancelled" =>
        status[j] \in {"cancelled", "deleted"} \/ j \in lostWrites
=============================================================================
