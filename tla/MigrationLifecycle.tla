-------------------------- MODULE MigrationLifecycle --------------------------
(***************************************************************************)
(* What the migration service promises about a job, whatever its handlers,  *)
(* goroutines, cancellations, deletions and crashes do in between.          *)
(*                                                                          *)
(* A job is active while somebody may still act for it.  Active jobs have   *)
(* different keys.  Only an active job's row changes, and only forwards:    *)
(* none, pending, running, one outcome.  A row that was deleted never comes *)
(* back.  Nothing says that a job gets its outcome: a row may stay behind   *)
(* in pending or running when its job stops being active.                   *)
(***************************************************************************)
CONSTANTS Jobs, LockKey

VARIABLES status,  \* the row of each job, as everybody can read it
          active   \* the jobs somebody acts for

vars == <<status, active>>

Outcomes == {"completed", "failed", "cancelled"}

Init == /\ status = [j \in Jobs |-> "none"]
        /\ active = {}

Admit(j) ==
    /\ j \notin active
    /\ status[j] = "none"
    /\ \A i \in active : LockKey[i] # LockKey[j]
    /\ active' = active \cup {j}
    /\ UNCHANGED status

\* The row of an active job goes one step on.
Advance(j, from, to) ==
    /\ j \in active
    /\ status[j] \in from
    /\ status' = [status EXCEPT ![j] = to]
    /\ UNCHANGED active

Create(j) == Advance(j, {"none"}, "pending")

Begin(j) == Advance(j, {"pending"}, "running")

\* From pending too, when the write of "running" was lost.
Finish(j) == \E outcome \in Outcomes : Advance(j, {"pending", "running"}, outcome)

Retire(j) ==
    /\ j \in active
    /\ active' = active \ {j}
    /\ UNCHANGED status

\* Every row goes at once, those of active jobs too.
Purge ==
    /\ status' = [j \in Jobs |-> IF status[j] = "none" THEN "none" ELSE "deleted"]
    /\ UNCHANGED active

\* Nobody acts for any job any more, and the rows stay as they are.
Restart ==
    /\ active' = {}
    /\ UNCHANGED status

Next == \/ \E j \in Jobs : Admit(j) \/ Create(j) \/ Begin(j) \/ Finish(j) \/ Retire(j)
        \/ Purge
        \/ Restart

Spec == Init /\ [][Next]_vars
=============================================================================
