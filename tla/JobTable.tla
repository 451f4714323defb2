------------------------------- MODULE JobTable -------------------------------
(***************************************************************************)
(* The durable table of structured-processing jobs (processing_jobs), as   *)
(* the operations of ProcessingJobs see it.  Every operation is one        *)
(* "BEGIN IMMEDIATE" transaction of SQLite, hence one atomic fragment      *)
(* here: it constrains jobVars and leaves the rest of a handler's effect   *)
(* (budgets, runs, cloud batches, quota) to the module that uses it.       *)
(*                                                                         *)
(* A job stands for one idempotency key: creating the same request again   *)
(* returns the existing row, whatever its status, and changes nothing.     *)
(***************************************************************************)
EXTENDS Naturals, FiniteSets

CONSTANTS
  Job,         (* idempotency keys: one row each, at most                  *)
  Owner,       (* accounts                                                 *)
  OwnerOf,     (* the account a job belongs to                             *)
  QueueLimit   (* rows that may be 'queued' at once, over all accounts     *)

ASSUME JobTableAssumption ==
  /\ IsFiniteSet(Job)
  /\ OwnerOf \in [Job -> Owner]
  /\ QueueLimit \in Nat \ {0}

VARIABLES
  status,           (* the row's status, "absent" before it is inserted    *)
  cancelRequested,  (* the row's cancel_requested flag                     *)
  userActive        (* users.status = 'active', per account                *)

jobVars == <<status, cancelRequested, userActive>>

Active    == {"queued", "running", "cancelling"}
Terminal  == {"completed", "partial", "failed", "cancelled", "interrupted"}
Resumable == Terminal \ {"completed"}
Status    == {"absent"} \cup Active \cup Terminal

JobTableTypeOK ==
  /\ status \in [Job -> Status]
  /\ cancelRequested \in [Job -> BOOLEAN]
  /\ userActive \in [Owner -> BOOLEAN]

JobTableInit ==
  /\ status = [j \in Job |-> "absent"]
  /\ cancelRequested = [j \in Job |-> FALSE]
  /\ userActive = [o \in Owner |-> TRUE]

-------------------------------------------------------------------------------
(* What the admission transactions read. *)

BusyRunningOnly(o) == \E j \in Job : OwnerOf[j] = o /\ status[j] = "running"

Busy(o) == \E j \in Job : OwnerOf[j] = o /\ status[j] \in Active

Queued == {j \in Job : status[j] = "queued"}

QueueHasRoomOffByOne == Cardinality(Queued) <= QueueLimit

QueueHasRoom == Cardinality(Queued) < QueueLimit

(* The error check_status raises for a run of job j, or "none".  An inactive
   account and a requested cancellation are told apart from a job that is
   merely not running any more. *)
StopReason(j) ==
  IF ~userActive[OwnerOf[j]] \/ cancelRequested[j] \/ status[j] = "cancelling"
  THEN "processing_cancelled"
  ELSE IF status[j] # "running" THEN "job_not_running" ELSE "none"

-------------------------------------------------------------------------------
(* Fragments: one per transaction. *)

InsertJob(j) ==
  /\ status[j] = "absent"
  /\ QueueHasRoom
  /\ ~Busy(OwnerOf[j])
  /\ status' = [status EXCEPT ![j] = "queued"]
  /\ UNCHANGED <<cancelRequested, userActive>>

ClaimJob(j) ==
  /\ status[j] = "queued"
  /\ status' = [status EXCEPT ![j] = "running"]
  /\ UNCHANGED <<cancelRequested, userActive>>

(* Only a 'running' row waits for its run in 'cancelling'; every other row
   that can be cancelled - one that is 'cancelling' already included - is
   'cancelled' at once. *)
CancelJob(j) ==
  /\ status[j] \in Active \cup {"interrupted"}
  /\ status' = [status EXCEPT ![j] = IF @ = "running" THEN "cancelling" ELSE "cancelled"]
  /\ cancelRequested' = [cancelRequested EXCEPT ![j] = TRUE]
  /\ UNCHANGED userActive

RequeueJobKeepingFlag(j) ==
  /\ status[j] \in Resumable
  /\ ~Busy(OwnerOf[j])
  /\ QueueHasRoom
  /\ status' = [status EXCEPT ![j] = "queued"]
  /\ UNCHANGED <<cancelRequested, userActive>>

RequeueJob(j) ==
  /\ status[j] \in Resumable
  /\ ~Busy(OwnerOf[j])
  /\ QueueHasRoom
  /\ status' = [status EXCEPT ![j] = "queued"]
  /\ cancelRequested' = [cancelRequested EXCEPT ![j] = FALSE]
  /\ UNCHANGED userActive

FinishRunningJob(j, outcome) ==
  /\ status' = [status EXCEPT ![j] = IF @ = "running" THEN outcome ELSE @]
  /\ UNCHANGED <<cancelRequested, userActive>>

(* finish() keeps a terminal status and otherwise overwrites any status,
   'queued' included. *)
FinishJob(j, outcome) ==
  /\ status' = [status EXCEPT ![j] = IF @ \in Terminal THEN @ ELSE outcome]
  /\ UNCHANGED <<cancelRequested, userActive>>

RecoverJobsToQueue ==
  /\ status' = [j \in Job |-> IF status[j] \in Active THEN "queued" ELSE status[j]]
  /\ UNCHANGED <<cancelRequested, userActive>>

(* Startup: nothing continues by itself. *)
RecoverJobs ==
  /\ status' = [j \in Job |-> IF status[j] \in Active THEN "interrupted" ELSE status[j]]
  /\ UNCHANGED <<cancelRequested, userActive>>

(* An administrator disables or re-enables an account; its rows stay. *)
SetUserActive(o, value) ==
  /\ userActive[o] # value
  /\ userActive' = [userActive EXCEPT ![o] = value]
  /\ UNCHANGED <<status, cancelRequested>>

(* What any handler may do to the table: one transaction at a time. *)
TableNext ==
  \/ \E j \in Job : \/ InsertJob(j) \/ ClaimJob(j) \/ CancelJob(j) \/ RequeueJob(j)
                     \/ \E outcome \in Terminal : FinishJob(j, outcome)
  \/ RecoverJobs
  \/ \E o \in Owner, value \in BOOLEAN : SetUserActive(o, value)

(* The table as everybody else sees it: whatever the threads and handlers do, a
   row changes in one of these transactions or not at all, so a finished job is
   never rewritten by a late run and a status is never written without its
   guard. *)
TableSpec == JobTableInit /\ [][TableNext]_jobVars

-------------------------------------------------------------------------------
(* What the transactions promise together, whoever calls them. *)

(* At most one job of an account is queued, running or cancelling: create and
   resume refuse a second one in the transaction that would add it. *)
OneActiveJobPerOwner ==
  \A i, j \in Job :
    (OwnerOf[i] = OwnerOf[j] /\ status[i] \in Active /\ status[j] \in Active) => i = j

(* The queue, over all accounts, never exceeds its limit. *)
QueueBounded == Cardinality(Queued) <= QueueLimit

(* A job that is queued or running carries no left-over cancellation: resume
   clears the flag of the earlier run, or the next run would stop at once. *)
NoStaleCancelFlag ==
  \A j \in Job : status[j] \in {"queued", "running"} => ~cancelRequested[j]

===============================================================================
