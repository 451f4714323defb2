---------------------------- MODULE ProcessingJobs ----------------------------
(***************************************************************************)
(* The structured-processing engine: the job table, the dispatcher thread  *)
(* that hands queued jobs to a pool of two workers, and the run of a       *)
(* translation job in a worker: it walks the blocks of a parsed paper and  *)
(* sends each one that has no saved translation to the model, charging the *)
(* request to the job's budget before it is sent.                          *)
(*                                                                         *)
(* One block is one batch of units here (a request carries at most eight   *)
(* units).  Publication of a block is the subject of BlockTranslation, the *)
(* parsing that precedes translation that of CloudParse.                   *)
(***************************************************************************)
EXTENDS JobTable

CONSTANTS
  NBlocks,       (* blocks of the paper a job translates                   *)
  MaxRequests,   (* deploy ceiling of the requests budget                  *)
  Workers,       (* max_workers of the pool, and of the dispatcher         *)
  MaxResumes,    (* bound: resumes, over all jobs                          *)
  MaxRestarts    (* bound: crashes and restarts of the Web process         *)

ASSUME ProcessingJobsAssumption ==
  /\ NBlocks \in Nat \ {0}
  /\ MaxRequests \in Nat \ {0}
  /\ Workers \in Nat \ {0}
  /\ MaxResumes \in Nat
  /\ MaxRestarts \in Nat

VARIABLES
  requests,    (* durable: model requests charged to a job                 *)
  budget,      (* durable: the job's requests budget                       *)
  saved,       (* durable: blocks whose translation has a checkpoint file  *)
  active,      (* the dispatcher's futures, by job                         *)
  picked,      (* queued jobs the dispatcher read and has not handled yet  *)
  stopping,    (* shutdown() was called                                    *)
  run,         (* the worker thread of a job                               *)
  resumes, restarts,
  late,        (* requests sent since the job's cancellation               *)
  unresolved   (* an outcome is unknown and the user has not resumed since *)

durable  == <<requests, budget, saved>>
dispatch == <<active, picked, stopping>>
bounds   == <<resumes, restarts>>
history  == <<late, unresolved>>
vars == <<jobVars, durable, dispatch, run, bounds, history>>

Blocks == 1..NBlocks

(* Where a worker thread is.  "none": there is no thread; "submitted": in the
   pool, before claim; "scope": claimed; "loop": at block run[j].at;
   "request": inside model.translate, before the charge commits; "charged":
   the charge committed, nothing sent; "flight": waiting for the supplier;
   "ending": finish() comes next; "raised": the future carries an exception;
   "done": it is finished without one. *)
PC == {"none", "submitted", "scope", "loop", "request", "charged", "flight",
       "ending", "raised", "done"}

NoRun == [pc |-> "none", at |-> 1, retried |-> FALSE, failures |-> FALSE,
          outcome |-> "failed"]

Run == [pc : PC, at : 1..(NBlocks + 1), retried : BOOLEAN, failures : BOOLEAN,
        outcome : Terminal]

TypeOK ==
  /\ JobTableTypeOK
  /\ requests \in [Job -> Nat]
  /\ budget \in [Job -> 1..MaxRequests]
  /\ saved \in [Job -> SUBSET Blocks]
  /\ active \subseteq Job
  /\ picked \subseteq Job
  /\ stopping \in BOOLEAN
  /\ run \in [Job -> Run]
  /\ resumes \in 0..MaxResumes
  /\ restarts \in 0..MaxRestarts
  /\ late \in [Job -> Nat]
  /\ unresolved \in [Job -> BOOLEAN]

Init ==
  /\ JobTableInit
  /\ requests = [j \in Job |-> 0]
  /\ budget = [j \in Job |-> 1]
  /\ saved = [j \in Job |-> {}]
  /\ active = {}
  /\ picked = {}
  /\ stopping = FALSE
  /\ run = [j \in Job |-> NoRun]
  /\ resumes = 0
  /\ restarts = 0
  /\ late = [j \in Job |-> 0]
  /\ unresolved = [j \in Job |-> FALSE]

-------------------------------------------------------------------------------
(* The owner's requests and the administrator's. *)

Create(j, b) ==
  /\ InsertJob(j)
  /\ budget' = [budget EXCEPT ![j] = b]
  /\ UNCHANGED <<requests, saved, dispatch, run, bounds, history>>

Cancel(j) ==
  /\ CancelJob(j)
  /\ UNCHANGED <<durable, dispatch, run, bounds, history>>

(* The adjusted budget is the job's cumulative total: what was charged stays
   charged and bounds it from below. *)
AnyBudget(j, b) == TRUE

BudgetCoversUsage(j, b) == b >= requests[j]

Resume(j, b) ==
  /\ resumes < MaxResumes
  /\ BudgetCoversUsage(j, b)
  /\ RequeueJob(j)
  /\ budget' = [budget EXCEPT ![j] = b]
  /\ resumes' = resumes + 1
  /\ late' = [late EXCEPT ![j] = 0]
  /\ unresolved' = [unresolved EXCEPT ![j] = FALSE]
  /\ UNCHANGED <<requests, saved, dispatch, run, restarts>>

UpdateUser(o, value) ==
  /\ SetUserActive(o, value)
  /\ UNCHANGED <<durable, dispatch, run, bounds, history>>

-------------------------------------------------------------------------------
(* The dispatcher thread.  An iteration reaps finished futures, reads the
   queued jobs of active accounts and submits them one by one: what it read
   may be stale when it submits. *)

FinishedCleanly == {"done"}

Finished == {"done", "raised"}

ForgetFailure(j) == UNCHANGED jobVars

OverwriteStatus(j) ==
  status' = [status EXCEPT ![j] = "interrupted"] /\ UNCHANGED <<cancelRequested, userActive>>

(* A job whose future carries an exception is settled by the dispatcher. *)
SettleFailure(j) == FinishJob(j, "interrupted")

Reap(j) ==
  /\ j \in active
  /\ picked = {}
  /\ run[j].pc \in Finished
  /\ IF run[j].pc = "raised" THEN SettleFailure(j) ELSE UNCHANGED jobVars
  /\ active' = active \ {j}
  /\ run' = [run EXCEPT ![j] = NoRun]
  /\ UNCHANGED <<durable, picked, stopping, bounds, history>>

ReadQueue ==
  /\ ~stopping
  /\ picked = {}
  /\ Cardinality(active) < Workers
  /\ picked' = {j \in Queued : userActive[OwnerOf[j]]}
  /\ UNCHANGED <<jobVars, durable, active, stopping, run, bounds, history>>

Submit(j) ==
  /\ ~stopping
  /\ j \in picked
  /\ Cardinality(active) < Workers
  /\ picked' = picked \ {j}
  /\ IF j \in active
     THEN UNCHANGED <<active, run>>
     ELSE /\ active' = active \cup {j}
          /\ run' = [run EXCEPT ![j] = [NoRun EXCEPT !.pc = "submitted"]]
  /\ UNCHANGED <<jobVars, durable, stopping, bounds, history>>

EndIteration ==
  /\ picked # {}
  /\ stopping \/ Cardinality(active) >= Workers
  /\ picked' = {}
  /\ UNCHANGED <<jobVars, durable, active, stopping, run, bounds, history>>

-------------------------------------------------------------------------------
(* The run of job j. *)

At(j, where) == run[j].pc = where

Goto(j, where) == run' = [run EXCEPT ![j].pc = where]

EndWith(j, how) == run' = [run EXCEPT ![j].pc = "ending", ![j].outcome = how]

OutcomeStillCancelling(reason) ==
  IF reason = "processing_cancelled" THEN "cancelling" ELSE "failed"

(* run()'s mapping of the error a check raises. *)
OutcomeOf(reason) == IF reason = "processing_cancelled" THEN "cancelled" ELSE "failed"

(* run() gives up silently when the job it was submitted for is not queued; a
   claim that fails on a locked database leaves its exception in the future. *)
Claim(j) ==
  /\ At(j, "submitted")
  /\ \/ ClaimJob(j) /\ Goto(j, "scope")
     \/ status[j] # "queued" /\ UNCHANGED jobVars /\ Goto(j, "done")
     \/ UNCHANGED jobVars /\ Goto(j, "raised")
  /\ UNCHANGED <<durable, dispatch, bounds, history>>

(* Before the first block: the remaining scope must fit the budget.  A source
   or a profile that changed since the request fails the run as well. *)
ScopeFits(j) == requests[j] + Cardinality(Blocks \ saved[j]) <= budget[j]

CheckScope(j) ==
  /\ At(j, "scope")
  /\ \/ StopReason(j) # "none" /\ EndWith(j, OutcomeOf(StopReason(j)))
     \/ StopReason(j) = "none" /\ ScopeFits(j) /\ Goto(j, "loop")
     \/ EndWith(j, "failed")
  /\ UNCHANGED <<jobVars, durable, dispatch, bounds, history>>

(* The progress checkpoint after a block refuses a row that is not active any
   more, which ends the run. *)
NextBlock(j, failed) ==
  IF status[j] \in Active
  THEN run' = [run EXCEPT ![j].pc = "loop", ![j].at = @ + 1,
                          ![j].failures = @ \/ failed]
  ELSE EndWith(j, "failed")

AlwaysNeedsRequest(j) == TRUE

(* A block with a saved translation needs no request. *)
NeedsRequest(j) == run[j].at \notin saved[j]

(* The block is sent, or passed over when it can be read, or else published
   from its checkpoint: a quota may then fail the block, an I/O error the run. *)
VisitBlock(j) ==
  /\ At(j, "loop")
  /\ run[j].at \in Blocks
  /\ \/ /\ StopReason(j) # "none"
        /\ EndWith(j, OutcomeOf(StopReason(j)))
     \/ /\ StopReason(j) = "none"
        /\ NeedsRequest(j)
        /\ run' = [run EXCEPT ![j].pc = "request", ![j].retried = FALSE]
     \/ /\ StopReason(j) = "none"
        /\ ~NeedsRequest(j)
        /\ EndWith(j, "failed") \/ \E failed \in BOOLEAN : NextBlock(j, failed)
  /\ UNCHANGED <<jobVars, durable, dispatch, bounds, history>>

(* After the last block nothing checks the status again before finish(). *)
Complete(j) ==
  /\ At(j, "loop")
  /\ run[j].at \notin Blocks
  /\ EndWith(j, IF run[j].failures THEN "partial" ELSE "completed")
  /\ UNCHANGED <<jobVars, durable, dispatch, bounds, history>>

(* A check between the block loop and the charge raises.  The first one ends
   the run; the later ones are made inside the block, where job_not_running
   only fails the block and the loop goes on, unless the charging transaction
   saw it first and reported a cancellation. *)
StopBeforeCharge(j) ==
  /\ At(j, "request")
  /\ StopReason(j) # "none"
  /\ \/ EndWith(j, OutcomeOf(StopReason(j)))
     \/ EndWith(j, "cancelled")
     \/ StopReason(j) = "job_not_running" /\ NextBlock(j, TRUE)
  /\ UNCHANGED <<jobVars, durable, dispatch, bounds, history>>

(* The execution-time budget is spent, or the PDF was replaced: any check
   before a request may say so. *)
GiveUp(j) ==
  /\ At(j, "request")
  /\ StopReason(j) = "none"
  /\ EndWith(j, "interrupted") \/ EndWith(j, "failed")
  /\ UNCHANGED <<jobVars, durable, dispatch, bounds, history>>

MayChargeUntilTerminal(j) == status[j] \in Active

MayCharge(j) == status[j] = "running" /\ ~cancelRequested[j]

(* reserve_attempt's transaction: it looks at the row again, not at the
   account, and refuses a charge past the budget. *)
Charge(j) ==
  /\ At(j, "request")
  /\ MayCharge(j)
  /\ IF requests[j] + 1 <= budget[j]
     THEN /\ requests' = [requests EXCEPT ![j] = @ + 1]
          /\ Goto(j, "charged")
     ELSE /\ UNCHANGED requests
          /\ EndWith(j, "failed")
  /\ UNCHANGED <<jobVars, budget, saved, dispatch, bounds, history>>

Send(j) ==
  /\ At(j, "charged")
  /\ Goto(j, "flight")
  /\ late' = [late EXCEPT ![j] = IF cancelRequested[j] THEN @ + 1 ELSE @]
  /\ UNCHANGED <<jobVars, durable, dispatch, bounds, unresolved>>

(* A usable answer: write the unit checkpoint file, publish the block - a quota
   may refuse that - and save the progress; an I/O error ends the run. *)
Accept(j) ==
  /\ At(j, "flight")
  /\ \/ /\ saved' = [saved EXCEPT ![j] = @ \cup {run[j].at}]
        /\ EndWith(j, "failed") \/ \E failed \in BOOLEAN : NextBlock(j, failed)
     \/ /\ UNCHANGED saved
        /\ EndWith(j, "failed")
  /\ UNCHANGED <<jobVars, requests, budget, dispatch, bounds, history>>

(* An answer that cannot be used fails this block only. *)
AnswerInvalid(j) ==
  /\ At(j, "flight")
  /\ NextBlock(j, TRUE)
  /\ UNCHANGED <<jobVars, durable, dispatch, bounds, history>>

(* HTTP 429 is the one rejection that is tried again, once. *)
RateLimited(j) ==
  /\ At(j, "flight")
  /\ IF run[j].retried
     THEN EndWith(j, "failed")
     ELSE run' = [run EXCEPT ![j].pc = "request", ![j].retried = TRUE]
  /\ UNCHANGED <<jobVars, durable, dispatch, bounds, history>>

Rejected(j) ==
  /\ At(j, "flight")
  /\ EndWith(j, "failed")
  /\ UNCHANGED <<jobVars, durable, dispatch, bounds, history>>

(* A timeout, a disconnect or a dead transport process. *)
OutcomeUnknown(j) ==
  /\ At(j, "flight")
  /\ unresolved' = [unresolved EXCEPT ![j] = TRUE]
  /\ EndWith(j, "interrupted")
  /\ UNCHANGED <<jobVars, durable, dispatch, bounds, late>>

(* finish() may itself fail on a locked database: the future then carries the
   exception and the dispatcher settles the job. *)
Finish(j) ==
  /\ At(j, "ending")
  /\ \/ FinishJob(j, run[j].outcome) /\ Goto(j, "done")
     \/ UNCHANGED jobVars /\ Goto(j, "raised")
  /\ UNCHANGED <<durable, dispatch, bounds, history>>

RunStep(j) ==
  \/ Claim(j) \/ CheckScope(j) \/ VisitBlock(j) \/ Complete(j)
  \/ StopBeforeCharge(j) \/ GiveUp(j) \/ Charge(j) \/ Send(j)
  \/ Accept(j) \/ AnswerInvalid(j) \/ RateLimited(j) \/ Rejected(j)
  \/ OutcomeUnknown(j) \/ Finish(j)

-------------------------------------------------------------------------------
(* The Web process stops in order, or dies; starting it recovers the table. *)

Shutdown ==
  /\ ~stopping
  /\ stopping' = TRUE
  /\ UNCHANGED <<jobVars, durable, active, picked, run, bounds, history>>

(* shutdown() then cancels the jobs it finds in the futures, one transaction
   each; a worker thread keeps running until the process is gone. *)
ShutdownCancel(j) ==
  /\ stopping
  /\ j \in active
  /\ CancelJob(j)
  /\ UNCHANGED <<durable, dispatch, run, bounds, history>>

Restart ==
  /\ restarts < MaxRestarts
  /\ restarts' = restarts + 1
  /\ RecoverJobs
  /\ active' = {}
  /\ picked' = {}
  /\ stopping' = FALSE
  /\ run' = [j \in Job |-> NoRun]
  /\ unresolved' = [j \in Job |-> unresolved[j] \/ run[j].pc \in {"charged", "flight"}]
  /\ UNCHANGED <<durable, resumes, late>>

-------------------------------------------------------------------------------

Dispatcher ==
  \/ \E j \in Job : Reap(j) \/ Submit(j)
  \/ ReadQueue
  \/ EndIteration

Next ==
  \/ \E j \in Job, b \in 1..MaxRequests : Create(j, b) \/ Resume(j, b)
  \/ \E j \in Job : Cancel(j) \/ RunStep(j) \/ ShutdownCancel(j)
  \/ \E o \in Owner, value \in BOOLEAN : UpdateUser(o, value)
  \/ Dispatcher
  \/ Shutdown
  \/ Restart

Spec == Init /\ [][Next]_vars

(* The dispatcher thread loops as long as the process is up and a worker
   thread always gets on: a request ends within its deadline, a wait for a
   model slot when a holder's request ends.  Nobody is obliged to resume,
   cancel, enable an account or restart the process. *)
Fairness == WF_vars(Dispatcher) /\ \A j \in Job : WF_vars(RunStep(j))

FairSpec == Spec /\ Fairness

-------------------------------------------------------------------------------
(* Safety.  OneActiveJobPerOwner, QueueBounded and NoStaleCancelFlag are
   JobTable's. *)

(* The charged usage never exceeds the budget, whatever sequence of charges,
   429 retries, crashes and resumes with another budget led there. *)
ChargedWithinBudget == \A j \in Job : requests[j] <= budget[j]

(* "Cancelling stops new requests": after a cancellation, and until the user
   resumes, at most one request leaves - the one whose charge had committed. *)
AtMostOneLateRequest == \A j \in Job : late[j] <= 1

(* A row that blocks its account as running or cancelling has a future that
   will settle it: a worker thread still at work, or one the dispatcher has
   to reap because finish() raised. *)
RunningHasRun ==
  \A j \in Job : status[j] \in {"running", "cancelling"} =>
    j \in active /\ run[j].pc \notin {"none", "submitted", "done"}

(* A step that puts a request of job j on the wire. *)
Sends(j) == run[j].pc = "charged" /\ run'[j].pc = "flight"

(* Once an outcome is unknown - a timeout, or a crash after the charge - no
   request of the job is sent until the user resumes it. *)
NoSilentRetry == [][\A j \in Job : Sends(j) => ~unresolved[j]]_vars

(* A block whose translation was saved is never sent, and paid for, again:
   neither after a resume nor after a crash. *)
SavedNeverResent == [][\A j \in Job : Sends(j) => run[j].at \notin saved[j]]_vars

(* "One active task per user", read of the work itself: no account has two
   worker threads past claim at a time. *)
Working(j) == run[j].pc \notin {"none", "submitted", "done"}

OneRunPerOwner ==
  \A i, j \in Job : (OwnerOf[i] = OwnerOf[j] /\ Working(i) /\ Working(j)) => i = j

(* Liveness. *)

(* A cancellation is settled, unless the process is being stopped. *)
CancellationEnds ==
  \A j \in Job : status[j] = "cancelling" ~> (status[j] \in Terminal \/ stopping)

(* A queued job of an active account leaves the queue: a worker that died, a
   stale read or the other account's jobs do not starve it. *)
QueuedServed ==
  \A j \in Job :
    status[j] = "queued" ~> (status[j] # "queued" \/ ~userActive[OwnerOf[j]] \/ stopping)

===============================================================================
