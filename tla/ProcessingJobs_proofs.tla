------------------------- MODULE ProcessingJobs_proofs -------------------------
(***************************************************************************)
(* Proofs about ProcessingJobs, for every set of jobs and accounts and     *)
(* every value of the bounds.  The invariants of the job table come first: *)
(* they are proved once, of the table's own next-state relation, and the   *)
(* engine inherits them.                                                   *)
(*                                                                         *)
(* TypeOK is not inductive as it stands: that the block counter of a run   *)
(* stays in range depends on where the run is.  AtBlock says so, and is    *)
(* also why a saved block is never sent again.                             *)
(***************************************************************************)
EXTENDS ProcessingJobs, FiniteSetTheorems, TLAPS

(* NoStaleCancelFlag needs to know where a queued job comes from: a row that
   is not inserted yet has no flag either. *)
AbsentIsClean == \A j \in Job : status[j] = "absent" => ~cancelRequested[j]

TableInv ==
  /\ JobTableTypeOK
  /\ OneActiveJobPerOwner
  /\ QueueBounded
  /\ NoStaleCancelFlag
  /\ AbsentIsClean

(* A step of one job's row: the fragments that change the status. *)
RowStep(j) ==
  \/ InsertJob(j) \/ ClaimJob(j) \/ CancelJob(j) \/ RequeueJob(j)
  \/ \E outcome \in Terminal : FinishJob(j, outcome)

LEMMA TableNextCases ==
  ASSUME TableNext
  PROVE  \/ \E j \in Job : RowStep(j)
         \/ RecoverJobs
         \/ \E o \in Owner, value \in BOOLEAN : SetUserActive(o, value)
  BY DEF TableNext, RowStep

LEMMA TableInitType == JobTableInit => JobTableTypeOK
  BY DEF JobTableInit, JobTableTypeOK, Status

LEMMA TableTypeStep ==
  ASSUME JobTableTypeOK, [TableNext]_jobVars
  PROVE  JobTableTypeOK'
<1>1. ASSUME NEW j \in Job, RowStep(j) PROVE JobTableTypeOK'
  <2>1. status' \in [Job -> Status]
    BY <1>1 DEF RowStep, JobTableTypeOK, InsertJob, ClaimJob, CancelJob, RequeueJob,
                FinishJob, Status, Active, Terminal
  <2>2. cancelRequested' \in [Job -> BOOLEAN]
    BY <1>1 DEF RowStep, JobTableTypeOK, InsertJob, ClaimJob, CancelJob, RequeueJob,
                FinishJob
  <2>3. userActive' \in [Owner -> BOOLEAN]
    BY <1>1 DEF RowStep, JobTableTypeOK, InsertJob, ClaimJob, CancelJob, RequeueJob,
                FinishJob
  <2>4. QED BY <2>1, <2>2, <2>3 DEF JobTableTypeOK
<1>2. CASE RecoverJobs
  BY <1>2 DEF RecoverJobs, JobTableTypeOK, Status, Active, Terminal
<1>3. ASSUME NEW o \in Owner, NEW value \in BOOLEAN, SetUserActive(o, value)
      PROVE  JobTableTypeOK'
  BY <1>3 DEF SetUserActive, JobTableTypeOK
<1>4. CASE UNCHANGED jobVars
  BY <1>4 DEF jobVars, JobTableTypeOK
<1>5. QED BY <1>1, <1>2, <1>3, <1>4, TableNextCases

(* The owner's slot: a row becomes active only where the account has no other
   active row, and stays where it is otherwise. *)
LEMMA OneActiveStep ==
  ASSUME JobTableTypeOK, OneActiveJobPerOwner, [TableNext]_jobVars
  PROVE  OneActiveJobPerOwner'
<1>1. ASSUME NEW k \in Job, RowStep(k) PROVE OneActiveJobPerOwner'
  <2>1. CASE InsertJob(k) \/ RequeueJob(k)
    <3>1. \A j \in Job : OwnerOf[j] = OwnerOf[k] => status[j] \notin Active
      BY <2>1 DEF InsertJob, RequeueJob, Busy
    <3>2. \A j \in Job \ {k} : status'[j] = status[j]
      BY <2>1 DEF InsertJob, RequeueJob, JobTableTypeOK
    <3>3. QED BY <3>1, <3>2 DEF OneActiveJobPerOwner
  <2>2. CASE ClaimJob(k) \/ CancelJob(k) \/ \E outcome \in Terminal : FinishJob(k, outcome)
    <3>1. \A j \in Job : status'[j] \in Active => status[j] \in Active
      BY <2>2 DEF ClaimJob, CancelJob, FinishJob, JobTableTypeOK, Active, Terminal, Status
    <3>2. QED BY <3>1 DEF OneActiveJobPerOwner
  <2>3. QED BY <1>1, <2>1, <2>2 DEF RowStep
<1>2. CASE RecoverJobs
  <2>1. \A j \in Job : status'[j] \notin Active
    BY <1>2 DEF RecoverJobs, Active
  <2>2. QED BY <2>1 DEF OneActiveJobPerOwner
<1>3. ASSUME NEW o \in Owner, NEW value \in BOOLEAN, SetUserActive(o, value)
      PROVE  OneActiveJobPerOwner'
  BY <1>3 DEF SetUserActive, OneActiveJobPerOwner
<1>4. CASE UNCHANGED jobVars
  BY <1>4 DEF jobVars, OneActiveJobPerOwner
<1>5. QED BY <1>1, <1>2, <1>3, <1>4, TableNextCases

LEMMA QueuedFinite == IsFiniteSet(Queued)
  BY FS_Subset, JobTableAssumption DEF Queued

LEMMA QueueStep ==
  ASSUME JobTableTypeOK, QueueBounded, [TableNext]_jobVars
  PROVE  QueueBounded'
<1>1. Cardinality(Queued) \in Nat /\ QueueLimit \in Nat
  BY QueuedFinite, FS_CardinalityType, JobTableAssumption
<1>2. SUFFICES ASSUME ~(Queued' \subseteq Queued) PROVE QueueBounded'
  <2>1. CASE Queued' \subseteq Queued
    <3>1. Cardinality(Queued') <= Cardinality(Queued) /\ Cardinality(Queued') \in Nat
      BY <2>1, QueuedFinite, FS_Subset, FS_CardinalityType
    <3>2. QED BY <3>1, <1>1 DEF QueueBounded
  <2>2. QED BY <2>1, <1>2
<1>3. ASSUME NEW k \in Job, RowStep(k) PROVE QueueBounded'
  <2>1. CASE InsertJob(k) \/ RequeueJob(k)
    <3>1. Queued' = Queued \cup {k}
      BY <2>1 DEF InsertJob, RequeueJob, Queued, JobTableTypeOK
    <3>2. Cardinality(Queued) < QueueLimit
      BY <2>1 DEF InsertJob, RequeueJob, QueueHasRoom
    <3>3. Cardinality(Queued') <= Cardinality(Queued) + 1 /\ Cardinality(Queued') \in Nat
      BY <3>1, QueuedFinite, FS_AddElement, FS_CardinalityType, <1>1
    <3>4. QED BY <1>1, <3>2, <3>3 DEF QueueBounded
  <2>2. CASE ClaimJob(k) \/ CancelJob(k) \/ \E outcome \in Terminal : FinishJob(k, outcome)
    <3>1. Queued' \subseteq Queued
      BY <2>2 DEF ClaimJob, CancelJob, FinishJob, JobTableTypeOK, Queued, Terminal, Status, Active
    <3>2. QED BY <3>1, <1>2
  <2>3. QED BY <1>3, <2>1, <2>2 DEF RowStep
<1>4. CASE RecoverJobs
  BY <1>2, <1>4 DEF RecoverJobs, Queued, Active
<1>5. ASSUME NEW o \in Owner, NEW value \in BOOLEAN, SetUserActive(o, value)
      PROVE  QueueBounded'
  BY <1>2, <1>5 DEF SetUserActive, Queued
<1>6. CASE UNCHANGED jobVars
  BY <1>2, <1>6 DEF jobVars, Queued
<1>7. QED BY <1>3, <1>4, <1>5, <1>6, TableNextCases

LEMMA CleanFlagStep ==
  ASSUME JobTableTypeOK, NoStaleCancelFlag, AbsentIsClean, [TableNext]_jobVars
  PROVE  NoStaleCancelFlag' /\ AbsentIsClean'
<1>1. ASSUME NEW k \in Job, RowStep(k) PROVE NoStaleCancelFlag' /\ AbsentIsClean'
  BY <1>1 DEF RowStep, InsertJob, ClaimJob, CancelJob, RequeueJob, FinishJob,
              NoStaleCancelFlag, AbsentIsClean, JobTableTypeOK, Status, Active,
              Terminal, Resumable
<1>2. CASE RecoverJobs
  BY <1>2 DEF RecoverJobs, NoStaleCancelFlag, AbsentIsClean, JobTableTypeOK, Active
<1>3. ASSUME NEW o \in Owner, NEW value \in BOOLEAN, SetUserActive(o, value)
      PROVE  NoStaleCancelFlag' /\ AbsentIsClean'
  BY <1>3 DEF SetUserActive, NoStaleCancelFlag, AbsentIsClean
<1>4. CASE UNCHANGED jobVars
  BY <1>4 DEF jobVars, NoStaleCancelFlag, AbsentIsClean
<1>5. QED BY <1>1, <1>2, <1>3, <1>4, TableNextCases

(* A row is inserted once and never deleted. *)
LEMMA AbsentStep ==
  ASSUME JobTableTypeOK, [TableNext]_jobVars
  PROVE  \A j \in Job : status'[j] = "absent" => status[j] = "absent"
<1>1. ASSUME NEW k \in Job, RowStep(k)
      PROVE  \A j \in Job : status'[j] = "absent" => status[j] = "absent"
  BY <1>1 DEF RowStep, InsertJob, ClaimJob, CancelJob, RequeueJob, FinishJob,
              JobTableTypeOK, Terminal
<1>2. CASE RecoverJobs
  BY <1>2 DEF RecoverJobs, Active
<1>3. ASSUME NEW o \in Owner, NEW value \in BOOLEAN, SetUserActive(o, value)
      PROVE  \A j \in Job : status'[j] = "absent" => status[j] = "absent"
  BY <1>3 DEF SetUserActive
<1>4. CASE UNCHANGED jobVars
  BY <1>4 DEF jobVars
<1>5. QED BY <1>1, <1>2, <1>3, <1>4, TableNextCases

LEMMA TableInvInit == JobTableInit => TableInv
<1> SUFFICES ASSUME JobTableInit PROVE TableInv
  OBVIOUS
<1>1. \A j \in Job : status[j] = "absent" /\ cancelRequested[j] = FALSE
  BY DEF JobTableInit
<1>2. Queued = {}
  BY <1>1 DEF Queued
<1>3. QueueBounded
  BY <1>2, FS_EmptySet, JobTableAssumption DEF QueueBounded
<1>4. QED
  BY <1>1, <1>3, TableInitType
  DEF TableInv, OneActiveJobPerOwner, NoStaleCancelFlag, AbsentIsClean, Active

LEMMA TableInvStep == TableInv /\ [TableNext]_jobVars => TableInv'
  BY TableTypeStep, OneActiveStep, QueueStep, CleanFlagStep DEF TableInv

(* The table keeps its promises whatever sequence of transactions runs. *)
THEOREM TableCorrect == TableSpec => []TableInv
  BY TableInvInit, TableInvStep, PTL DEF TableSpec

-------------------------------------------------------------------------------

(* Between the block loop and the answer a run has a block in hand, and no
   translation of it is saved. *)
AtBlock ==
  \A j \in Job : run[j].pc \in {"request", "charged", "flight"} =>
    run[j].at \in Blocks /\ run[j].at \notin saved[j]

TypeInv == TypeOK /\ AtBlock

LEMMA InitTypeInv == Init => TypeInv
<1> SUFFICES ASSUME Init PROVE TypeInv
  OBVIOUS
<1>1. NoRun \in Run /\ NoRun.pc = "none"
  BY ProcessingJobsAssumption DEF NoRun, Run, PC, Terminal
<1>2. /\ requests \in [Job -> Nat]
      /\ budget \in [Job -> 1..MaxRequests]
      /\ late \in [Job -> Nat]
      /\ resumes \in 0..MaxResumes
      /\ restarts \in 0..MaxRestarts
  BY ProcessingJobsAssumption DEF Init
<1>3. saved \in [Job -> SUBSET Blocks]
  BY DEF Init
<1>4. active \subseteq Job /\ picked \subseteq Job /\ stopping \in BOOLEAN
  BY DEF Init
<1>5. run \in [Job -> Run] /\ AtBlock
  BY <1>1 DEF Init, AtBlock
<1>6. unresolved \in [Job -> BOOLEAN]
  BY DEF Init
<1>7. JobTableTypeOK
  BY TableInitType DEF Init
<1>8. QED
  BY <1>2, <1>3, <1>4, <1>5, <1>6, <1>7 DEF TypeInv, TypeOK

(* Every step of the engine is a step of the job table, or leaves it alone. *)
LEMMA NextIsTableStep ==
  ASSUME TypeOK, [Next]_vars
  PROVE  [TableNext]_jobVars
<1>1. ASSUME NEW j \in Job, NEW b \in 1..MaxRequests, Create(j, b) \/ Resume(j, b)
      PROVE  TableNext
  BY <1>1 DEF Create, Resume, TableNext
<1>2. ASSUME NEW j \in Job, Cancel(j) \/ ShutdownCancel(j) PROVE TableNext
  BY <1>2 DEF Cancel, ShutdownCancel, TableNext
<1>3. ASSUME NEW j \in Job, Finish(j) PROVE [TableNext]_jobVars
  <2>1. run[j].outcome \in Terminal
    BY DEF TypeOK, Run
  <2>2. QED BY <1>3, <2>1 DEF Finish, TableNext
<1>4. ASSUME NEW j \in Job, Reap(j) PROVE [TableNext]_jobVars
  <2>1. "interrupted" \in Terminal
    BY DEF Terminal
  <2>2. QED BY <1>4, <2>1 DEF Reap, SettleFailure, TableNext
<1>5. ASSUME NEW j \in Job, Claim(j) PROVE [TableNext]_jobVars
  BY <1>5 DEF Claim, TableNext
<1>6. ASSUME NEW j \in Job, RunStep(j), ~Claim(j), ~Finish(j) PROVE UNCHANGED jobVars
  BY <1>6 DEF RunStep, CheckScope, VisitBlock, Complete, StopBeforeCharge, GiveUp,
              Charge, Send, Accept, AnswerInvalid, RateLimited, Rejected, OutcomeUnknown
<1>7. ASSUME NEW o \in Owner, NEW value \in BOOLEAN, UpdateUser(o, value) PROVE TableNext
  BY <1>7 DEF UpdateUser, TableNext
<1>8. ASSUME (\E j \in Job : Submit(j)) \/ ReadQueue \/ EndIteration \/ Shutdown
      PROVE  UNCHANGED jobVars
  BY <1>8 DEF Submit, ReadQueue, EndIteration, Shutdown
<1>9. CASE Restart
  BY <1>9 DEF Restart, TableNext
<1>10. CASE UNCHANGED vars
  BY <1>10 DEF vars, jobVars
<1>11. QED
  BY <1>1, <1>2, <1>3, <1>4, <1>5, <1>6, <1>7, <1>8, <1>9, <1>10 DEF Next, Dispatcher

LEMMA OutcomeIsTerminal ==
  \A reason : OutcomeOf(reason) \in Terminal
  BY DEF OutcomeOf, Terminal

(* What ending a run and moving to the next block do to the run's record. *)
LEMMA EndWithLocal ==
  ASSUME TypeOK, NEW j \in Job, NEW how \in Terminal, EndWith(j, how)
  PROVE  /\ run' \in [Job -> Run]
         /\ run'[j].pc = "ending"
         /\ \A k \in Job \ {j} : run'[k] = run[k]
<1>1. run \in [Job -> Run] /\ run[j] \in Run
  BY DEF TypeOK
<1>2. run' = [run EXCEPT ![j].pc = "ending", ![j].outcome = how]
  BY DEF EndWith
<1>3. [run[j] EXCEPT !.pc = "ending", !.outcome = how] \in Run
  BY <1>1 DEF Run, PC
<1>4. run'[j] = [run[j] EXCEPT !.pc = "ending", !.outcome = how]
  BY <1>1, <1>2
<1>5. run'[j].pc = "ending"
  BY <1>1, <1>4 DEF Run
<1>6. QED BY <1>1, <1>2, <1>3, <1>4, <1>5

LEMMA GotoLocal ==
  ASSUME TypeOK, NEW j \in Job, NEW where \in PC, Goto(j, where)
  PROVE  /\ run' \in [Job -> Run]
         /\ run'[j].pc = where
         /\ run'[j].at = run[j].at
         /\ \A k \in Job \ {j} : run'[k] = run[k]
  BY DEF Goto, TypeOK, Run

LEMMA NextBlockLocal ==
  ASSUME TypeOK, NEW j \in Job, run[j].at \in Blocks, NEW failed \in BOOLEAN,
         NextBlock(j, failed)
  PROVE  /\ run' \in [Job -> Run]
         /\ run'[j].pc \in {"loop", "ending"}
         /\ \A k \in Job \ {j} : run'[k] = run[k]
<1>1. CASE status[j] \in Active
  <2>1. run' = [run EXCEPT ![j].pc = "loop", ![j].at = @ + 1, ![j].failures = @ \/ failed]
    BY <1>1 DEF NextBlock
  <2>2. run[j].at + 1 \in 1..(NBlocks + 1)
    BY ProcessingJobsAssumption DEF Blocks
  <2>3. run[j] \in Run
    BY DEF TypeOK
  <2>4. (run[j].failures \/ failed) \in BOOLEAN
    BY <2>3 DEF Run
  <2>5. [run[j] EXCEPT !.pc = "loop", !.at = @ + 1, !.failures = @ \/ failed] \in Run
    BY <2>2, <2>3, <2>4 DEF Run, PC
  <2>6. QED BY <2>1, <2>5 DEF TypeOK
<1>2. CASE status[j] \notin Active
  <2>1. "failed" \in Terminal /\ EndWith(j, "failed")
    BY <1>2 DEF NextBlock, Terminal
  <2>2. QED BY <2>1, EndWithLocal
<1>3. QED BY <1>1, <1>2

(* The run's own step touches the record of job j only, and keeps AtBlock. *)
LEMMA RunStepLocal ==
  ASSUME TypeInv, NEW j \in Job, RunStep(j)
  PROVE  /\ run' \in [Job -> Run]
         /\ \A k \in Job \ {j} : run'[k] = run[k] /\ saved'[k] = saved[k]
         /\ saved' \in [Job -> SUBSET Blocks]
         /\ run'[j].pc \in {"request", "charged", "flight"} =>
              run'[j].at \in Blocks /\ run'[j].at \notin saved'[j]
<1> DEFINE Kept == /\ run' \in [Job -> Run]
                   /\ \A k \in Job \ {j} : run'[k] = run[k]
           Block == run'[j].pc \in {"request", "charged", "flight"} =>
                      run'[j].at \in Blocks /\ run'[j].at \notin saved'[j]
           Good == Kept /\ Block
<1>1. /\ TypeOK
      /\ run \in [Job -> Run] /\ run[j] \in Run
      /\ saved \in [Job -> SUBSET Blocks]
  BY DEF TypeInv, TypeOK
<1>2. run[j].pc \in {"request", "charged", "flight"} =>
        run[j].at \in Blocks /\ run[j].at \notin saved[j]
  BY DEF TypeInv, AtBlock
<1>3. \A how \in Terminal : EndWith(j, how) => Good
  BY <1>1, EndWithLocal
<1>4. \A where \in PC \ {"request", "charged", "flight"} : Goto(j, where) => Good
  BY <1>1, GotoLocal
<1>5. \A where \in {"charged", "flight"} :
        (Goto(j, where) /\ run[j].pc \in {"request", "charged"} /\ UNCHANGED saved) => Good
  BY <1>1, <1>2, GotoLocal DEF PC
<1>6. \A failed \in BOOLEAN :
        (NextBlock(j, failed) /\ run[j].at \in Blocks) => Good
  BY <1>1, NextBlockLocal
<1>7. CASE Claim(j)
  BY <1>7, <1>1, <1>4 DEF Claim, PC, durable
<1>8. CASE CheckScope(j)
  <2>1. OutcomeOf(StopReason(j)) \in Terminal /\ "failed" \in Terminal
    BY OutcomeIsTerminal DEF Terminal
  <2>2. (\E how \in Terminal : EndWith(j, how)) \/ Goto(j, "loop")
    BY <1>8, <2>1 DEF CheckScope
  <2>3. QED BY <1>8, <1>1, <1>3, <1>4, <2>2 DEF CheckScope, PC, durable
<1>9. CASE VisitBlock(j)
  <2>1. OutcomeOf(StopReason(j)) \in Terminal
    BY OutcomeIsTerminal
  <2>2. CASE StopReason(j) # "none"
    BY <1>9, <1>1, <1>3, <2>1, <2>2 DEF VisitBlock, durable
  <2>3. CASE StopReason(j) = "none" /\ NeedsRequest(j)
    <3>1. run' = [run EXCEPT ![j].pc = "request", ![j].retried = FALSE]
      BY <1>9, <2>3 DEF VisitBlock
    <3>2. [run[j] EXCEPT !.pc = "request", !.retried = FALSE] \in Run
      BY <1>1 DEF Run, PC
    <3>3. run'[j].at = run[j].at
      BY <1>1, <3>1 DEF Run
    <3>4. Kept
      BY <1>1, <3>1, <3>2
    <3>5. QED BY <1>9, <1>1, <2>3, <3>3, <3>4 DEF VisitBlock, NeedsRequest, durable
  <2>4. CASE StopReason(j) = "none" /\ ~NeedsRequest(j)
    <3>1. /\ EndWith(j, "failed") \/ \E failed \in BOOLEAN : NextBlock(j, failed)
          /\ run[j].at \in Blocks
      BY <1>9, <2>4 DEF VisitBlock
    <3>2. Good
      BY <3>1, <1>3, <1>6 DEF Terminal
    <3>3. QED BY <1>9, <1>1, <3>2 DEF VisitBlock, durable
  <2>5. QED BY <2>2, <2>3, <2>4
<1>10. CASE Complete(j)
  <2>1. (IF run[j].failures THEN "partial" ELSE "completed") \in Terminal
    BY DEF Terminal
  <2>2. QED BY <1>10, <1>1, <1>3, <2>1 DEF Complete, durable
<1>11. CASE StopBeforeCharge(j)
  <2>1. run[j].at \in Blocks
    BY <1>11, <1>2 DEF StopBeforeCharge, At
  <2>2. OutcomeOf(StopReason(j)) \in Terminal /\ {"cancelled", "failed"} \subseteq Terminal
    BY OutcomeIsTerminal DEF Terminal
  <2>3. QED BY <1>11, <1>1, <1>3, <1>6, <2>1, <2>2 DEF StopBeforeCharge, durable
<1>12. CASE GiveUp(j)
  BY <1>12, <1>1, <1>3 DEF GiveUp, Terminal, durable
<1>13. CASE Charge(j)
  BY <1>13, <1>1, <1>3, <1>5 DEF Charge, At, Terminal
<1>14. CASE Send(j)
  BY <1>14, <1>1, <1>5 DEF Send, At, durable
<1>15. CASE Accept(j)
  <2>1. run[j].at \in Blocks
    BY <1>15, <1>2 DEF Accept, At
  <2>2. saved' \in [Job -> SUBSET Blocks] /\ \A k \in Job \ {j} : saved'[k] = saved[k]
    BY <1>15, <1>1, <2>1 DEF Accept
  <2>3. QED BY <1>15, <1>3, <1>6, <2>1, <2>2 DEF Accept, Terminal
<1>16. CASE AnswerInvalid(j)
  <2>1. run[j].at \in Blocks
    BY <1>16, <1>2 DEF AnswerInvalid, At
  <2>2. QED BY <1>16, <1>1, <1>6, <2>1 DEF AnswerInvalid, durable
<1>17. CASE RateLimited(j)
  <2>1. CASE run[j].retried
    BY <1>17, <1>1, <1>3, <2>1 DEF RateLimited, Terminal, durable
  <2>2. CASE ~run[j].retried
    <3>1. run' = [run EXCEPT ![j].pc = "request", ![j].retried = TRUE]
      BY <1>17, <2>2 DEF RateLimited
    <3>2. [run[j] EXCEPT !.pc = "request", !.retried = TRUE] \in Run
      BY <1>1 DEF Run, PC
    <3>3. run'[j].at = run[j].at
      BY <1>1, <3>1 DEF Run
    <3>4. QED BY <1>17, <1>1, <1>2, <3>1, <3>2, <3>3 DEF RateLimited, At, durable
  <2>3. QED BY <2>1, <2>2
<1>18. CASE Rejected(j)
  BY <1>18, <1>1, <1>3 DEF Rejected, Terminal, durable
<1>19. CASE OutcomeUnknown(j)
  BY <1>19, <1>1, <1>3 DEF OutcomeUnknown, Terminal, durable
<1>20. CASE Finish(j)
  BY <1>20, <1>1, <1>4 DEF Finish, PC, durable
<1>21. QED
  BY <1>7, <1>8, <1>9, <1>10, <1>11, <1>12, <1>13, <1>14, <1>15, <1>16, <1>17, <1>18,
     <1>19, <1>20 DEF RunStep

LEMMA TypeInvStep == TypeInv /\ [Next]_vars => TypeInv'
<1> SUFFICES ASSUME TypeInv, [Next]_vars PROVE TypeInv'
  OBVIOUS
<1> USE DEF durable, dispatch, bounds, history
<1>1. TypeOK /\ AtBlock
  BY DEF TypeInv
<1>2. JobTableTypeOK'
  BY <1>1, NextIsTableStep, TableTypeStep DEF TypeOK
<1>3. ASSUME NEW j \in Job, NEW b \in 1..MaxRequests, Create(j, b) \/ Resume(j, b)
      PROVE  TypeInv'
  <2>1. /\ UNCHANGED <<requests, saved, active, picked, stopping, run, restarts>>
        /\ budget' = [budget EXCEPT ![j] = b]
    BY <1>3 DEF Create, Resume
  <2>2. resumes' \in 0..MaxResumes
    BY <1>1, <1>3, ProcessingJobsAssumption DEF Create, Resume, TypeOK
  <2>2a. /\ late' = late \/ late' = [late EXCEPT ![j] = 0]
         /\ unresolved' = unresolved \/ unresolved' = [unresolved EXCEPT ![j] = FALSE]
    BY <1>3 DEF Create, Resume
  <2>2b. late' \in [Job -> Nat]
    BY <1>1, <2>2a DEF TypeOK
  <2>3. unresolved' \in [Job -> BOOLEAN]
    BY <1>1, <2>2a DEF TypeOK
  <2>4. budget' \in [Job -> 1..MaxRequests]
    BY <1>1, <2>1 DEF TypeOK
  <2>5. AtBlock'
    BY <1>1, <2>1 DEF AtBlock
  <2>6. TypeOK'
    BY <1>1, <1>2, <2>1, <2>2, <2>2b, <2>3, <2>4 DEF TypeOK
  <2>7. QED BY <2>5, <2>6 DEF TypeInv
<1>4. ASSUME NEW j \in Job, Cancel(j) \/ ShutdownCancel(j) PROVE TypeInv'
  BY <1>1, <1>2, <1>4 DEF Cancel, ShutdownCancel, TypeInv, TypeOK, AtBlock
<1>5. ASSUME NEW j \in Job, RunStep(j) PROVE TypeInv'
  <2>1. /\ UNCHANGED <<budget, active, picked, stopping, resumes, restarts>>
        /\ requests' = requests \/ Charge(j)
        /\ late' = late \/ Send(j)
        /\ unresolved' = unresolved \/ OutcomeUnknown(j)
    BY <1>5
    DEF RunStep, Claim, CheckScope, VisitBlock, Complete, StopBeforeCharge, GiveUp,
        Charge, Send, Accept, AnswerInvalid, RateLimited, Rejected, OutcomeUnknown, Finish
  <2>1a. requests' \in [Job -> Nat]
    BY <1>1, <2>1 DEF Charge, TypeOK
  <2>1b. late' \in [Job -> Nat]
    BY <1>1, <2>1 DEF Send, TypeOK
  <2>1c. unresolved' \in [Job -> BOOLEAN]
    BY <1>1, <2>1 DEF OutcomeUnknown, TypeOK
  <2>2. /\ run' \in [Job -> Run]
        /\ \A k \in Job \ {j} : run'[k] = run[k] /\ saved'[k] = saved[k]
        /\ saved' \in [Job -> SUBSET Blocks]
        /\ run'[j].pc \in {"request", "charged", "flight"} =>
             run'[j].at \in Blocks /\ run'[j].at \notin saved'[j]
    BY <1>5, RunStepLocal
  <2>3. AtBlock'
    BY <1>1, <2>2 DEF AtBlock, Blocks
  <2>4. TypeOK'
    BY <1>1, <1>2, <2>1, <2>1a, <2>1b, <2>1c, <2>2 DEF TypeOK, Blocks
  <2>5. QED BY <2>3, <2>4 DEF TypeInv
<1>6. ASSUME NEW o \in Owner, NEW value \in BOOLEAN, UpdateUser(o, value) PROVE TypeInv'
  BY <1>1, <1>2, <1>6 DEF UpdateUser, TypeInv, TypeOK, AtBlock
<1>7. ASSUME NEW j \in Job, Reap(j) PROVE TypeInv'
  <2>1. NoRun \in Run /\ NoRun.pc = "none"
    BY ProcessingJobsAssumption DEF NoRun, Run, PC, Terminal
  <2>2. run' = [run EXCEPT ![j] = NoRun] /\ active' = active \ {j}
    BY <1>7 DEF Reap
  <2>3. run' \in [Job -> Run] /\ AtBlock'
    BY <1>1, <1>7, <2>1, <2>2 DEF Reap, TypeOK, AtBlock
  <2>4. QED BY <1>1, <1>2, <1>7, <2>2, <2>3 DEF Reap, TypeInv, TypeOK
<1>8. ASSUME NEW j \in Job, Submit(j) PROVE TypeInv'
  <2>0. NoRun \in Run /\ "submitted" \in PC
    BY ProcessingJobsAssumption DEF NoRun, Run, PC, Terminal
  <2>1. [NoRun EXCEPT !.pc = "submitted"] \in Run
    BY <2>0 DEF Run
  <2>2. [NoRun EXCEPT !.pc = "submitted"].pc = "submitted"
    BY DEF NoRun
  <2>3. UNCHANGED saved /\ active' \subseteq Job /\ picked' \subseteq Job
    BY <1>1, <1>8 DEF Submit, TypeOK
  <2>4. run' = run \/ run' = [run EXCEPT ![j] = [NoRun EXCEPT !.pc = "submitted"]]
    BY <1>8 DEF Submit
  <2>5. run' \in [Job -> Run]
    BY <1>1, <2>1, <2>4 DEF TypeOK
  <2>6. AtBlock'
    BY <1>1, <2>2, <2>3, <2>4 DEF TypeOK, AtBlock
  <2>7. QED BY <1>1, <1>2, <1>8, <2>3, <2>5, <2>6 DEF Submit, TypeInv, TypeOK
<1>9. CASE ReadQueue \/ EndIteration \/ Shutdown
  BY <1>1, <1>2, <1>9 DEF ReadQueue, EndIteration, Shutdown, TypeInv, TypeOK, AtBlock, Queued
<1>10. CASE Restart
  <2>1. NoRun \in Run /\ NoRun.pc = "none"
    BY ProcessingJobsAssumption DEF NoRun, Run, PC, Terminal
  <2>2. run' \in [Job -> Run] /\ AtBlock'
    BY <1>10, <2>1 DEF Restart, AtBlock
  <2>3. unresolved' \in [Job -> BOOLEAN]
    BY <1>1, <1>10 DEF Restart, TypeOK
  <2>4. restarts' \in 0..MaxRestarts
    BY <1>1, <1>10, ProcessingJobsAssumption DEF Restart, TypeOK
  <2>5. QED BY <1>1, <1>2, <1>10, <2>2, <2>3, <2>4 DEF Restart, TypeInv, TypeOK
<1>11. CASE UNCHANGED vars
  BY <1>1, <1>2, <1>11 DEF vars, TypeInv, TypeOK, AtBlock
<1>12. QED
  BY <1>3, <1>4, <1>5, <1>6, <1>7, <1>8, <1>9, <1>10, <1>11 DEF Next, Dispatcher

(* Every variable keeps its type, and a run that is about to send, or waits for
   an answer, has a block in hand whose translation is not saved. *)
THEOREM TypeCorrect == Spec => []TypeInv
  BY InitTypeInv, TypeInvStep, PTL DEF Spec

(* In particular no handler, thread or restart leaves a row, a budget or
   a thread of the engine outside of its type. *)
THEOREM TypesKept == Spec => []TypeOK
<1>1. TypeInv => TypeOK
  BY DEF TypeInv
<1>2. QED BY <1>1, TypeCorrect, PTL

(* The engine is an implementation of the job table: it adds threads, budgets
   and blocks, and changes a row in one of the table's transactions only. *)
THEOREM ImplementsTable == Spec => TableSpec
<1>1. Init => JobTableInit
  BY DEF Init
<1>2. TypeInv /\ [Next]_vars => [TableNext]_jobVars
  BY NextIsTableStep DEF TypeInv
<1>3. QED BY <1>1, <1>2, TypeCorrect, PTL DEF Spec, TableSpec

(* "One active task per user", read of the table; the queue limit; and that
   a job is never queued or running with an old cancellation. *)
THEOREM TableInvariants ==
  Spec => [](OneActiveJobPerOwner /\ QueueBounded /\ NoStaleCancelFlag)
<1>1. TableInv => OneActiveJobPerOwner /\ QueueBounded /\ NoStaleCancelFlag
  BY DEF TableInv
<1>2. QED BY <1>1, ImplementsTable, TableCorrect, PTL

(* The queue stays within its limit, whatever create and resume race with: both
   count inside the transaction that inserts or requeues. *)
THEOREM QueueKeepsItsLimit == Spec => []QueueBounded
BY TableInvariants, PTL

(* No job waits or runs with the cancellation of an earlier run: resume clears
   the flag in the transaction that requeues. *)
THEOREM CancellationIsNotInherited == Spec => []NoStaleCancelFlag
BY TableInvariants, PTL

-------------------------------------------------------------------------------
(* A saved block is never sent again: it follows from AtBlock, since a request
   leaves from "charged" only. *)
THEOREM SavedBlocksStaySaved == Spec => SavedNeverResent
<1>1. TypeInv => (\A j \in Job : Sends(j) => run[j].at \notin saved[j])
  BY DEF TypeInv, AtBlock, Sends
<1>2. TypeInv /\ [Next]_vars => [\A j \in Job : Sends(j) => run[j].at \notin saved[j]]_vars
  BY <1>1
<1>3. QED BY <1>2, TypeCorrect, PTL DEF Spec, SavedNeverResent

-------------------------------------------------------------------------------
(* The budget.  A row starts with nothing charged, which is why the budget it
   is created with covers its usage. *)

BudgetInv ==
  /\ ChargedWithinBudget
  /\ \A j \in Job : status[j] = "absent" => requests[j] = 0

(* Who writes usage and budget. *)
LEMMA BudgetCases ==
  ASSUME [Next]_vars
  PROVE  \/ \E j \in Job, b \in 1..MaxRequests : Create(j, b) \/ Resume(j, b)
         \/ \E j \in Job : Charge(j)
         \/ UNCHANGED <<requests, budget>>
<1> USE DEF durable, dispatch, bounds, history
<1>1. CASE UNCHANGED vars \/ Shutdown \/ Restart \/ Dispatcher
  BY <1>1 DEF vars, Shutdown, Restart, Dispatcher, Reap, Submit, ReadQueue, EndIteration
<1>2. ASSUME NEW j \in Job, Cancel(j) \/ ShutdownCancel(j)
      PROVE  UNCHANGED <<requests, budget>>
  BY <1>2 DEF Cancel, ShutdownCancel
<1>3. ASSUME NEW o \in Owner, NEW value \in BOOLEAN, UpdateUser(o, value)
      PROVE  UNCHANGED <<requests, budget>>
  BY <1>3 DEF UpdateUser
<1>4. ASSUME NEW j \in Job, RunStep(j), ~Charge(j)
      PROVE  UNCHANGED <<requests, budget>>
  BY <1>4 DEF RunStep, Claim, CheckScope, VisitBlock, Complete, StopBeforeCharge, GiveUp, Send,
              Accept, AnswerInvalid, RateLimited, Rejected, OutcomeUnknown, Finish
<1>5. QED BY <1>1, <1>2, <1>3, <1>4 DEF Next

LEMMA BudgetStep == TypeInv /\ BudgetInv /\ [Next]_vars => BudgetInv'
<1> SUFFICES ASSUME TypeInv, BudgetInv, [Next]_vars PROVE BudgetInv'
  OBVIOUS
<1>1. /\ TypeOK
      /\ requests \in [Job -> Nat] /\ budget \in [Job -> 1..MaxRequests]
  BY DEF TypeInv, TypeOK
<1>2. \A j \in Job : status'[j] = "absent" => status[j] = "absent"
  BY <1>1, NextIsTableStep, AbsentStep DEF TypeOK
<1>3. ASSUME NEW j \in Job, NEW b \in 1..MaxRequests, Create(j, b) PROVE BudgetInv'
  <2>1. requests[j] = 0 /\ requests' = requests /\ budget' = [budget EXCEPT ![j] = b]
    BY <1>3 DEF BudgetInv, Create, InsertJob
  <2>2. QED BY <1>1, <1>2, <2>1 DEF BudgetInv, ChargedWithinBudget
<1>4. ASSUME NEW j \in Job, NEW b \in 1..MaxRequests, Resume(j, b) PROVE BudgetInv'
  <2>1. requests[j] <= b /\ requests' = requests /\ budget' = [budget EXCEPT ![j] = b]
    BY <1>1, <1>4 DEF Resume, BudgetCoversUsage
  <2>2. QED BY <1>1, <1>2, <2>1 DEF BudgetInv, ChargedWithinBudget
<1>5. ASSUME NEW j \in Job, Charge(j) PROVE BudgetInv'
  <2>1. status[j] = "running" /\ UNCHANGED <<jobVars, budget>>
    BY <1>5 DEF Charge, MayCharge
  <2>2. CASE requests[j] + 1 <= budget[j]
    <3>1. requests' = [requests EXCEPT ![j] = @ + 1]
      BY <1>5, <2>2 DEF Charge
    <3>2. QED BY <1>1, <2>1, <2>2, <3>1 DEF BudgetInv, ChargedWithinBudget, jobVars
  <2>3. CASE ~(requests[j] + 1 <= budget[j])
    BY <1>5, <2>1, <2>3 DEF Charge, BudgetInv, ChargedWithinBudget, jobVars
  <2>4. QED BY <2>2, <2>3
<1>6. CASE UNCHANGED <<requests, budget>>
  BY <1>2, <1>6 DEF BudgetInv, ChargedWithinBudget
<1>7. QED BY <1>3, <1>4, <1>5, <1>6, BudgetCases

(* "A task never exceeds its cumulative budget", over charges, retries,
   crashes and resumes with another budget. *)
THEOREM BudgetKept == Spec => []ChargedWithinBudget
<1>1. Init => BudgetInv
  BY DEF Init, BudgetInv, ChargedWithinBudget
<1>2. BudgetInv => ChargedWithinBudget
  BY DEF BudgetInv
<1>3. QED BY <1>1, <1>2, BudgetStep, TypeCorrect, PTL DEF Spec

-------------------------------------------------------------------------------
(* The account's slot.  RunningHasRun alone is not inductive: that a row which
   is claimed has a future needs that every thread has one, and that a thread
   is only ever started for a row that exists. *)

SlotInv ==
  /\ RunningHasRun
  /\ \A j \in Job : run[j].pc # "none" => j \in active
  /\ \A j \in Job : run[j].pc # "none" \/ j \in picked => status[j] # "absent"

(* A run between claim and finish() stays there, or ends with finish(). *)
LEMMA RunStepAtWork ==
  ASSUME TypeInv, NEW j \in Job, RunStep(j), ~Claim(j), ~Finish(j)
  PROVE  /\ UNCHANGED <<jobVars, active, picked>>
         /\ run[j].pc \in {"scope", "loop", "request", "charged", "flight"}
         /\ run'[j].pc \in {"loop", "request", "charged", "flight", "ending"}
         /\ run'[j].pc = "charged" => Charge(j)
         /\ run' \in [Job -> Run] /\ \A k \in Job \ {j} : run'[k] = run[k]
<1>1. TypeOK /\ AtBlock /\ run \in [Job -> Run] /\ run[j] \in Run
  BY DEF TypeInv, TypeOK
<1>2. run' \in [Job -> Run] /\ \A k \in Job \ {j} : run'[k] = run[k]
  BY RunStepLocal
<1>3. \A how \in Terminal : EndWith(j, how) => run'[j].pc = "ending"
  BY <1>1, EndWithLocal
<1>4. \A where \in PC : Goto(j, where) => run'[j].pc = where
  BY <1>1, GotoLocal
<1>5. \A failed \in BOOLEAN :
        NextBlock(j, failed) /\ (run[j].pc \in {"request", "flight"} \/ run[j].at \in Blocks)
          => run'[j].pc \in {"loop", "ending"}
  BY <1>1, NextBlockLocal DEF AtBlock
<1>6. \A reason : OutcomeOf(reason) \in Terminal
  BY OutcomeIsTerminal
<1>7. UNCHANGED <<jobVars, active, picked>>
  BY DEF RunStep, CheckScope, VisitBlock, Complete, StopBeforeCharge, GiveUp, Charge,
         Send, Accept, AnswerInvalid, RateLimited, Rejected, OutcomeUnknown, dispatch
<1>8. run[j].pc \in {"scope", "loop", "request", "charged", "flight"}
  BY DEF RunStep, At, CheckScope, VisitBlock, Complete, StopBeforeCharge, GiveUp, Charge,
         Send, Accept, AnswerInvalid, RateLimited, Rejected, OutcomeUnknown
<1>9. /\ run'[j].pc \in {"loop", "request", "charged", "flight", "ending"}
      /\ run'[j].pc = "charged" => Charge(j)
  <2>1. CASE CheckScope(j)
    BY <2>1, <1>3, <1>4, <1>6 DEF CheckScope, Terminal, PC
  <2>2. CASE VisitBlock(j)
    <3>1. run' = [run EXCEPT ![j].pc = "request", ![j].retried = FALSE]
            => run'[j].pc = "request"
      BY <1>1 DEF Run
    <3>2. \/ run' = [run EXCEPT ![j].pc = "request", ![j].retried = FALSE]
          \/ \E how \in Terminal : EndWith(j, how)
          \/ \E failed \in BOOLEAN : NextBlock(j, failed) /\ run[j].at \in Blocks
      BY <2>2, <1>6 DEF VisitBlock, Terminal
    <3>3. QED BY <3>1, <3>2, <1>3, <1>5
  <2>3. CASE Complete(j)
    BY <2>3, <1>3 DEF Complete, Terminal
  <2>4. CASE StopBeforeCharge(j)
    <3>1. \/ \E how \in Terminal : EndWith(j, how)
          \/ NextBlock(j, TRUE) /\ run[j].pc = "request"
      BY <2>4, <1>6 DEF StopBeforeCharge, At, Terminal
    <3>2. QED BY <3>1, <1>3, <1>5
  <2>5. CASE GiveUp(j) \/ Rejected(j) \/ OutcomeUnknown(j)
    BY <2>5, <1>3 DEF GiveUp, Rejected, OutcomeUnknown, Terminal
  <2>6. CASE Charge(j)
    BY <2>6, <1>3, <1>4 DEF Charge, Terminal, PC
  <2>7. CASE Send(j)
    BY <2>7, <1>4 DEF Send, PC
  <2>8. CASE Accept(j) \/ AnswerInvalid(j)
    BY <2>8, <1>3, <1>5 DEF Accept, AnswerInvalid, At, Terminal
  <2>9. CASE RateLimited(j)
    <3>1. run' = [run EXCEPT ![j].pc = "request", ![j].retried = TRUE]
            => run'[j].pc = "request"
      BY <1>1 DEF Run
    <3>2. QED BY <2>9, <3>1, <1>3 DEF RateLimited, Terminal
  <2>10. QED
    BY <2>1, <2>2, <2>3, <2>4, <2>5, <2>6, <2>7, <2>8, <2>9 DEF RunStep
<1>10. QED BY <1>2, <1>7, <1>8, <1>9

LEMMA ClaimLocal ==
  ASSUME TypeInv, NEW j \in Job, Claim(j)
  PROVE  /\ UNCHANGED <<active, picked>> /\ run[j].pc = "submitted"
         /\ \/ run'[j].pc = "scope" /\ ClaimJob(j)
            \/ run'[j].pc = "done" /\ status[j] # "queued" /\ UNCHANGED jobVars
            \/ run'[j].pc = "raised" /\ UNCHANGED jobVars
         /\ \A k \in Job \ {j} : run'[k] = run[k]
<1>1. \A where \in PC : Goto(j, where) =>
        run'[j].pc = where /\ \A k \in Job \ {j} : run'[k] = run[k]
  BY GotoLocal DEF TypeInv
<1>2. QED BY <1>1 DEF Claim, At, PC, dispatch

LEMMA FinishLocal ==
  ASSUME TypeInv, NEW j \in Job, Finish(j)
  PROVE  /\ UNCHANGED <<active, picked>> /\ run[j].pc = "ending"
         /\ \/ run'[j].pc = "done" /\ status'[j] \in Terminal
               /\ \A k \in Job \ {j} : status'[k] = status[k]
            \/ run'[j].pc = "raised" /\ UNCHANGED jobVars
         /\ \A k \in Job \ {j} : run'[k] = run[k]
<1>1. \A where \in PC : Goto(j, where) =>
        run'[j].pc = where /\ \A k \in Job \ {j} : run'[k] = run[k]
  BY GotoLocal DEF TypeInv
<1>2. run[j].outcome \in Terminal /\ status \in [Job -> Status]
  BY DEF TypeInv, TypeOK, JobTableTypeOK, Run
<1>3. FinishJob(j, run[j].outcome) =>
        status'[j] \in Terminal /\ \A k \in Job \ {j} : status'[k] = status[k]
  BY <1>2 DEF FinishJob
<1>4. QED BY <1>1, <1>3 DEF Finish, At, PC, dispatch

(* Cancel, Create and Resume change one row, and not to 'running'. *)
LEMMA RowFacts ==
  ASSUME TypeOK, NEW j \in Job, CancelJob(j) \/ InsertJob(j) \/ RequeueJob(j)
  PROVE  /\ \A k \in Job \ {j} : status'[k] = status[k]
         /\ status'[j] # "absent"
         /\ status'[j] \in {"running", "cancelling"} => status[j] \in {"running", "cancelling"}
  BY DEF TypeOK, JobTableTypeOK, CancelJob, InsertJob, RequeueJob

LEMMA SlotStep == TypeInv /\ SlotInv /\ [Next]_vars => SlotInv'
<1> SUFFICES ASSUME TypeInv, SlotInv, [Next]_vars PROVE SlotInv'
  OBVIOUS
<1> USE DEF SlotInv, RunningHasRun
<1>1. /\ TypeOK
      /\ run \in [Job -> Run] /\ status \in [Job -> Status]
      /\ active \subseteq Job /\ picked \subseteq Job
  BY DEF TypeInv, TypeOK, JobTableTypeOK
<1>2. NoRun.pc = "none" /\ [NoRun EXCEPT !.pc = "submitted"].pc = "submitted"
  BY DEF NoRun
<1>3. ASSUME NEW j \in Job, NEW b \in 1..MaxRequests, Create(j, b) \/ Resume(j, b)
      PROVE  SlotInv'
  <2>1. UNCHANGED <<active, picked, run>> /\ (InsertJob(j) \/ RequeueJob(j))
    BY <1>3 DEF Create, Resume, dispatch
  <2>2. QED BY <1>1, <2>1, RowFacts
<1>4. ASSUME NEW j \in Job, Cancel(j) \/ ShutdownCancel(j) PROVE SlotInv'
  <2>1. UNCHANGED <<active, picked, run>> /\ CancelJob(j)
    BY <1>4 DEF Cancel, ShutdownCancel, dispatch
  <2>2. QED BY <1>1, <2>1, RowFacts
<1>5. ASSUME NEW j \in Job, RunStep(j), ~Claim(j), ~Finish(j) PROVE SlotInv'
  BY <1>1, <1>5, RunStepAtWork DEF jobVars
<1>6. ASSUME NEW j \in Job, Claim(j) PROVE SlotInv'
  <2>1. ClaimJob(j) => /\ status'[j] = "running"
                       /\ \A k \in Job \ {j} : status'[k] = status[k]
    BY <1>1 DEF ClaimJob
  <2>2. QED BY <1>1, <1>6, <2>1, ClaimLocal DEF jobVars
<1>7. ASSUME NEW j \in Job, Finish(j) PROVE SlotInv'
  <2>1. "absent" \notin Terminal /\ "running" \notin Terminal /\ "cancelling" \notin Terminal
    BY DEF Terminal
  <2>2. QED BY <1>1, <1>7, <2>1, FinishLocal DEF jobVars
<1>8. ASSUME NEW j \in Job, Reap(j) PROVE SlotInv'
  <2>1. /\ run' = [run EXCEPT ![j] = NoRun] /\ active' = active \ {j}
        /\ UNCHANGED picked /\ run[j].pc \in {"done", "raised"}
        /\ IF run[j].pc = "raised" THEN FinishJob(j, "interrupted") ELSE UNCHANGED jobVars
    BY <1>8 DEF Reap, Finished, SettleFailure
  <2>2. /\ \A k \in Job \ {j} : status'[k] = status[k]
        /\ status'[j] \notin {"running", "cancelling", "absent"}
    BY <1>1, <2>1 DEF FinishJob, jobVars, Terminal
  <2>3. QED BY <1>1, <1>2, <2>1, <2>2
<1>9. ASSUME NEW j \in Job, Submit(j) PROVE SlotInv'
  <2>1. /\ j \in picked /\ picked' = picked \ {j} /\ UNCHANGED jobVars
        /\ \/ UNCHANGED <<active, run>>
           \/ /\ j \notin active /\ active' = active \cup {j}
              /\ run' = [run EXCEPT ![j] = [NoRun EXCEPT !.pc = "submitted"]]
    BY <1>9 DEF Submit
  <2>2. QED BY <1>1, <1>2, <2>1 DEF jobVars
<1>10. CASE ReadQueue
  BY <1>10 DEF ReadQueue, Queued, jobVars
<1>11. CASE EndIteration \/ Shutdown \/ \E o \in Owner, value \in BOOLEAN : UpdateUser(o, value)
  BY <1>11 DEF EndIteration, Shutdown, UpdateUser, SetUserActive, jobVars, dispatch
<1>12. CASE Restart
  <2>1. run' = [j \in Job |-> NoRun] /\ picked' = {}
    BY <1>12 DEF Restart
  <2>2. \A j \in Job : status'[j] \notin {"running", "cancelling"}
    BY <1>12 DEF Restart, RecoverJobs, Active
  <2>3. QED BY <1>2, <2>1, <2>2
<1>13. CASE UNCHANGED vars
  BY <1>13 DEF vars, jobVars, dispatch
<1>14. QED
  BY <1>3, <1>4, <1>5, <1>6, <1>7, <1>8, <1>9, <1>10, <1>11, <1>12, <1>13
  DEF Next, Dispatcher, RunStep

(* A job that occupies its account as running or cancelling has a future that
   will settle it: no interleaving of cancellations, failures, stale reads of
   the queue and restarts leaves the account blocked by a dead job. *)
THEOREM SlotIsHeldByARun == Spec => []RunningHasRun
<1>1. Init => SlotInv
  <2>1. NoRun.pc = "none"
    BY DEF NoRun
  <2>2. QED BY <2>1 DEF Init, JobTableInit, SlotInv, RunningHasRun
<1>2. SlotInv => RunningHasRun
  BY DEF SlotInv
<1>3. QED BY <1>1, <1>2, SlotStep, TypeCorrect, PTL DEF Spec

-------------------------------------------------------------------------------
(* Requests after a cancellation.  Only a charge that committed before it can
   still be sent; once it is, no further charge is possible. *)

LateInv ==
  \A j \in Job :
    /\ late[j] <= 1
    /\ late[j] > 0 => cancelRequested[j] /\ run[j].pc # "charged"

LEMMA LateStep == TypeInv /\ LateInv /\ [Next]_vars => LateInv'
<1> SUFFICES ASSUME TypeInv, LateInv, [Next]_vars PROVE LateInv'
  OBVIOUS
<1> USE DEF LateInv
<1>1. /\ TypeOK
      /\ run \in [Job -> Run] /\ late \in [Job -> Nat]
      /\ cancelRequested \in [Job -> BOOLEAN]
  BY DEF TypeInv, TypeOK, JobTableTypeOK
<1>2. NoRun.pc = "none" /\ [NoRun EXCEPT !.pc = "submitted"].pc = "submitted"
  BY DEF NoRun
<1>3. ASSUME NEW j \in Job, NEW b \in 1..MaxRequests, Create(j, b) PROVE LateInv'
  BY <1>3 DEF Create, InsertJob, dispatch, history
<1>4. ASSUME NEW j \in Job, NEW b \in 1..MaxRequests, Resume(j, b) PROVE LateInv'
  <2>1. late' = [late EXCEPT ![j] = 0] /\ UNCHANGED run
        /\ cancelRequested' = [cancelRequested EXCEPT ![j] = FALSE]
    BY <1>4 DEF Resume, RequeueJob
  <2>2. QED BY <1>1, <2>1
<1>5. ASSUME NEW j \in Job, Cancel(j) \/ ShutdownCancel(j) PROVE LateInv'
  <2>1. UNCHANGED <<run, late>> /\ cancelRequested' = [cancelRequested EXCEPT ![j] = TRUE]
    BY <1>5 DEF Cancel, ShutdownCancel, CancelJob, dispatch, history
  <2>2. QED BY <1>1, <2>1
<1>6. ASSUME NEW j \in Job, Send(j) PROVE LateInv'
  <2>1. /\ run[j].pc = "charged" /\ run'[j].pc = "flight"
        /\ \A k \in Job \ {j} : run'[k] = run[k]
        /\ late' = [late EXCEPT ![j] = IF cancelRequested[j] THEN @ + 1 ELSE @]
        /\ UNCHANGED cancelRequested
    BY <1>1, <1>6, GotoLocal DEF Send, At, PC, jobVars
  <2>2. late[j] = 0
    BY <1>1, <2>1
  <2>3. QED BY <1>1, <2>1, <2>2
<1>7. ASSUME NEW j \in Job, RunStep(j), ~Claim(j), ~Finish(j), ~Send(j) PROVE LateInv'
  <2>1. UNCHANGED late
    BY <1>7 DEF RunStep, CheckScope, VisitBlock, Complete, StopBeforeCharge, GiveUp,
                Charge, Accept, AnswerInvalid, RateLimited, Rejected, OutcomeUnknown, history
  <2>2. run'[j].pc = "charged" => ~cancelRequested[j]
    BY <1>7, RunStepAtWork DEF Charge, MayCharge
  <2>3. QED BY <1>1, <1>7, <2>1, <2>2, RunStepAtWork DEF jobVars
<1>8. ASSUME NEW j \in Job, Claim(j) \/ Finish(j) PROVE LateInv'
  <2>1. UNCHANGED <<late, cancelRequested>>
    BY <1>8 DEF Claim, Finish, ClaimJob, FinishJob, jobVars, history
  <2>2. QED BY <1>1, <1>8, <2>1, ClaimLocal, FinishLocal
<1>9. ASSUME NEW j \in Job, Reap(j) PROVE LateInv'
  <2>1. UNCHANGED <<late, cancelRequested>> /\ run' = [run EXCEPT ![j] = NoRun]
    BY <1>9 DEF Reap, SettleFailure, FinishJob, jobVars, history
  <2>2. QED BY <1>1, <1>2, <2>1
<1>10. ASSUME NEW j \in Job, Submit(j) PROVE LateInv'
  <2>1. /\ UNCHANGED <<late, cancelRequested>>
        /\ run' = run \/ run' = [run EXCEPT ![j] = [NoRun EXCEPT !.pc = "submitted"]]
    BY <1>10 DEF Submit, jobVars, history
  <2>2. QED BY <1>1, <1>2, <2>1
<1>11. CASE \/ ReadQueue \/ EndIteration \/ Shutdown
            \/ \E o \in Owner, value \in BOOLEAN : UpdateUser(o, value)
  BY <1>11 DEF ReadQueue, EndIteration, Shutdown, UpdateUser, SetUserActive, jobVars, history
<1>12. CASE Restart
  <2>1. run' = [j \in Job |-> NoRun] /\ UNCHANGED <<late, cancelRequested>>
    BY <1>12 DEF Restart, RecoverJobs
  <2>2. QED BY <1>1, <1>2, <2>1
<1>13. CASE UNCHANGED vars
  BY <1>13 DEF vars, jobVars, history
<1>14. QED
  BY <1>3, <1>4, <1>5, <1>6, <1>7, <1>8, <1>9, <1>10, <1>11, <1>12, <1>13
  DEF Next, Dispatcher, RunStep

(* "Cancelling stops new requests". *)
THEOREM CancellationStopsRequests == Spec => []AtMostOneLateRequest
<1>1. Init => LateInv
  BY DEF Init, LateInv
<1>2. LateInv => AtMostOneLateRequest
  BY DEF LateInv, AtMostOneLateRequest
<1>3. QED BY <1>1, <1>2, LateStep, TypeCorrect, PTL DEF Spec

-------------------------------------------------------------------------------
(* Unknown outcomes.  While one is open the job's run is on its way to
   finish(), or there is no run that could get past claim. *)

UnresolvedInv ==
  \A j \in Job : unresolved[j] =>
    \/ run[j].pc \in {"ending", "raised"}
    \/ run[j].pc \in {"none", "submitted", "done"} /\ status[j] \in Terminal

LEMMA UnresolvedStep ==
  TypeInv /\ SlotInv /\ UnresolvedInv /\ [Next]_vars => UnresolvedInv'
<1> SUFFICES ASSUME TypeInv, SlotInv, UnresolvedInv, [Next]_vars PROVE UnresolvedInv'
  OBVIOUS
<1> USE DEF UnresolvedInv
<1>1. /\ TypeOK
      /\ run \in [Job -> Run] /\ status \in [Job -> Status]
      /\ unresolved \in [Job -> BOOLEAN]
  BY DEF TypeInv, TypeOK, JobTableTypeOK
<1>2. NoRun.pc = "none" /\ [NoRun EXCEPT !.pc = "submitted"].pc = "submitted"
  BY DEF NoRun
<1>3. ASSUME NEW j \in Job, NEW b \in 1..MaxRequests, Create(j, b) PROVE UnresolvedInv'
  <2>1. /\ UNCHANGED <<run, unresolved>> /\ status[j] = "absent"
        /\ status' = [status EXCEPT ![j] = "queued"]
    BY <1>3 DEF Create, InsertJob, history
  <2>2. QED BY <1>1, <2>1 DEF Terminal, SlotInv
<1>4. ASSUME NEW j \in Job, NEW b \in 1..MaxRequests, Resume(j, b) PROVE UnresolvedInv'
  <2>1. /\ UNCHANGED run /\ unresolved' = [unresolved EXCEPT ![j] = FALSE]
        /\ status' = [status EXCEPT ![j] = "queued"]
    BY <1>4 DEF Resume, RequeueJob
  <2>2. QED BY <1>1, <2>1
<1>5. ASSUME NEW j \in Job, Cancel(j) \/ ShutdownCancel(j) PROVE UnresolvedInv'
  <2>1. UNCHANGED <<run, unresolved>> /\ CancelJob(j)
    BY <1>5 DEF Cancel, ShutdownCancel, dispatch, history
  <2>2. \A k \in Job : status[k] \in Terminal => status'[k] \in Terminal
    BY <1>1, <2>1 DEF CancelJob, Active, Terminal
  <2>3. QED BY <1>1, <2>1, <2>2
<1>6. ASSUME NEW j \in Job, RunStep(j), ~Claim(j), ~Finish(j) PROVE UnresolvedInv'
  <2>1. \/ UNCHANGED unresolved
        \/ unresolved' = [unresolved EXCEPT ![j] = TRUE] /\ EndWith(j, "interrupted")
    BY <1>6 DEF RunStep, CheckScope, VisitBlock, Complete, StopBeforeCharge, GiveUp, Charge,
                Send, Accept, AnswerInvalid, RateLimited, Rejected, OutcomeUnknown, history
  <2>2. ~unresolved[j] /\ UNCHANGED status /\ \A k \in Job \ {j} : run'[k] = run[k]
    BY <1>1, <1>6, RunStepAtWork DEF jobVars
  <2>3. EndWith(j, "interrupted") => run'[j].pc = "ending"
    BY <1>1, EndWithLocal DEF Terminal
  <2>4. QED BY <1>1, <2>1, <2>2, <2>3
<1>7. ASSUME NEW j \in Job, Claim(j) PROVE UnresolvedInv'
  <2>1. UNCHANGED unresolved
    BY <1>7 DEF Claim, history
  <2>2. ClaimJob(j) => /\ status[j] \notin Terminal
                       /\ \A k \in Job \ {j} : status'[k] = status[k]
    BY <1>1 DEF ClaimJob, Terminal
  <2>3. QED BY <1>1, <1>7, <2>1, <2>2, ClaimLocal DEF jobVars
<1>8. ASSUME NEW j \in Job, Finish(j) PROVE UnresolvedInv'
  <2>1. UNCHANGED unresolved
    BY <1>8 DEF Finish, history
  <2>2. QED BY <1>1, <1>8, <2>1, FinishLocal DEF jobVars
<1>9. ASSUME NEW j \in Job, Reap(j) PROVE UnresolvedInv'
  <2>1. /\ UNCHANGED unresolved /\ run' = [run EXCEPT ![j] = NoRun]
        /\ run[j].pc \in {"done", "raised"}
        /\ IF run[j].pc = "raised" THEN FinishJob(j, "interrupted") ELSE UNCHANGED jobVars
    BY <1>9 DEF Reap, Finished, SettleFailure, history
  <2>2. \A k \in Job : status[k] \in Terminal => status'[k] \in Terminal
    BY <1>1, <2>1 DEF FinishJob, jobVars
  <2>3. run[j].pc = "raised" => status'[j] \in Terminal
    BY <1>1, <2>1 DEF FinishJob, Terminal
  <2>4. QED BY <1>1, <1>2, <2>1, <2>2, <2>3
<1>10. ASSUME NEW j \in Job, Submit(j) PROVE UnresolvedInv'
  <2>1. /\ UNCHANGED <<status, unresolved>>
        /\ \/ run' = run
           \/ j \notin active /\ run' = [run EXCEPT ![j] = [NoRun EXCEPT !.pc = "submitted"]]
    BY <1>10 DEF Submit, jobVars, history
  <2>2. j \notin active => run[j].pc = "none"
    BY DEF SlotInv
  <2>3. QED BY <1>1, <1>2, <2>1, <2>2
<1>11. CASE \/ ReadQueue \/ EndIteration \/ Shutdown
            \/ \E o \in Owner, value \in BOOLEAN : UpdateUser(o, value)
  BY <1>11 DEF ReadQueue, EndIteration, Shutdown, UpdateUser, SetUserActive, jobVars, history
<1>12. CASE Restart
  <2>1. /\ run' = [j \in Job |-> NoRun]
        /\ unresolved' = [j \in Job |-> unresolved[j] \/ run[j].pc \in {"charged", "flight"}]
        /\ status' = [j \in Job |-> IF status[j] \in Active THEN "interrupted" ELSE status[j]]
    BY <1>12 DEF Restart, RecoverJobs
  <2>2. \A j \in Job : unresolved'[j] => status[j] # "absent"
    BY <1>1, <2>1 DEF SlotInv, Terminal
  <2>3. \A j \in Job : unresolved'[j] => status'[j] \in Terminal
    BY <1>1, <2>1, <2>2 DEF Status, Active, Terminal
  <2>4. QED BY <1>2, <2>1, <2>3
<1>13. CASE UNCHANGED vars
  BY <1>13 DEF vars, jobVars, history
<1>14. QED
  BY <1>3, <1>4, <1>5, <1>6, <1>7, <1>8, <1>9, <1>10, <1>11, <1>12, <1>13
  DEF Next, Dispatcher, RunStep

(* "Timeouts, disconnects and unknown results are not sent again by
   themselves": not by a retry, not by the next run, not after a crash. *)
THEOREM UnknownIsNotRetried == Spec => NoSilentRetry
<1>1. Init => SlotInv /\ UnresolvedInv
  <2>1. NoRun.pc = "none"
    BY DEF NoRun
  <2>2. QED BY <2>1 DEF Init, JobTableInit, SlotInv, RunningHasRun, UnresolvedInv
<1>2. UnresolvedInv /\ [Next]_vars => [\A j \in Job : Sends(j) => ~unresolved[j]]_vars
  BY DEF UnresolvedInv, Sends
<1>3. QED BY <1>1, <1>2, SlotStep, UnresolvedStep, TypeCorrect, PTL DEF Spec, NoSilentRetry

-------------------------------------------------------------------------------
(* After a cancellation.  How many steps of its own a cancelled run can still
   take: the request whose charge committed and its answer, the next check of
   the status, and finish(). *)
StepsLeft(pc) ==
  CASE pc = "charged" -> 4
    [] pc = "flight" -> 3
    [] pc \in {"scope", "loop", "request"} -> 2
    [] pc = "ending" -> 1
    [] OTHER -> 0

Stays(j) == status[j] = "cancelling" /\ status'[j] = "cancelling"
RunsOut(j) == run'[j] = run[j] \/ StepsLeft(run'[j].pc) < StepsLeft(run[j].pc)

(* A cancelled run passes no check, so it goes round no loop. *)
LEMMA CancelledRunStep ==
  ASSUME TypeInv, NEW j \in Job, status[j] = "cancelling", RunStep(j), ~Claim(j), ~Finish(j)
  PROVE  \/ run[j].pc = "charged" /\ run'[j].pc = "flight"
         \/ run[j].pc = "flight" /\ run'[j].pc \in {"loop", "request", "ending"}
         \/ run[j].pc \in {"scope", "loop", "request"} /\ run'[j].pc = "ending"
<1>1. TypeOK /\ AtBlock /\ run \in [Job -> Run] /\ run[j] \in Run
  BY DEF TypeInv, TypeOK
<1>2. StopReason(j) = "processing_cancelled"
  BY DEF StopReason
<1>3. \A how \in Terminal : EndWith(j, how) => run'[j].pc = "ending"
  BY <1>1, EndWithLocal
<1>4. \A failed \in BOOLEAN :
        NextBlock(j, failed) /\ run[j].pc = "flight" => run'[j].pc \in {"loop", "ending"}
  BY <1>1, NextBlockLocal DEF AtBlock
<1>5. \A reason : OutcomeOf(reason) \in Terminal
  BY OutcomeIsTerminal
<1>6. CASE CheckScope(j)
  BY <1>2, <1>3, <1>5, <1>6 DEF CheckScope, At, Terminal
<1>7. CASE VisitBlock(j)
  BY <1>2, <1>3, <1>5, <1>7 DEF VisitBlock, At
<1>8. CASE Complete(j)
  BY <1>3, <1>8 DEF Complete, At, Terminal
<1>9. CASE StopBeforeCharge(j)
  BY <1>2, <1>3, <1>5, <1>9 DEF StopBeforeCharge, At, Terminal
<1>10. CASE GiveUp(j) \/ Charge(j)
  BY <1>2, <1>10 DEF GiveUp, Charge, MayCharge
<1>11. CASE Send(j)
  <2>1. run'[j].pc = "flight"
    BY <1>1, <1>11, GotoLocal DEF Send, PC
  <2>2. QED BY <1>11, <2>1 DEF Send, At
<1>12. CASE Accept(j) \/ AnswerInvalid(j)
  BY <1>3, <1>4, <1>12 DEF Accept, AnswerInvalid, At, Terminal
<1>13. CASE RateLimited(j)
  <2>1. run' = [run EXCEPT ![j].pc = "request", ![j].retried = TRUE] => run'[j].pc = "request"
    BY <1>1 DEF Run
  <2>2. QED BY <1>3, <1>13, <2>1 DEF RateLimited, At, Terminal
<1>14. CASE Rejected(j) \/ OutcomeUnknown(j)
  BY <1>3, <1>14 DEF Rejected, OutcomeUnknown, At, Terminal
<1>15. QED
  BY <1>6, <1>7, <1>8, <1>9, <1>10, <1>11, <1>12, <1>13, <1>14 DEF RunStep

LEMMA CancelledStep ==
  ASSUME TypeInv, SlotInv, [Next]_vars, NEW j \in Job, Stays(j)
  PROVE  RunsOut(j)
<1>1. /\ run \in [Job -> Run] /\ status \in [Job -> Status]
      /\ j \in active /\ run[j].pc \notin {"none", "submitted", "done"}
  BY DEF TypeInv, TypeOK, JobTableTypeOK, SlotInv, RunningHasRun, Stays
<1>2. ASSUME NEW i \in Job, RunStep(i), i # j PROVE RunsOut(j)
  BY <1>2, RunStepLocal DEF RunsOut
<1>3. ASSUME RunStep(j) PROVE RunsOut(j)
  <2>1. CASE Claim(j)
    BY <1>1, <2>1 DEF Claim, At
  <2>2. CASE Finish(j)
    <3>1. run[j].pc = "ending" /\ run'[j].pc \in {"done", "raised"}
      BY <2>2, FinishLocal
    <3>2. QED BY <3>1 DEF RunsOut, StepsLeft
  <2>3. CASE ~Claim(j) /\ ~Finish(j)
    <3>1. \/ run[j].pc = "charged" /\ run'[j].pc = "flight"
          \/ run[j].pc = "flight" /\ run'[j].pc \in {"loop", "request", "ending"}
          \/ run[j].pc \in {"scope", "loop", "request"} /\ run'[j].pc = "ending"
      BY <1>3, <2>3, CancelledRunStep DEF Stays
    <3>2. QED BY <3>1 DEF RunsOut, StepsLeft
  <2>4. QED BY <2>1, <2>2, <2>3
<1>4. ASSUME NEW i \in Job, Reap(i) PROVE RunsOut(j)
  <2>1. CASE i = j
    <3>1. run[j].pc = "raised"
      BY <1>1, <1>4, <2>1 DEF Reap, Finished
    <3>2. FinishJob(j, "interrupted")
      BY <1>4, <2>1, <3>1 DEF Reap, SettleFailure
    <3>3. status'[j] # "cancelling"
      BY <1>1, <3>2 DEF FinishJob, Terminal
    <3>4. QED BY <3>3 DEF Stays
  <2>2. CASE i # j
    BY <1>1, <1>4, <2>2 DEF Reap, RunsOut
  <2>3. QED BY <2>1, <2>2
<1>5. ASSUME NEW i \in Job, Submit(i) PROVE RunsOut(j)
  BY <1>1, <1>5 DEF Submit, RunsOut
<1>6. CASE Restart
  <2>1. status'[j] = "interrupted"
    BY <1>6 DEF Restart, RecoverJobs, Stays, Active
  <2>2. QED BY <2>1 DEF Stays
<1>7. ASSUME \/ \E i \in Job, b \in 1..MaxRequests : Create(i, b) \/ Resume(i, b)
             \/ \E i \in Job : Cancel(i) \/ ShutdownCancel(i)
             \/ \E o \in Owner, value \in BOOLEAN : UpdateUser(o, value)
             \/ ReadQueue \/ EndIteration \/ Shutdown \/ UNCHANGED vars
      PROVE  RunsOut(j)
  BY <1>7 DEF Create, Resume, Cancel, ShutdownCancel, UpdateUser, ReadQueue, EndIteration,
              Shutdown, vars, RunsOut
<1>8. QED
  BY <1>2, <1>3, <1>4, <1>5, <1>6, <1>7 DEF Next, Dispatcher

LEMMA SlotInvAlways == Spec => []SlotInv
<1>1. Init => SlotInv
  <2>1. NoRun.pc = "none"
    BY DEF NoRun
  <2>2. QED BY <2>1 DEF Init, JobTableInit, SlotInv, RunningHasRun
<1>2. QED BY <1>1, SlotStep, TypeCorrect, PTL DEF Spec

(* A cancelled run runs out: as long as a row is cancelling, every step of its
   own takes the run nearer to its end, and no other thread's step touches it.
   What is left of "a cancellation ends" is that the thread goes on at all. *)
THEOREM CancelledRunsRunOut == Spec => [][\A j \in Job : Stays(j) => RunsOut(j)]_vars
<1>1. TypeInv /\ SlotInv /\ [Next]_vars => [\A j \in Job : Stays(j) => RunsOut(j)]_vars
  BY CancelledStep
<1>2. QED BY <1>1, SlotInvAlways, TypeCorrect, PTL DEF Spec

(* Two runs of one account may overlap, when the later row was inserted while the
   earlier run was still at work; they never both pay.  Whoever charges a
   request is the only active job of its account (reserve_attempt looks at the row). *)
PaysAlone ==
  \A i, j \in Job :
    i # j /\ OwnerOf[i] = OwnerOf[j] /\ requests'[i] # requests[i] =>
      status[j] \notin Active /\ requests'[j] = requests[j]

THEOREM OnlyTheActiveJobPays == Spec => [][PaysAlone]_vars
<1>1. ASSUME TypeInv, OneActiveJobPerOwner, [Next]_vars PROVE PaysAlone
  <2>1. requests \in [Job -> Nat]
    BY <1>1 DEF TypeInv, TypeOK
  <2>2. SUFFICES ASSUME NEW i \in Job, NEW j \in Job, i # j, OwnerOf[i] = OwnerOf[j],
                        requests'[i] # requests[i]
                 PROVE  status[j] \notin Active /\ requests'[j] = requests[j]
    BY DEF PaysAlone
  <2>3. PICK k \in Job : Charge(k)
    BY <1>1, <2>2, BudgetCases DEF Create, Resume
  <2>4. requests' = [requests EXCEPT ![k] = @ + 1] /\ status[k] \in Active
    BY <2>1, <2>2, <2>3 DEF Charge, MayCharge, Active
  <2>5. k = i
    BY <2>1, <2>2, <2>4
  <2>6. QED BY <1>1, <2>1, <2>2, <2>4, <2>5 DEF OneActiveJobPerOwner
<1>2. TypeInv /\ OneActiveJobPerOwner /\ [Next]_vars => [PaysAlone]_vars
  BY <1>1
<1>3. QED BY <1>2, TableInvariants, TypeCorrect, PTL DEF Spec

===============================================================================
