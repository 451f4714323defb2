-------------------------- MODULE CloudParse_proofs --------------------------
(***************************************************************************)
(* What the parsing stage promises, for every number of jobs, accounts and *)
(* parts and however often jobs are resumed and the process restarts.      *)
(***************************************************************************)
EXTENDS CloudParse, FiniteSetTheorems, TLAPS

(* The types of the job table, from its own next-state relation. *)
LEMMA TableInitType == JobTableInit => JobTableTypeOK
  BY DEF JobTableInit, JobTableTypeOK, Status

LEMMA TableTypeStep ==
  ASSUME JobTableTypeOK, [TableNext]_jobVars
  PROVE  JobTableTypeOK'
<1>1. ASSUME NEW j \in Job,
             \/ InsertJob(j) \/ ClaimJob(j) \/ CancelJob(j) \/ RequeueJob(j)
             \/ \E outcome \in Terminal : FinishJob(j, outcome)
      PROVE  JobTableTypeOK'
  <2>1. status' \in [Job -> Status]
    BY <1>1 DEF JobTableTypeOK, InsertJob, ClaimJob, CancelJob, RequeueJob, FinishJob,
                Status, Active, Terminal
  <2>2. cancelRequested' \in [Job -> BOOLEAN]
    BY <1>1 DEF JobTableTypeOK, InsertJob, ClaimJob, CancelJob, RequeueJob, FinishJob
  <2>3. userActive' \in [Owner -> BOOLEAN]
    BY <1>1 DEF JobTableTypeOK, InsertJob, ClaimJob, CancelJob, RequeueJob, FinishJob
  <2>4. QED BY <2>1, <2>2, <2>3 DEF JobTableTypeOK
<1>2. CASE RecoverJobs
  BY <1>2 DEF RecoverJobs, JobTableTypeOK, Status, Active, Terminal
<1>3. ASSUME NEW o \in Owner, NEW value \in BOOLEAN, SetUserActive(o, value)
      PROVE  JobTableTypeOK'
  BY <1>3 DEF SetUserActive, JobTableTypeOK
<1>4. CASE UNCHANGED jobVars
  BY <1>4 DEF jobVars, JobTableTypeOK
<1>5. QED BY <1>1, <1>2, <1>3, <1>4 DEF TableNext

(* Between these two steps of a run the part in hand is a part of the PDF. *)
PartInHand == \A j \in Job :
  run[j].pc \notin {"none", "part", "merged", "ending"} => run[j].part \in Parts

TypeInv == TypeOK /\ PartInHand

(* What ending a run and moving it on do to its record. *)
LEMMA EndWithLocal ==
  ASSUME TypeOK, NEW j \in Job, NEW how \in Terminal, EndWith(j, how)
  PROVE  /\ run' \in [Job -> Run]
         /\ run'[j].pc = "ending" /\ run'[j].part = run[j].part /\ run'[j].outcome = how
         /\ \A k \in Job \ {j} : run'[k] = run[k]
<1>1. run \in [Job -> Run] /\ run[j] \in Run
  BY DEF TypeOK
<1>2. run' = [run EXCEPT ![j].pc = "ending", ![j].outcome = how]
  BY DEF EndWith
<1>3. [run[j] EXCEPT !.pc = "ending", !.outcome = how] \in Run
  BY <1>1 DEF Run, PC
<1>4. run'[j] = [run[j] EXCEPT !.pc = "ending", !.outcome = how]
  BY <1>1, <1>2
<1>5. run'[j].pc = "ending" /\ run'[j].part = run[j].part /\ run'[j].outcome = how
  BY <1>1, <1>4 DEF Run
<1>6. QED BY <1>1, <1>2, <1>3, <1>4, <1>5

LEMMA GotoLocal ==
  ASSUME TypeOK, NEW j \in Job, NEW where \in PC, Goto(j, where)
  PROVE  /\ run' \in [Job -> Run]
         /\ run'[j].pc = where /\ run'[j].part = run[j].part
         /\ \A k \in Job \ {j} : run'[k] = run[k]
  BY DEF Goto, TypeOK, Run

(* A step that raises ends the run, and never as completed. *)
LEMMA StoppedLocal ==
  ASSUME TypeOK, NEW j \in Job, Stopped(j)
  PROVE  \E how \in Terminal \ {"completed"} : EndWith(j, how)
  BY DEF Stopped, Terminal

(* The attempts of one part change, and no others. *)
LEMMA SetAttemptLocal ==
  ASSUME TypeInv, NEW j \in Job, run[j].part \in Parts,
         NEW from, NEW to \in {"started", "completed", "rejected", "unknown"},
         SetAttempt(j, from, to)
  PROVE  /\ creates' \in [Job -> [Parts -> SUBSET {"started", "completed", "rejected", "unknown"}]]
         /\ creates'[j][run[j].part] = (creates[j][run[j].part] \ from) \cup {to}
         /\ \A p \in Parts \ {run[j].part} : creates'[j][p] = creates[j][p]
         /\ \A k \in Job \ {j} : creates'[k] = creates[k]
  BY DEF TypeInv, TypeOK, SetAttempt

(* The parts recorded of one job change, and those of no other. *)
LEMMA PartsLocal ==
  ASSUME NEW f \in [Job -> SUBSET Parts], NEW g, NEW j \in Job, NEW S \in SUBSET Parts,
         g = f \/ g = [f EXCEPT ![j] = S]
  PROVE  g \in [Job -> SUBSET Parts] /\ \A k \in Job \ {j} : g[k] = f[k]
<1>1. CASE g = f
  BY <1>1
<1>2. CASE g = [f EXCEPT ![j] = S]
  BY <1>2
<1>3. QED BY <1>1, <1>2

Attempts == [Parts -> SUBSET {"started", "completed", "rejected", "unknown"}]

DataOK ==
  /\ creates \in [Job -> Attempts]
  /\ batch \in [Job -> SUBSET Parts]
  /\ archive \in [Job -> SUBSET Parts]
  /\ recorded \in [Job -> SUBSET Parts]
  /\ parsed \in [Job -> BOOLEAN]
  /\ published \in [Job -> SUBSET Parts]
  /\ accepted \in [Job -> [Parts -> Nat]]
  /\ uploads \in [Job -> [Parts -> Nat]]

(* Everything the table and the supplier know of job k, and its run. *)
SameJob(k) ==
  /\ creates'[k] = creates[k] /\ batch'[k] = batch[k] /\ archive'[k] = archive[k]
  /\ recorded'[k] = recorded[k] /\ parsed'[k] = parsed[k] /\ published'[k] = published[k]
  /\ accepted'[k] = accepted[k] /\ uploads'[k] = uploads[k]
  /\ run'[k] = run[k]

(* A step of job j's run leaves the data well typed and every other job alone. *)
LEMMA RunStepLocal ==
  ASSUME TypeInv, NEW j \in Job, RunStep(j)
  PROVE  /\ DataOK' /\ run' \in [Job -> Run]
         /\ \A k \in Job \ {j} : SameJob(k)
         /\ run'[j].pc \notin {"none", "part", "merged", "ending"} => run'[j].part \in Parts
<1> DEFINE InHand == run'[j].pc \notin {"none", "part", "merged", "ending"} => run'[j].part \in Parts
           RunOK == run' \in [Job -> Run] /\ \A k \in Job \ {j} : run'[k] = run[k]
<1>1. TypeOK /\ DataOK /\ run \in [Job -> Run] /\ run[j] \in Run
  BY DEF TypeInv, TypeOK, DataOK, Attempts
<1>2. run[j].pc \notin {"none", "part", "merged", "ending"} => run[j].part \in Parts
  BY DEF TypeInv, PartInHand
<1>3. \A how \in Terminal : EndWith(j, how) => RunOK /\ InHand
  BY <1>1, EndWithLocal
<1>4. Stopped(j) => RunOK /\ InHand
  BY <1>1, <1>3, StoppedLocal
<1>5. \A where \in PC : (Goto(j, where) /\ run[j].part \in Parts) => RunOK /\ InHand
  BY <1>1, GotoLocal
<1>6. {"interrupted", "failed", "completed"} \subseteq Terminal
  BY DEF Terminal
<1>7. CASE Start(j)
  <2>1. EndWith(j, "completed") \/ Goto(j, "part") \/ EndWith(j, "failed")
    BY <1>7 DEF Start
  <2>2. Goto(j, "part") => RunOK /\ InHand
    BY <1>1, GotoLocal DEF PC
  <2>3. QED BY <1>7, <1>1, <1>3, <1>6, <2>1, <2>2 DEF Start, durable, supplier, DataOK, SameJob
<1>8. CASE VisitPart(j)
  <2>1. CASE Stopped(j)
    BY <1>8, <1>1, <1>4, <2>1 DEF VisitPart, durable, supplier, DataOK, SameJob
  <2>2. CASE ~Stopped(j)
    <3>1. PICK step \in {"part", "post", "poll", "staged"} :
            run' = [run EXCEPT ![j].pc = step,
                               ![j].part = IF step = "part" THEN @ + 1 ELSE @]
      BY <1>8, <2>2 DEF VisitPart, NextStep
    <3>2. run[j].part \in Parts
      BY <1>8 DEF VisitPart
    <3>3. (IF step = "part" THEN run[j].part + 1 ELSE run[j].part) \in 1..(NParts + 1)
      BY <3>2, CloudParseAssumption DEF Parts
    <3>4. [run[j] EXCEPT !.pc = step, !.part = IF step = "part" THEN @ + 1 ELSE @] \in Run
      BY <1>1, <3>1, <3>3 DEF Run, PC
    <3>5. RunOK
      BY <1>1, <3>1, <3>4
    <3>6. InHand
      BY <1>1, <3>1, <3>2 DEF Run
    <3>7. QED BY <1>8, <1>1, <3>5, <3>6 DEF VisitPart, durable, supplier, DataOK, SameJob
  <2>3. QED BY <2>1, <2>2
<1>9. CASE ReserveCreate(j)
  <2>1. run[j].part \in Parts
    BY <1>9, <1>2 DEF ReserveCreate, At
  <2>2. CASE Stopped(j) /\ UNCHANGED creates
    BY <1>9, <1>1, <1>4, <2>2 DEF ReserveCreate, supplier, DataOK, SameJob
  <2>3. CASE SetAttempt(j, {}, "started") /\ Goto(j, "posting")
    <3>1. creates' \in [Job -> Attempts] /\ \A k \in Job \ {j} : creates'[k] = creates[k]
      BY <2>1, <2>3, SetAttemptLocal DEF Attempts
    <3>2. QED BY <1>9, <1>1, <1>5, <2>1, <2>3, <3>1 DEF ReserveCreate, supplier, DataOK, SameJob, PC
  <2>4. QED BY <1>9, <2>2, <2>3 DEF ReserveCreate
<1>10. CASE Post(j)
  <2>1. run[j].part \in Parts
    BY <1>10, <1>2 DEF Post, At
  <2>2. accepted' \in [Job -> [Parts -> Nat]] /\ \A k \in Job \ {j} : accepted'[k] = accepted[k]
    <3>1. UNCHANGED accepted \/ accepted' = [accepted EXCEPT ![j][run[j].part] = @ + 1]
      BY <1>10 DEF Post
    <3>2. QED BY <1>1, <2>1, <3>1 DEF DataOK
  <2>3. creates' \in [Job -> Attempts] /\ \A k \in Job \ {j} : creates'[k] = creates[k]
    <3>1. UNCHANGED creates \/ SetAttempt(j, {"started"}, "rejected")
            \/ SetAttempt(j, {"started"}, "unknown")
      BY <1>10 DEF Post, LeaveUndecided
    <3>2. QED BY <1>1, <2>1, <3>1, SetAttemptLocal DEF Attempts, DataOK
  <2>4. Goto(j, "answered") \/ \E how \in {"interrupted", "failed"} : EndWith(j, how)
    BY <1>10 DEF Post
  <2>5. RunOK /\ InHand
    BY <2>1, <2>4, <1>3, <1>5, <1>6 DEF PC
  <2>6. QED BY <1>10, <1>1, <2>2, <2>3, <2>5 DEF Post, DataOK, SameJob
<1>11. CASE RecordBatch(j)
  <2>1. run[j].part \in Parts
    BY <1>11, <1>2 DEF RecordBatch, At
  <2>2. batch' \in [Job -> SUBSET Parts] /\ \A k \in Job \ {j} : batch'[k] = batch[k]
    <3>1. UNCHANGED batch \/ batch' = [batch EXCEPT ![j] = @ \cup {run[j].part}]
      BY <1>11 DEF RecordBatch
    <3>2. batch \in [Job -> SUBSET Parts] /\ batch[j] \cup {run[j].part} \in SUBSET Parts
      BY <1>1, <2>1 DEF DataOK
    <3>3. QED BY <3>1, <3>2, PartsLocal
  <2>3. creates' \in [Job -> Attempts] /\ \A k \in Job \ {j} : creates'[k] = creates[k]
    <3>1. UNCHANGED creates \/ SetAttempt(j, {"started"}, "unknown")
      BY <1>11 DEF RecordBatch, LeaveUndecided
    <3>2. QED BY <1>1, <2>1, <3>1, SetAttemptLocal DEF Attempts, DataOK
  <2>4. Goto(j, "kept") \/ EndWith(j, "failed")
    BY <1>11 DEF RecordBatch
  <2>5. RunOK /\ InHand
    BY <2>1, <2>4, <1>3, <1>5, <1>6 DEF PC
  <2>6. QED BY <1>11, <1>1, <2>2, <2>3, <2>5 DEF RecordBatch, supplier, DataOK, SameJob
<1>12. CASE FinishCreate(j)
  <2>1. run[j].part \in Parts
    BY <1>12, <1>2 DEF FinishCreate, At
  <2>2. /\ \/ SetAttempt(j, {"started"}, "completed") \/ SetAttempt(j, {"started"}, "unknown")
           \/ UNCHANGED creates
        /\ Goto(j, "upload") \/ EndWith(j, "failed")
    BY <1>12 DEF FinishCreate, LeaveUndecided
  <2>3. creates' \in [Job -> Attempts] /\ \A k \in Job \ {j} : creates'[k] = creates[k]
    BY <1>1, <2>1, <2>2, SetAttemptLocal DEF Attempts, DataOK
  <2>4. RunOK /\ InHand
    BY <2>1, <2>2, <1>3, <1>5, <1>6 DEF PC
  <2>5. QED BY <1>12, <1>1, <2>3, <2>4 DEF FinishCreate, supplier, DataOK, SameJob
<1>13. CASE ReserveUpload(j)
  <2>1. run[j].part \in Parts
    BY <1>13, <1>2 DEF ReserveUpload, At
  <2>2. Stopped(j) \/ Goto(j, "uploading")
    BY <1>13 DEF ReserveUpload
  <2>3. RunOK /\ InHand
    BY <2>1, <2>2, <1>4, <1>5 DEF PC
  <2>4. QED BY <1>13, <1>1, <2>3 DEF ReserveUpload, durable, supplier, DataOK, SameJob
<1>14. CASE Upload(j)
  <2>1. run[j].part \in Parts
    BY <1>14, <1>2 DEF Upload, At
  <2>2. uploads' \in [Job -> [Parts -> Nat]] /\ \A k \in Job \ {j} : uploads'[k] = uploads[k]
    <3>1. UNCHANGED uploads \/ uploads' = [uploads EXCEPT ![j][run[j].part] = @ + 1]
      BY <1>14 DEF Upload
    <3>2. CASE UNCHANGED uploads
      BY <1>1, <3>2 DEF DataOK
    <3>3. CASE uploads' = [uploads EXCEPT ![j][run[j].part] = @ + 1]
      BY <1>1, <2>1, <3>3 DEF DataOK
    <3>4. QED BY <3>1, <3>2, <3>3
  <2>3. RunOK /\ InHand
    BY <1>14, <2>1, <1>3, <1>5, <1>6 DEF Upload, PC
  <2>4. QED BY <1>14, <1>1, <2>2, <2>3 DEF Upload, durable, DataOK, SameJob
<1>15. CASE Poll(j)
  <2>1. run[j].part \in Parts
    BY <1>15, <1>2 DEF Poll, At
  <2>2. archive' \in [Job -> SUBSET Parts] /\ \A k \in Job \ {j} : archive'[k] = archive[k]
    <3>1. UNCHANGED archive \/ archive' = [archive EXCEPT ![j] = @ \cup {run[j].part}]
      BY <1>15 DEF Poll
    <3>2. archive \in [Job -> SUBSET Parts] /\ archive[j] \cup {run[j].part} \in SUBSET Parts
      BY <1>1, <2>1 DEF DataOK
    <3>3. QED BY <3>1, <3>2, PartsLocal
  <2>3. Stopped(j) \/ Goto(j, "staged")
    BY <1>15 DEF Poll
  <2>4. RunOK /\ InHand
    BY <2>1, <2>3, <1>4, <1>5 DEF PC
  <2>5. QED BY <1>15, <1>1, <2>2, <2>4 DEF Poll, supplier, DataOK, SameJob
<1>16. CASE PublishPart(j)
  <2>1. run[j].part \in Parts
    BY <1>16, <1>2 DEF PublishPart, At
  <2>2. published' \in [Job -> SUBSET Parts] /\ \A k \in Job \ {j} : published'[k] = published[k]
    <3>1. UNCHANGED published \/ published' = [published EXCEPT ![j] = @ \cup {run[j].part}]
      BY <1>16 DEF PublishPart
    <3>2. published \in [Job -> SUBSET Parts] /\ published[j] \cup {run[j].part} \in SUBSET Parts
      BY <1>1, <2>1 DEF DataOK
    <3>3. QED BY <3>1, <3>2, PartsLocal
  <2>3. Goto(j, "published") \/ EndWith(j, "failed")
    BY <1>16 DEF PublishPart
  <2>4. RunOK /\ InHand
    BY <2>1, <2>3, <1>3, <1>5, <1>6 DEF PC
  <2>5. QED BY <1>16, <1>1, <2>2, <2>4 DEF PublishPart, supplier, DataOK, SameJob
<1>17. CASE RecordPart(j)
  <2>1. run[j].part \in Parts
    BY <1>17, <1>2 DEF RecordPart, At
  <2>2. /\ recorded' \in [Job -> SUBSET Parts] /\ archive' \in [Job -> SUBSET Parts]
        /\ \A k \in Job \ {j} : recorded'[k] = recorded[k] /\ archive'[k] = archive[k]
    <3>1. CASE UNCHANGED <<recorded, archive>>
      BY <1>1, <3>1 DEF DataOK
    <3>2. CASE /\ recorded' = [recorded EXCEPT ![j] = @ \cup {run[j].part}]
               /\ archive' = [archive EXCEPT ![j] = @ \ {run[j].part}]
      <4>1. recorded[j] \cup {run[j].part} \in SUBSET Parts
        BY <1>1, <2>1 DEF DataOK
      <4>2. archive[j] \ {run[j].part} \in SUBSET Parts
        BY <1>1 DEF DataOK
      <4>3. recorded' \in [Job -> SUBSET Parts] /\ \A k \in Job \ {j} : recorded'[k] = recorded[k]
        BY <1>1, <3>2, <4>1 DEF DataOK
      <4>4. archive' \in [Job -> SUBSET Parts] /\ \A k \in Job \ {j} : archive'[k] = archive[k]
        BY <1>1, <3>2, <4>2 DEF DataOK
      <4>5. QED BY <4>3, <4>4
    <3>3. QED BY <1>17, <3>1, <3>2 DEF RecordPart
  <2>3. CASE run' = [run EXCEPT ![j].pc = "part", ![j].part = @ + 1]
    <3>1. run[j].part + 1 \in 1..(NParts + 1)
      BY <2>1, CloudParseAssumption DEF Parts
    <3>2. [run[j] EXCEPT !.pc = "part", !.part = @ + 1] \in Run
      BY <1>1, <3>1 DEF Run, PC
    <3>3. RunOK /\ run'[j].pc = "part"
      BY <1>1, <2>3, <3>2 DEF Run
    <3>4. QED BY <1>17, <1>1, <2>2, <3>3 DEF RecordPart, supplier, DataOK, SameJob
  <2>4. CASE EndWith(j, "failed")
    BY <1>17, <1>1, <2>2, <2>4, <1>3, <1>6 DEF RecordPart, supplier, DataOK, SameJob
  <2>5. QED BY <1>17, <2>3, <2>4 DEF RecordPart
<1>18. CASE Merge(j)
  <2>1. CASE Goto(j, "merged")
    <3>1. RunOK /\ run'[j].pc = "merged"
      BY <1>1, <2>1, GotoLocal DEF PC
    <3>2. QED BY <1>18, <1>1, <3>1 DEF Merge, durable, supplier, DataOK, SameJob
  <2>2. CASE EndWith(j, "failed")
    BY <1>18, <1>1, <2>2, <1>3, <1>6 DEF Merge, durable, supplier, DataOK, SameJob
  <2>3. QED BY <1>18, <2>1, <2>2 DEF Merge
<1>19. CASE RecordMerge(j)
  <2>1. parsed' \in [Job -> BOOLEAN] /\ \A k \in Job \ {j} : parsed'[k] = parsed[k]
    BY <1>19, <1>1 DEF RecordMerge, DataOK
  <2>2. EndWith(j, "completed") \/ EndWith(j, "failed")
    BY <1>19 DEF RecordMerge
  <2>3. RunOK /\ InHand
    BY <2>2, <1>3, <1>6
  <2>4. QED BY <1>19, <1>1, <2>1, <2>3 DEF RecordMerge, supplier, DataOK, SameJob
<1>20. CASE Finish(j)
  <2>1. NoRun \in Run /\ NoRun.pc = "none"
    BY CloudParseAssumption DEF NoRun, Run, PC, Terminal
  <2>2. run' = [run EXCEPT ![j] = NoRun]
    BY <1>20 DEF Finish
  <2>3. RunOK /\ InHand
    BY <1>1, <2>1, <2>2
  <2>4. QED BY <1>20, <1>1, <2>3 DEF Finish, durable, supplier, DataOK, SameJob
<1>21. QED
  BY <1>7, <1>8, <1>9, <1>10, <1>11, <1>12, <1>13, <1>14, <1>15, <1>16, <1>17,
     <1>18, <1>19, <1>20 DEF RunStep

(* Which rows a step of job j's run may touch: its own, at the claim and at
   the end. *)
LEMMA RunStepTable ==
  ASSUME TypeInv, NEW j \in Job, RunStep(j)
  PROVE  /\ \A k \in Job \ {j} : status'[k] = status[k]
         /\ ~Start(j) /\ ~Finish(j) => UNCHANGED jobVars
         /\ [TableNext]_jobVars
<1>1. status \in [Job -> Status] /\ run[j].outcome \in Terminal
  BY DEF TypeInv, TypeOK, JobTableTypeOK, Run
<1>2. CASE Start(j)
  BY <1>1, <1>2 DEF Start, ClaimJob, TableNext
<1>3. CASE Finish(j)
  BY <1>1, <1>3 DEF Finish, FinishJob, TableNext
<1>4. CASE ~Start(j) /\ ~Finish(j)
  <2>1. UNCHANGED jobVars
    BY <1>4 DEF RunStep, VisitPart, ReserveCreate, Post, RecordBatch, FinishCreate,
                ReserveUpload, Upload, Poll, PublishPart, RecordPart, Merge, RecordMerge
  <2>2. QED BY <2>1 DEF jobVars
<1>5. QED BY <1>2, <1>3, <1>4 DEF jobVars

LEMMA NextIsTableStep ==
  ASSUME TypeInv, [Next]_vars
  PROVE  [TableNext]_jobVars
<1>1. ASSUME NEW j \in Job, Create(j) \/ Cancel(j) \/ Resume(j) PROVE TableNext
  BY <1>1 DEF Create, Cancel, Resume, TableNext
<1>2. ASSUME NEW o \in Owner, NEW value \in BOOLEAN, UpdateUser(o, value) PROVE TableNext
  BY <1>2 DEF UpdateUser, TableNext
<1>3. CASE Restart
  BY <1>3 DEF Restart, TableNext
<1>4. CASE UNCHANGED vars
  BY <1>4 DEF vars, jobVars
<1>5. QED BY <1>1, <1>2, <1>3, <1>4, RunStepTable DEF Next

LEMMA InitTypeInv == Init => TypeInv
<1> SUFFICES ASSUME Init PROVE TypeInv
  OBVIOUS
<1>1. NoRun \in Run /\ NoRun.pc = "none"
  BY CloudParseAssumption DEF NoRun, Run, PC, Terminal
<1>2. run \in [Job -> Run] /\ PartInHand
  BY <1>1 DEF Init, PartInHand
<1>3. JobTableTypeOK
  BY TableInitType DEF Init
<1>4. resumes \in 0..MaxResumes /\ restarts \in 0..MaxRestarts
  BY CloudParseAssumption DEF Init
<1>5. DataOK
  BY DEF Init, DataOK, Attempts
<1>6. QED BY <1>2, <1>3, <1>4, <1>5 DEF TypeInv, TypeOK, DataOK, Attempts

(* What recover() does to the attempts. *)
LEMMA RecoverAttemptsLocal ==
  ASSUME TypeInv, RecoverAttempts
  PROVE  /\ creates' \in [Job -> Attempts]
         /\ \A k \in Job : Undecided(k)' = Undecided(k)
<1>1. creates \in [Job -> Attempts]
  BY DEF TypeInv, TypeOK, Attempts
<1>2. creates' \in [Job -> Attempts]
  BY <1>1 DEF RecoverAttempts, Attempts
<1>3. ASSUME NEW k \in Job, NEW p \in Parts
      PROVE  creates'[k][p] \cap {"started", "unknown"} # {}
               <=> creates[k][p] \cap {"started", "unknown"} # {}
  BY DEF RecoverAttempts
<1>4. QED BY <1>2, <1>3 DEF Undecided

LEMMA TypeStep == TypeInv /\ [Next]_vars => TypeInv'
<1> SUFFICES ASSUME TypeInv, [Next]_vars PROVE TypeInv'
  OBVIOUS
<1>1. JobTableTypeOK'
  BY NextIsTableStep, TableTypeStep DEF TypeInv, TypeOK
<1>2. SUFFICES /\ DataOK' /\ run' \in [Job -> Run] /\ PartInHand'
               /\ resumes' \in 0..MaxResumes /\ restarts' \in 0..MaxRestarts
  BY <1>1, <1>2 DEF TypeInv, TypeOK, DataOK, Attempts
<1>3. /\ DataOK /\ run \in [Job -> Run] /\ PartInHand
      /\ resumes \in 0..MaxResumes /\ restarts \in 0..MaxRestarts
      /\ MaxResumes \in Nat /\ MaxRestarts \in Nat
  BY CloudParseAssumption DEF TypeInv, TypeOK, DataOK, Attempts
<1>4. ASSUME NEW j \in Job, Create(j) \/ Cancel(j) \/ Resume(j)
      PROVE  /\ UNCHANGED <<durable, supplier, run, restarts>>
             /\ resumes' \in 0..MaxResumes
  BY <1>3, <1>4 DEF Create, Cancel, Resume, bounds
<1>5. ASSUME NEW o \in Owner, NEW value \in BOOLEAN, UpdateUser(o, value)
      PROVE  UNCHANGED <<durable, supplier, run, bounds>>
  BY <1>5 DEF UpdateUser
<1>6. CASE UNCHANGED <<durable, supplier, run, restarts>> /\ resumes' \in 0..MaxResumes
  BY <1>3, <1>6 DEF durable, supplier, DataOK, PartInHand
<1>7. ASSUME NEW j \in Job, RunStep(j)
      PROVE  DataOK' /\ run' \in [Job -> Run] /\ PartInHand' /\ UNCHANGED bounds
  <2>1. UNCHANGED bounds
    BY <1>7 DEF RunStep, Start, VisitPart, ReserveCreate, Post, RecordBatch, FinishCreate,
                ReserveUpload, Upload, Poll, PublishPart, RecordPart, Merge, RecordMerge,
                Finish
  <2>2. /\ DataOK' /\ run' \in [Job -> Run]
        /\ \A k \in Job \ {j} : run'[k] = run[k]
        /\ run'[j].pc \notin {"none", "part", "merged", "ending"} => run'[j].part \in Parts
    BY <1>7, RunStepLocal DEF SameJob
  <2>3. QED BY <1>3, <2>1, <2>2 DEF PartInHand, Parts
<1>8. CASE Restart
  <2>1. NoRun \in Run /\ NoRun.pc = "none"
    BY CloudParseAssumption DEF NoRun, Run, PC, Terminal
  <2>2. run' \in [Job -> Run] /\ PartInHand'
    BY <1>8, <2>1 DEF Restart, PartInHand
  <2>3. resumes' \in 0..MaxResumes /\ restarts' \in 0..MaxRestarts
    BY <1>3, <1>8 DEF Restart
  <2>4. QED
    BY <1>3, <1>8, <2>2, <2>3, RecoverAttemptsLocal DEF Restart, DataOK, supplier
<1>9. CASE UNCHANGED vars
  BY <1>3, <1>6, <1>9 DEF vars, bounds
<1>10. QED
  BY <1>3, <1>4, <1>5, <1>6, <1>7, <1>8, <1>9 DEF Next, bounds

(* The records of a parsing job keep their types, wherever its runs break off. *)
THEOREM TypeCorrect == Spec => []TypeInv
  BY InitTypeInv, TypeStep, PTL DEF Spec

(* In particular no handler, thread or restart leaves a record of the
   parsing stage outside of its type. *)
THEOREM TypesKept == Spec => []TypeOK
<1>1. TypeInv => TypeOK
  BY DEF TypeInv
<1>2. QED BY <1>1, TypeCorrect, PTL

(* The parsing stage drives the table of jobs by its transactions only, so
   what JobTable promises holds of it. *)
THEOREM ImplementsTable == Spec => TableSpec
<1>1. Init => JobTableInit
  BY DEF Init
<1>2. TypeInv /\ [Next]_vars => [TableNext]_jobVars
  BY NextIsTableStep
<1>3. QED BY <1>1, <1>2, TypeCorrect, PTL DEF Spec, TableSpec

-------------------------------------------------------------------------------
(* The paid submissions.  At most one batch per part is not inductive: it rests
   on a lost answer leaving its trace in the table of attempts (Undecided) until
   the batch id is in the checkpoint, on no run starting while there is a trace
   without a batch, and on a run asking only for parts that have no batch. *)

Decided(j) == Undecided(j) \subseteq batch[j]

(* The supplier has a batch of the part only if the table can tell. *)
Traced(j) == \A p \in Parts :
  /\ accepted[j][p] <= 1
  /\ p \in batch[j] => accepted[j][p] = 1
  /\ accepted[j][p] = 1 => p \in batch[j] \cup Undecided(j)

(* What the run's step says about the part in hand. *)
InStep(j) ==
  /\ run[j].pc \notin {"none", "ending", "posting", "answered"} => Decided(j)
  /\ run[j].pc \in {"post", "posting", "answered"} => run[j].part \notin batch[j]
  /\ run[j].pc \in {"posting", "answered"} =>
       /\ "started" \in creates[j][run[j].part]
       /\ Undecided(j) \subseteq batch[j] \cup {run[j].part}
  /\ run[j].pc = "posting" => accepted[j][run[j].part] = 0
  /\ run[j].pc = "answered" => accepted[j][run[j].part] = 1
  /\ run[j].pc \in {"kept", "upload", "uploading", "poll", "staged", "published"}
       => run[j].part \in batch[j]

(* An upload belongs to a recorded batch and was sent once. *)
Uploaded(j) ==
  /\ \A p \in Parts : uploads[j][p] <= (IF p \in batch[j] THEN 1 ELSE 0)
  /\ run[j].pc \in {"kept", "upload", "uploading"} => uploads[j][run[j].part] = 0

(* What is on the disk and in the checkpoint once parts are published. *)
Results(j) ==
  /\ recorded[j] \subseteq published[j]
  /\ parsed[j] => recorded[j] = Parts
  /\ run[j].pc = "ending" /\ run[j].outcome = "completed" => parsed[j]
  /\ run[j].pc = "published" => run[j].part \in published[j]
  /\ run[j].pc = "none" => run[j].part = 1
  /\ run[j].pc \notin {"none", "ending"} => 1..(run[j].part - 1) \subseteq recorded[j]
  /\ run[j].pc = "merged" => recorded[j] = Parts

(* What the row of the job says of all that. *)
Row(j) ==
  /\ status[j] \in {"absent", "queued"} => Decided(j)
  /\ status[j] = "completed" => parsed[j]

JobInv(j) == Traced(j) /\ InStep(j) /\ Uploaded(j) /\ Results(j) /\ Row(j)

ParseInv == TypeInv /\ \A j \in Job : JobInv(j)

LEMMA InitParseInv == Init => ParseInv
<1> SUFFICES ASSUME Init PROVE \A j \in Job : JobInv(j)
  BY InitTypeInv DEF ParseInv
<1> TAKE j \in Job
<1>1. /\ status[j] = "absent" /\ run[j] = NoRun /\ NoRun.pc = "none" /\ NoRun.part = 1
      /\ creates[j] = [p \in Parts |-> {}] /\ batch[j] = {} /\ recorded[j] = {}
      /\ parsed[j] = FALSE /\ published[j] = {}
      /\ \A p \in Parts : accepted[j][p] = 0 /\ uploads[j][p] = 0
  BY DEF Init, JobTableInit, NoRun
<1>2. Undecided(j) = {}
  BY <1>1 DEF Undecided
<1>3. QED BY <1>1, <1>2 DEF JobInv, Traced, InStep, Uploaded, Results, Row, Decided

(* A job that a step does not concern keeps what is said of it. *)
LEMMA SameJobKeeps ==
  ASSUME NEW k \in Job, JobInv(k), SameJob(k), status'[k] = status[k]
  PROVE  JobInv(k)'
<1>1. Undecided(k)' = Undecided(k)
  BY DEF SameJob, Undecided
<1>2. Traced(k)' /\ InStep(k)' /\ Uploaded(k)' /\ Results(k)' /\ Row(k)'
  BY <1>1 DEF JobInv, SameJob, Traced, InStep, Uploaded, Results, Row, Decided
<1>3. QED BY <1>2 DEF JobInv

(* The attempts of the part in hand change: which parts are undecided then. *)
LEMMA UndecidedAfter ==
  ASSUME TypeInv, NEW j \in Job, run[j].part \in Parts,
         NEW from, NEW to \in {"started", "completed", "rejected", "unknown"},
         SetAttempt(j, from, to)
  PROVE  /\ \A p \in Parts \ {run[j].part} : p \in Undecided(j)' <=> p \in Undecided(j)
         /\ Undecided(j)' \subseteq Undecided(j) \cup {run[j].part}
         /\ to \in {"started", "unknown"} => run[j].part \in Undecided(j)'
<1>1. /\ creates'[j][run[j].part] = (creates[j][run[j].part] \ from) \cup {to}
      /\ \A p \in Parts \ {run[j].part} : creates'[j][p] = creates[j][p]
  BY SetAttemptLocal
<1>2. Undecided(j)' = {p \in Parts : creates'[j][p] \cap {"started", "unknown"} # {}}
  BY DEF Undecided, Parts
<1>3. Undecided(j) = {p \in Parts : creates[j][p] \cap {"started", "unknown"} # {}}
  BY DEF Undecided
<1>4. \A p \in Parts \ {run[j].part} : p \in Undecided(j)' <=> p \in Undecided(j)
  BY <1>1, <1>2, <1>3
<1>5. to \in {"started", "unknown"} => run[j].part \in Undecided(j)'
  BY <1>1, <1>2
<1>6. QED BY <1>2, <1>4, <1>5

(* A submission that did not end well leaves its trace. *)
LEMMA LeaveUndecidedAfter ==
  ASSUME TypeInv, NEW j \in Job, run[j].part \in Parts, LeaveUndecided(j)
  PROVE  /\ \A p \in Parts \ {run[j].part} : p \in Undecided(j)' <=> p \in Undecided(j)
         /\ Undecided(j)' \subseteq Undecided(j) \cup {run[j].part}
         /\ run[j].part \in Undecided(j) => run[j].part \in Undecided(j)'
<1>1. CASE SetAttempt(j, {"started"}, "unknown")
  BY <1>1, UndecidedAfter
<1>2. CASE UNCHANGED creates
  <2>1. Undecided(j)' = Undecided(j)
    BY <1>2 DEF Undecided
  <2>2. QED BY <2>1
<1>3. QED BY <1>1, <1>2 DEF LeaveUndecided

(* A step that leaves the data alone and ends the run, or moves it on. *)
LEMMA EndKeeps ==
  ASSUME TypeInv, NEW j \in Job, JobInv(j), NEW how \in Terminal, EndWith(j, how),
         how = "completed" => parsed[j],
         UNCHANGED <<jobVars, durable, supplier>>
  PROVE  JobInv(j)'
<1>1. TypeOK
  BY DEF TypeInv
<1>2. run'[j].pc = "ending" /\ run'[j].outcome = how
  BY <1>1, EndWithLocal
<1>3. Undecided(j)' = Undecided(j)
  BY DEF Undecided, durable
<1>4. Traced(j)'
  BY <1>3 DEF JobInv, Traced, durable, supplier
<1>5. InStep(j)' /\ Uploaded(j)' /\ Results(j)'
  BY <1>2 DEF JobInv, InStep, Uploaded, Results, durable, supplier
<1>6. Row(j)'
  BY <1>3 DEF JobInv, Row, Decided, jobVars, durable
<1>7. QED BY <1>4, <1>5, <1>6 DEF JobInv

LEMMA StoppedKeeps ==
  ASSUME TypeInv, NEW j \in Job, JobInv(j), Stopped(j),
         UNCHANGED <<jobVars, durable, supplier>>
  PROVE  JobInv(j)'
<1>1. PICK how \in Terminal \ {"completed"} : EndWith(j, how)
  BY StoppedLocal DEF TypeInv
<1>2. QED BY <1>1, EndKeeps

LEMMA StartKeeps ==
  ASSUME TypeInv, NEW j \in Job, JobInv(j), Start(j)
  PROVE  JobInv(j)'
<1>1. TypeOK /\ Undecided(j)' = Undecided(j)
  BY DEF TypeInv, Start, durable, Undecided
<1>2. Decided(j) /\ status'[j] = "running"
  BY DEF Start, ClaimJob, JobInv, Row, TypeInv, TypeOK, JobTableTypeOK
<1>3. Traced(j)' /\ Row(j)'
  BY <1>1, <1>2 DEF Start, JobInv, Traced, Row, durable, supplier
<1>4. CASE EndWith(j, "completed") /\ parsed[j]
  <2>1. run'[j].pc = "ending"
    BY <1>1, <1>4, EndWithLocal DEF Terminal
  <2>2. InStep(j)' /\ Uploaded(j)' /\ Results(j)'
    BY <1>4, <2>1 DEF Start, JobInv, InStep, Uploaded, Results, durable, supplier
  <2>3. QED BY <1>3, <2>2 DEF JobInv
<1>5. CASE Goto(j, "part")
  <2>1. run'[j].pc = "part" /\ run'[j].part = run[j].part
    BY <1>1, <1>5, GotoLocal DEF PC
  <2>2. InStep(j)' /\ Uploaded(j)'
    BY <1>1, <1>2, <2>1 DEF Start, JobInv, InStep, Uploaded, Decided, durable, supplier
  <2>3. 1..(run'[j].part - 1) = {}
    BY <2>1 DEF JobInv, Results, Start, At
  <2>4. Results(j)'
    BY <2>1, <2>3 DEF Start, JobInv, Results, durable
  <2>5. QED BY <1>3, <2>2, <2>4 DEF JobInv
<1>6. CASE EndWith(j, "failed")
  <2>1. run'[j].pc = "ending" /\ run'[j].outcome = "failed"
    BY <1>1, <1>6, EndWithLocal DEF Terminal
  <2>2. InStep(j)' /\ Uploaded(j)' /\ Results(j)'
    BY <2>1 DEF Start, JobInv, InStep, Uploaded, Results, durable, supplier
  <2>3. QED BY <1>3, <2>2 DEF JobInv
<1>7. QED BY <1>4, <1>5, <1>6 DEF Start

LEMMA VisitPartKeeps ==
  ASSUME TypeInv, NEW j \in Job, JobInv(j), VisitPart(j)
  PROVE  JobInv(j)'
<1>1. UNCHANGED <<jobVars, durable, supplier>> /\ run[j].pc = "part" /\ run[j].part \in Parts
  BY DEF VisitPart, At
<1>2. CASE Stopped(j)
  BY <1>1, <1>2, StoppedKeeps
<1>3. CASE ~Stopped(j)
  <2>1. run' = [run EXCEPT ![j].pc = NextStep(run[j].part, j),
                           ![j].part = IF NextStep(run[j].part, j) = "part" THEN @ + 1 ELSE @]
    BY <1>3 DEF VisitPart
  <2>2. run \in [Job -> Run]
    BY DEF TypeInv, TypeOK
  <2>3. /\ run'[j].pc = NextStep(run[j].part, j)
        /\ run'[j].part = IF NextStep(run[j].part, j) = "part" THEN run[j].part + 1 ELSE run[j].part
    BY <2>1, <2>2 DEF Run
  <2>4. Undecided(j)' = Undecided(j) /\ Decided(j)
    BY <1>1 DEF durable, Undecided, JobInv, InStep
  <2>5. Traced(j)' /\ Row(j)'
    BY <1>1, <2>4 DEF JobInv, Traced, Row, Decided, jobVars, durable, supplier
  <2>6. InStep(j)' /\ Uploaded(j)'
    BY <1>1, <2>3, <2>4 DEF NextStep, JobInv, InStep, Uploaded, Decided, durable, supplier
  <2>7. 1..(run'[j].part - 1) \subseteq recorded[j]
    <3>1. 1..(run[j].part - 1) \subseteq recorded[j] /\ run[j].part \in Nat
      BY <1>1 DEF JobInv, Results, Parts
    <3>2. CASE run[j].part \in recorded[j]
      <4>1. run'[j].part = run[j].part + 1
        BY <2>3, <3>2 DEF NextStep
      <4>2. QED BY <3>1, <3>2, <4>1
    <3>3. CASE run[j].part \notin recorded[j]
      BY <2>3, <3>1, <3>3 DEF NextStep
    <3>4. QED BY <3>2, <3>3
  <2>8. Results(j)'
    BY <1>1, <2>3, <2>7 DEF NextStep, JobInv, Results, durable
  <2>9. QED BY <2>5, <2>6, <2>8 DEF JobInv
<1>4. QED BY <1>2, <1>3

LEMMA ReserveCreateKeeps ==
  ASSUME TypeInv, NEW j \in Job, JobInv(j), ReserveCreate(j)
  PROVE  JobInv(j)'
<1>1. /\ UNCHANGED <<jobVars, batch, archive, recorded, parsed, published, supplier>>
      /\ run[j].pc = "post" /\ run[j].part \in Parts
  BY DEF ReserveCreate, At, TypeInv, PartInHand
<1>2. CASE Stopped(j) /\ UNCHANGED creates
  BY <1>1, <1>2, StoppedKeeps DEF durable
<1>3. CASE /\ status[j] = "running" /\ SetAttempt(j, {}, "started") /\ Goto(j, "posting")
  <2>1. run'[j].pc = "posting" /\ run'[j].part = run[j].part
    BY <1>3, GotoLocal DEF TypeInv, PC
  <2>2. /\ \A p \in Parts \ {run[j].part} : p \in Undecided(j)' <=> p \in Undecided(j)
        /\ Undecided(j)' \subseteq Undecided(j) \cup {run[j].part}
    BY <1>1, <1>3, UndecidedAfter
  <2>3. "started" \in creates'[j][run[j].part]
    BY <1>1, <1>3, SetAttemptLocal
  <2>4. Decided(j) /\ run[j].part \notin batch[j] /\ Traced(j)
    BY <1>1 DEF JobInv, InStep
  <2>5. accepted[j][run[j].part] = 0 /\ run[j].part \notin Undecided(j)
    <3>1. accepted[j][run[j].part] \in Nat
      BY <1>1 DEF TypeInv, TypeOK
    <3>2. run[j].part \notin Undecided(j)
      BY <2>4 DEF Decided
    <3>3. QED BY <1>1, <2>4, <3>1, <3>2 DEF Traced
  <2>6. Traced(j)'
    BY <1>1, <2>2, <2>4, <2>5 DEF Traced, supplier
  <2>7. InStep(j)'
    BY <1>1, <2>1, <2>2, <2>3, <2>4, <2>5 DEF InStep, Decided, supplier
  <2>8. Uploaded(j)' /\ Results(j)'
    BY <1>1, <2>1 DEF JobInv, Uploaded, Results, supplier
  <2>9. Row(j)'
    BY <1>1, <1>3 DEF JobInv, Row, jobVars
  <2>10. QED BY <2>6, <2>7, <2>8, <2>9 DEF JobInv
<1>4. QED BY <1>2, <1>3 DEF ReserveCreate

(* The answer to the POST, or its loss. *)
LEMMA PostKeeps ==
  ASSUME TypeInv, NEW j \in Job, JobInv(j), Post(j)
  PROVE  JobInv(j)'
<1> DEFINE p == run[j].part
<1>1. /\ UNCHANGED <<jobVars, batch, archive, recorded, parsed, published, uploads>>
      /\ run[j].pc = "posting" /\ p \in Parts
  BY DEF Post, At, TypeInv, PartInHand
<1>2. /\ Traced(j) /\ p \notin batch[j] /\ accepted[j][p] = 0
      /\ Undecided(j) \subseteq batch[j] \cup {p}
  BY <1>1 DEF JobInv, InStep
<1>3. "started" \in creates[j][p] /\ p \in Undecided(j)
  BY <1>1 DEF JobInv, InStep, Undecided
<1>4. accepted \in [Job -> [Parts -> Nat]]
  BY DEF TypeInv, TypeOK
<1>5. UNCHANGED accepted \/ accepted' = [accepted EXCEPT ![j][p] = @ + 1]
  BY DEF Post
<1>6. /\ \A q \in Parts \ {p} : accepted'[j][q] = accepted[j][q]
      /\ accepted'[j][p] \in {0, 1}
  BY <1>1, <1>2, <1>4, <1>5
<1>7. status[j] \notin {"absent", "queued"} => Row(j)'
  BY <1>1 DEF JobInv, Row, jobVars
<1>8. status[j] \notin {"absent", "queued"}
  BY <1>1, <1>2, <1>3 DEF JobInv, Row, Decided
<1>9. CASE accepted' = [accepted EXCEPT ![j][p] = @ + 1] /\ Goto(j, "answered") /\ UNCHANGED creates
  <2>1. run'[j].pc = "answered" /\ run'[j].part = p
    BY <1>9, GotoLocal DEF TypeInv, PC
  <2>2. Undecided(j)' = Undecided(j) /\ accepted'[j][p] = 1
    BY <1>1, <1>2, <1>4, <1>9 DEF Undecided
  <2>3. Traced(j)'
    BY <1>1, <1>2, <1>3, <1>6, <2>2 DEF Traced
  <2>4. InStep(j)'
    BY <1>1, <1>2, <1>3, <1>9, <2>1, <2>2 DEF InStep
  <2>5. Uploaded(j)' /\ Results(j)'
    BY <1>1, <2>1 DEF JobInv, Uploaded, Results
  <2>6. QED BY <1>7, <1>8, <2>3, <2>4, <2>5 DEF JobInv
<1>10. ASSUME NEW how \in Terminal \ {"completed"}, EndWith(j, how), Traced(j)'
       PROVE  JobInv(j)'
  <2>1. run'[j].pc = "ending" /\ run'[j].outcome = how
    BY <1>10, EndWithLocal DEF TypeInv
  <2>2. InStep(j)' /\ Uploaded(j)' /\ Results(j)'
    BY <1>1, <1>10, <2>1 DEF JobInv, InStep, Uploaded, Results
  <2>3. QED BY <1>7, <1>8, <1>10, <2>2 DEF JobInv
<1>11. CASE UNCHANGED accepted /\ SetAttempt(j, {"started"}, "rejected") /\ EndWith(j, "failed")
  <2>1. \A q \in Parts \ {p} : q \in Undecided(j)' <=> q \in Undecided(j)
    BY <1>1, <1>11, UndecidedAfter
  <2>2. Traced(j)'
    BY <1>1, <1>2, <1>11, <2>1 DEF Traced
  <2>3. "failed" \in Terminal \ {"completed"}
    BY DEF Terminal
  <2>4. QED BY <1>10, <1>11, <2>2, <2>3
<1>12. CASE /\ LeaveUndecided(j)
            /\ \E how \in {"interrupted", "failed"} : EndWith(j, how)
  <2>1. /\ \A q \in Parts \ {p} : q \in Undecided(j)' <=> q \in Undecided(j)
        /\ p \in Undecided(j)'
    BY <1>1, <1>3, <1>12, LeaveUndecidedAfter
  <2>2. Traced(j)'
    BY <1>1, <1>2, <1>6, <2>1 DEF Traced
  <2>3. {"interrupted", "failed"} \subseteq Terminal \ {"completed"}
    BY DEF Terminal
  <2>4. QED BY <1>10, <1>12, <2>2, <2>3
<1>13. QED BY <1>9, <1>11, <1>12 DEF Post

LEMMA RecordBatchKeeps ==
  ASSUME TypeInv, NEW j \in Job, JobInv(j), RecordBatch(j)
  PROVE  JobInv(j)'
<1> DEFINE p == run[j].part
<1>1. /\ UNCHANGED <<jobVars, archive, recorded, parsed, published, supplier>>
      /\ run[j].pc = "answered" /\ p \in Parts
  BY DEF RecordBatch, At, TypeInv, PartInHand
<1>2. /\ Traced(j) /\ p \notin batch[j] /\ accepted[j][p] = 1
      /\ Undecided(j) \subseteq batch[j] \cup {p} /\ p \in Undecided(j)
  BY <1>1 DEF JobInv, InStep, Undecided
<1>3. status[j] \notin {"absent", "queued"}
  BY <1>1, <1>2 DEF JobInv, Row, Decided
<1>4. Row(j)'
  BY <1>1, <1>3 DEF JobInv, Row, jobVars
<1>5. uploads[j][p] = 0
  <2>1. uploads[j][p] \in Nat /\ uploads[j][p] <= 0
    BY <1>1, <1>2 DEF JobInv, Uploaded, TypeInv, TypeOK
  <2>2. QED BY <2>1
<1>6. CASE /\ batch' = [batch EXCEPT ![j] = @ \cup {p}] /\ Goto(j, "kept")
           /\ UNCHANGED creates
  <2>1. run'[j].pc = "kept" /\ run'[j].part = p
    BY <1>6, GotoLocal DEF TypeInv, PC
  <2>2. Undecided(j)' = Undecided(j) /\ batch'[j] = batch[j] \cup {p}
    BY <1>6 DEF Undecided, TypeInv, TypeOK
  <2>3. Traced(j)'
    BY <1>1, <1>2, <2>2 DEF Traced, supplier
  <2>4. InStep(j)'
    BY <1>1, <1>2, <2>1, <2>2 DEF InStep, Decided
  <2>5. Uploaded(j)'
    BY <1>1, <1>5, <2>1, <2>2 DEF JobInv, Uploaded, supplier
  <2>6. Results(j)'
    BY <1>1, <2>1 DEF JobInv, Results
  <2>7. QED BY <1>4, <2>3, <2>4, <2>5, <2>6 DEF JobInv
<1>7. CASE /\ LeaveUndecided(j) /\ EndWith(j, "failed")
           /\ UNCHANGED batch
  <2>1. run'[j].pc = "ending" /\ run'[j].outcome = "failed"
    BY <1>7, EndWithLocal DEF TypeInv, Terminal
  <2>2. /\ \A q \in Parts \ {p} : q \in Undecided(j)' <=> q \in Undecided(j)
        /\ p \in Undecided(j)'
    BY <1>1, <1>2, <1>7, LeaveUndecidedAfter
  <2>3. Traced(j)'
    BY <1>1, <1>2, <1>7, <2>2 DEF Traced, supplier
  <2>4. InStep(j)' /\ Uploaded(j)' /\ Results(j)'
    BY <1>1, <1>7, <2>1 DEF JobInv, InStep, Uploaded, Results, supplier
  <2>5. QED BY <1>4, <2>3, <2>4 DEF JobInv
<1>8. QED BY <1>6, <1>7 DEF RecordBatch

LEMMA FinishCreateKeeps ==
  ASSUME TypeInv, NEW j \in Job, JobInv(j), FinishCreate(j)
  PROVE  JobInv(j)'
<1> DEFINE p == run[j].part
<1>1. /\ UNCHANGED <<jobVars, batch, archive, recorded, parsed, published, supplier>>
      /\ run[j].pc = "kept" /\ p \in Parts
  BY DEF FinishCreate, At, TypeInv, PartInHand
<1>2. Traced(j) /\ Decided(j) /\ p \in batch[j]
  BY <1>1 DEF JobInv, InStep
<1>3. /\ SetAttempt(j, {"started"}, "completed") \/ LeaveUndecided(j)
      /\ Goto(j, "upload") \/ EndWith(j, "failed")
  BY DEF FinishCreate
<1>4. /\ \A q \in Parts \ {p} : q \in Undecided(j)' <=> q \in Undecided(j)
      /\ Undecided(j)' \subseteq Undecided(j) \cup {p}
  BY <1>1, <1>3, UndecidedAfter, LeaveUndecidedAfter
<1>5. Traced(j)'
  BY <1>1, <1>2, <1>4 DEF Traced, supplier
<1>6. Decided(j)'
  BY <1>1, <1>2, <1>4 DEF Decided
<1>7. Row(j)'
  BY <1>1, <1>6 DEF JobInv, Row, jobVars
<1>8. CASE Goto(j, "upload")
  <2>1. run'[j].pc = "upload" /\ run'[j].part = p
    BY <1>8, GotoLocal DEF TypeInv, PC
  <2>2. InStep(j)' /\ Uploaded(j)' /\ Results(j)'
    BY <1>1, <1>2, <1>6, <2>1 DEF JobInv, InStep, Uploaded, Results, supplier
  <2>3. QED BY <1>5, <1>7, <2>2 DEF JobInv
<1>9. CASE EndWith(j, "failed")
  <2>1. run'[j].pc = "ending" /\ run'[j].outcome = "failed"
    BY <1>9, EndWithLocal DEF TypeInv, Terminal
  <2>2. InStep(j)' /\ Uploaded(j)' /\ Results(j)'
    BY <1>1, <2>1 DEF JobInv, InStep, Uploaded, Results, supplier
  <2>3. QED BY <1>5, <1>7, <2>2 DEF JobInv
<1>10. QED BY <1>3, <1>8, <1>9

(* The upload, the polling, the publication of a part and of the merge: the
   attempts, the batches and the supplier's batches do not change. *)
LEMMA SameBatches ==
  ASSUME NEW j \in Job, JobInv(j), UNCHANGED <<status, creates, batch, accepted>>,
         status[j] = "completed" => (parsed[j] => parsed'[j])
  PROVE  /\ Traced(j)' /\ Row(j)'
         /\ (Decided(j)' <=> Decided(j))
<1>1. Undecided(j)' = Undecided(j)
  BY DEF Undecided
<1>2. QED BY <1>1 DEF JobInv, Traced, Row, Decided

LEMMA ReserveUploadKeeps ==
  ASSUME TypeInv, NEW j \in Job, JobInv(j), ReserveUpload(j)
  PROVE  JobInv(j)'
<1>1. UNCHANGED <<jobVars, durable, supplier>> /\ run[j].pc = "upload"
  BY DEF ReserveUpload, At
<1>2. CASE Stopped(j)
  BY <1>1, <1>2, StoppedKeeps
<1>3. CASE Goto(j, "uploading")
  <2>1. run'[j].pc = "uploading" /\ run'[j].part = run[j].part
    BY <1>3, GotoLocal DEF TypeInv, PC
  <2>2. /\ Traced(j)' /\ Row(j)' /\ (Decided(j)' <=> Decided(j))
    BY <1>1, SameBatches DEF jobVars, durable, supplier
  <2>3. InStep(j)' /\ Uploaded(j)' /\ Results(j)'
    BY <1>1, <2>1, <2>2 DEF JobInv, InStep, Uploaded, Results, durable, supplier
  <2>4. QED BY <2>2, <2>3 DEF JobInv
<1>4. QED BY <1>2, <1>3 DEF ReserveUpload

LEMMA UploadKeeps ==
  ASSUME TypeInv, NEW j \in Job, JobInv(j), Upload(j)
  PROVE  JobInv(j)'
<1> DEFINE p == run[j].part
<1>1. /\ UNCHANGED <<jobVars, durable, accepted>> /\ run[j].pc = "uploading" /\ p \in Parts
      /\ uploads' = [uploads EXCEPT ![j][p] = @ + 1] \/ UNCHANGED uploads
  BY DEF Upload, At, TypeInv, PartInHand
<1>2. Traced(j)' /\ Row(j)' /\ (Decided(j)' <=> Decided(j))
  BY <1>1, SameBatches DEF jobVars, durable
<1>3. p \in batch[j] /\ uploads[j][p] = 0
  BY <1>1 DEF JobInv, InStep, Uploaded
<1>4. uploads'[j][p] \in {0, 1} /\ \A q \in Parts \ {p} : uploads'[j][q] = uploads[j][q]
  BY <1>1, <1>3 DEF TypeInv, TypeOK
<1>5. \A q \in Parts : uploads'[j][q] <= (IF q \in batch'[j] THEN 1 ELSE 0)
  BY <1>1, <1>3, <1>4 DEF JobInv, Uploaded, durable
<1>6. CASE Goto(j, "poll")
  <2>1. run'[j].pc = "poll" /\ run'[j].part = p
    BY <1>6, GotoLocal DEF TypeInv, PC
  <2>2. InStep(j)' /\ Uploaded(j)' /\ Results(j)'
    BY <1>1, <1>2, <1>5, <2>1 DEF JobInv, InStep, Uploaded, Results, durable
  <2>3. QED BY <1>2, <2>2 DEF JobInv
<1>7. CASE EndWith(j, "interrupted")
  <2>1. run'[j].pc = "ending" /\ run'[j].outcome = "interrupted"
    BY <1>7, EndWithLocal DEF TypeInv, Terminal
  <2>2. InStep(j)' /\ Uploaded(j)' /\ Results(j)'
    BY <1>1, <1>5, <2>1 DEF JobInv, InStep, Uploaded, Results, durable
  <2>3. QED BY <1>2, <2>2 DEF JobInv
<1>8. QED BY <1>6, <1>7 DEF Upload

LEMMA PollKeeps ==
  ASSUME TypeInv, NEW j \in Job, JobInv(j), Poll(j)
  PROVE  JobInv(j)'
<1>1. /\ UNCHANGED <<jobVars, creates, batch, recorded, parsed, published, supplier>>
      /\ run[j].pc = "poll"
  BY DEF Poll, At
<1>2. CASE Stopped(j) /\ UNCHANGED archive
  BY <1>1, <1>2, StoppedKeeps DEF durable
<1>3. CASE Goto(j, "staged")
  <2>1. run'[j].pc = "staged" /\ run'[j].part = run[j].part
    BY <1>3, GotoLocal DEF TypeInv, PC
  <2>2. Traced(j)' /\ Row(j)' /\ (Decided(j)' <=> Decided(j))
    BY <1>1, SameBatches DEF jobVars, supplier
  <2>3. InStep(j)' /\ Uploaded(j)' /\ Results(j)'
    BY <1>1, <2>1, <2>2 DEF JobInv, InStep, Uploaded, Results, supplier
  <2>4. QED BY <2>2, <2>3 DEF JobInv
<1>4. QED BY <1>2, <1>3 DEF Poll

LEMMA PublishPartKeeps ==
  ASSUME TypeInv, NEW j \in Job, JobInv(j), PublishPart(j)
  PROVE  JobInv(j)'
<1>1. /\ UNCHANGED <<jobVars, creates, batch, archive, recorded, parsed, supplier>>
      /\ run[j].pc = "staged"
  BY DEF PublishPart, At
<1>2. CASE EndWith(j, "failed") /\ UNCHANGED published
  BY <1>1, <1>2, EndKeeps DEF durable, Terminal
<1>3. CASE published' = [published EXCEPT ![j] = @ \cup {run[j].part}] /\ Goto(j, "published")
  <2>1. run'[j].pc = "published" /\ run'[j].part = run[j].part
    BY <1>3, GotoLocal DEF TypeInv, PC
  <2>2. published'[j] = published[j] \cup {run[j].part}
    BY <1>3 DEF TypeInv, TypeOK
  <2>3. Traced(j)' /\ Row(j)' /\ (Decided(j)' <=> Decided(j))
    BY <1>1, SameBatches DEF jobVars, supplier
  <2>4. InStep(j)' /\ Uploaded(j)'
    BY <1>1, <2>1, <2>3 DEF JobInv, InStep, Uploaded, supplier
  <2>5. Results(j)'
    BY <1>1, <2>1, <2>2 DEF JobInv, Results
  <2>6. QED BY <2>3, <2>4, <2>5 DEF JobInv
<1>4. QED BY <1>2, <1>3 DEF PublishPart

LEMMA RecordPartKeeps ==
  ASSUME TypeInv, NEW j \in Job, JobInv(j), RecordPart(j)
  PROVE  JobInv(j)'
<1> DEFINE p == run[j].part
<1>1. /\ UNCHANGED <<jobVars, creates, batch, parsed, published, supplier>>
      /\ run[j].pc = "published" /\ p \in Parts
  BY DEF RecordPart, At, TypeInv, PartInHand
<1>2. CASE EndWith(j, "failed") /\ UNCHANGED <<recorded, archive>>
  BY <1>1, <1>2, EndKeeps DEF durable, Terminal
<1>3. CASE /\ recorded' = [recorded EXCEPT ![j] = @ \cup {p}]
           /\ run' = [run EXCEPT ![j].pc = "part", ![j].part = @ + 1]
  <2>1. run'[j].pc = "part" /\ run'[j].part = p + 1
    BY <1>3 DEF TypeInv, TypeOK, Run
  <2>2. recorded'[j] = recorded[j] \cup {p}
    BY <1>3 DEF TypeInv, TypeOK
  <2>3. Traced(j)' /\ Row(j)' /\ (Decided(j)' <=> Decided(j))
    BY <1>1, SameBatches DEF jobVars, supplier
  <2>4. InStep(j)' /\ Uploaded(j)'
    BY <1>1, <2>1, <2>3 DEF JobInv, InStep, Uploaded, supplier
  <2>5. 1..(run'[j].part - 1) \subseteq recorded'[j]
    <3>1. 1..(p - 1) \subseteq recorded[j] /\ p \in Nat
      BY <1>1 DEF JobInv, Results, Parts
    <3>2. QED BY <2>1, <2>2, <3>1
  <2>6. recorded'[j] \subseteq published'[j] /\ (parsed'[j] => recorded'[j] = Parts)
    BY <1>1, <2>2 DEF JobInv, Results
  <2>7. Results(j)'
    BY <1>1, <2>1, <2>5, <2>6 DEF Results
  <2>8. QED BY <2>3, <2>4, <2>7 DEF JobInv
<1>4. QED BY <1>2, <1>3 DEF RecordPart

LEMMA MergeKeeps ==
  ASSUME TypeInv, NEW j \in Job, JobInv(j), Merge(j)
  PROVE  JobInv(j)'
<1>1. UNCHANGED <<jobVars, durable, supplier>> /\ run[j].pc = "part" /\ run[j].part \notin Parts
  BY DEF Merge, At
<1>2. CASE EndWith(j, "failed")
  BY <1>1, <1>2, EndKeeps DEF Terminal
<1>3. CASE Goto(j, "merged")
  <2>1. run'[j].pc = "merged" /\ run'[j].part = run[j].part
    BY <1>3, GotoLocal DEF TypeInv, PC
  <2>2. Traced(j)' /\ Row(j)' /\ (Decided(j)' <=> Decided(j))
    BY <1>1, SameBatches DEF jobVars, durable, supplier
  <2>3. recorded[j] = Parts
    <3>1. run[j].part \in 1..(NParts + 1) /\ recorded[j] \subseteq Parts
      BY DEF TypeInv, TypeOK, Run
    <3>2. run[j].part = NParts + 1
      BY <1>1, <3>1, CloudParseAssumption DEF Parts
    <3>3. 1..(run[j].part - 1) \subseteq recorded[j]
      BY <1>1 DEF JobInv, Results
    <3>4. 1..(run[j].part - 1) = Parts
      BY <3>2, CloudParseAssumption DEF Parts
    <3>5. QED BY <3>1, <3>3, <3>4
  <2>4. InStep(j)' /\ Uploaded(j)' /\ Results(j)'
    BY <1>1, <2>1, <2>2, <2>3 DEF JobInv, InStep, Uploaded, Results, durable, supplier
  <2>5. QED BY <2>2, <2>4 DEF JobInv
<1>4. QED BY <1>2, <1>3 DEF Merge

LEMMA RecordMergeKeeps ==
  ASSUME TypeInv, NEW j \in Job, JobInv(j), RecordMerge(j)
  PROVE  JobInv(j)'
<1>1. /\ UNCHANGED <<jobVars, creates, batch, archive, recorded, published, supplier>>
      /\ run[j].pc = "merged"
  BY DEF RecordMerge, At
<1>2. CASE EndWith(j, "failed") /\ UNCHANGED parsed
  BY <1>1, <1>2, EndKeeps DEF durable, Terminal
<1>3. CASE /\ parsed' = [parsed EXCEPT ![j] = TRUE]
           /\ EndWith(j, "completed") \/ EndWith(j, "failed")
  <2>1. run'[j].pc = "ending"
    BY <1>3, EndWithLocal DEF TypeInv, Terminal
  <2>2. parsed'[j] = TRUE
    BY <1>3 DEF TypeInv, TypeOK
  <2>3. Traced(j)' /\ Row(j)' /\ (Decided(j)' <=> Decided(j))
    BY <1>1, <2>2, SameBatches DEF jobVars, supplier
  <2>4. InStep(j)' /\ Uploaded(j)' /\ Results(j)'
    BY <1>1, <2>1, <2>2 DEF JobInv, InStep, Uploaded, Results, supplier
  <2>5. QED BY <2>3, <2>4 DEF JobInv
<1>4. QED BY <1>2, <1>3 DEF RecordMerge

LEMMA FinishKeeps ==
  ASSUME TypeInv, NEW j \in Job, JobInv(j), Finish(j)
  PROVE  JobInv(j)'
<1>1. /\ UNCHANGED <<durable, supplier>> /\ run[j].pc = "ending"
      /\ FinishJob(j, run[j].outcome) /\ run' = [run EXCEPT ![j] = NoRun]
  BY DEF Finish, At
<1>2. run'[j].pc = "none" /\ run'[j].part = 1
  BY <1>1 DEF NoRun, TypeInv, TypeOK
<1>3. Undecided(j)' = Undecided(j)
  BY <1>1 DEF Undecided, durable
<1>4. Traced(j)' /\ InStep(j)' /\ Uploaded(j)' /\ Results(j)'
  BY <1>1, <1>2, <1>3 DEF JobInv, Traced, InStep, Uploaded, Results, durable, supplier
<1>5. /\ status'[j] \in Terminal
      /\ status'[j] = "completed" => status[j] = "completed" \/ run[j].outcome = "completed"
  BY <1>1 DEF FinishJob, TypeInv, TypeOK, JobTableTypeOK, Run
<1>6. Row(j)'
  BY <1>1, <1>5 DEF JobInv, Row, Results, durable, Terminal
<1>7. QED BY <1>4, <1>6 DEF JobInv

LEMMA ParseInvStep == ParseInv /\ [Next]_vars => ParseInv'
<1> SUFFICES ASSUME ParseInv, [Next]_vars PROVE \A k \in Job : JobInv(k)'
  BY TypeStep DEF ParseInv
<1>1. TypeInv /\ \A k \in Job : JobInv(k)
  BY DEF ParseInv
<1>2. ASSUME NEW j \in Job, RunStep(j), NEW k \in Job PROVE JobInv(k)'
  <2>1. CASE k = j
    BY <1>1, <1>2, <2>1, StartKeeps, VisitPartKeeps, ReserveCreateKeeps, PostKeeps,
       RecordBatchKeeps, FinishCreateKeeps, ReserveUploadKeeps, UploadKeeps, PollKeeps,
       PublishPartKeeps, RecordPartKeeps, MergeKeeps, RecordMergeKeeps, FinishKeeps
    DEF RunStep
  <2>2. CASE k # j
    <3>1. SameJob(k)
      BY <1>1, <1>2, <2>2, RunStepLocal
    <3>2. status'[k] = status[k]
      BY <1>1, <1>2, <2>2, RunStepTable
    <3>3. QED BY <1>1, <3>1, <3>2, SameJobKeeps
  <2>3. QED BY <2>1, <2>2
<1>3. ASSUME UNCHANGED <<durable, supplier, run>>, NEW k \in Job,
             status'[k] \in {"absent", "queued"} => status[k] = status'[k] \/ Decided(k),
             status'[k] = "completed" => status[k] = "completed"
      PROVE  JobInv(k)'
  <2>1. Undecided(k)' = Undecided(k)
    BY <1>3 DEF Undecided, durable
  <2>2. Traced(k)' /\ InStep(k)' /\ Uploaded(k)' /\ Results(k)'
    BY <1>1, <1>3, <2>1 DEF JobInv, Traced, InStep, Uploaded, Results, Decided, durable, supplier
  <2>3. Row(k)'
    BY <1>1, <1>3, <2>1 DEF JobInv, Row, Decided, durable
  <2>4. QED BY <2>2, <2>3 DEF JobInv
<1>4. status \in [Job -> Status]
  BY <1>1 DEF TypeInv, TypeOK, JobTableTypeOK
<1>5. ASSUME NEW j \in Job, Create(j), NEW k \in Job PROVE JobInv(k)'
  <2>1. status[j] = "absent" /\ status' = [status EXCEPT ![j] = "queued"]
    BY <1>5 DEF Create, InsertJob
  <2>2. Decided(j)
    BY <1>1, <2>1 DEF JobInv, Row
  <2>3. /\ status'[k] \in {"absent", "queued"} => status[k] = status'[k] \/ Decided(k)
        /\ status'[k] = "completed" => status[k] = "completed"
    BY <1>4, <2>1, <2>2
  <2>4. QED BY <1>3, <1>5, <2>3 DEF Create
<1>6. ASSUME NEW j \in Job, Cancel(j), NEW k \in Job PROVE JobInv(k)'
  <2>1. /\ status'[k] \in {"absent", "queued"} => status[k] = status'[k] \/ Decided(k)
        /\ status'[k] = "completed" => status[k] = "completed"
    BY <1>4, <1>6 DEF Cancel, CancelJob
  <2>2. QED BY <1>3, <1>6, <2>1 DEF Cancel
<1>7. ASSUME NEW j \in Job, Resume(j), NEW k \in Job PROVE JobInv(k)'
  <2>1. Decided(j) /\ status' = [status EXCEPT ![j] = "queued"]
    BY <1>7 DEF Resume, RequeueJob, Decided
  <2>2. /\ status'[k] \in {"absent", "queued"} => status[k] = status'[k] \/ Decided(k)
        /\ status'[k] = "completed" => status[k] = "completed"
    BY <1>4, <2>1
  <2>3. QED BY <1>3, <1>7, <2>2 DEF Resume
<1>8. ASSUME NEW o \in Owner, NEW value \in BOOLEAN, UpdateUser(o, value), NEW k \in Job
      PROVE  JobInv(k)'
  BY <1>3, <1>8 DEF UpdateUser, SetUserActive
<1>9. ASSUME Restart, NEW k \in Job PROVE JobInv(k)'
  <2>1. /\ UNCHANGED <<batch, archive, recorded, parsed, published, supplier>>
        /\ run' = [j \in Job |-> NoRun]
        /\ status'[k] = IF status[k] \in Active THEN "interrupted" ELSE status[k]
    BY <1>9 DEF Restart, RecoverJobs
  <2>2. Undecided(k)' = Undecided(k)
    BY <1>1, <1>9, RecoverAttemptsLocal DEF Restart
  <2>3. run'[k].pc = "none" /\ run'[k].part = 1
    BY <2>1 DEF NoRun
  <2>4. Traced(k)' /\ InStep(k)' /\ Uploaded(k)' /\ Results(k)'
    BY <1>1, <2>1, <2>2, <2>3 DEF JobInv, Traced, InStep, Uploaded, Results, supplier
  <2>5. Row(k)'
    BY <1>1, <2>1, <2>2 DEF JobInv, Row, Decided
  <2>6. QED BY <2>4, <2>5 DEF JobInv
<1>10. ASSUME UNCHANGED vars, NEW k \in Job PROVE JobInv(k)'
  BY <1>3, <1>10 DEF vars, jobVars
<1>11. QED BY <1>2, <1>5, <1>6, <1>7, <1>8, <1>9, <1>10 DEF Next

LEMMA ParseInvAlways == Spec => []ParseInv
  BY InitParseInv, ParseInvStep, PTL DEF Spec

(* A part is never paid for twice: whatever is lost, cancelled or crashed, the
   supplier creates at most one batch for a part of a job. *)
THEOREM OneBatchPerPart == Spec => []AtMostOneBatch
<1>1. ParseInv => AtMostOneBatch
  BY DEF ParseInv, JobInv, Traced, AtMostOneBatch
<1>2. QED BY <1>1, ParseInvAlways, PTL

(* Nothing is uploaded before the batch it belongs to is in the checkpoint,
   and nothing is uploaded twice. *)
THEOREM UploadsFollowRecords == Spec => []UploadsAreRecorded
<1>1. ParseInv => UploadsAreRecorded
  BY DEF ParseInv, JobInv, Uploaded, UploadsAreRecorded
<1>2. QED BY <1>1, ParseInvAlways, PTL

(* The checkpoint a later run or the reader starts from is true: its batches
   exist, its parts have results, a completed job is parsed. *)
THEOREM CheckpointHolds == Spec => []CheckpointIsTrue
<1>1. ASSUME ParseInv PROVE CheckpointIsTrue
  <2> SUFFICES ASSUME NEW j \in Job
               PROVE  /\ \A p \in batch[j] : accepted[j][p] > 0
                      /\ recorded[j] \subseteq published[j]
                      /\ parsed[j] => recorded[j] = Parts
                      /\ status[j] = "completed" => parsed[j]
    BY DEF CheckpointIsTrue
  <2>1. Traced(j) /\ Results(j) /\ Row(j)
    BY <1>1 DEF ParseInv, JobInv
  <2>2. batch[j] \subseteq Parts
    BY <1>1 DEF ParseInv, TypeInv, TypeOK
  <2>3. \A p \in batch[j] : accepted[j][p] = 1
    BY <2>1, <2>2 DEF Traced
  <2>4. QED BY <2>1, <2>3 DEF Results, Row
<1>2. QED BY <1>1, ParseInvAlways, PTL

===============================================================================
