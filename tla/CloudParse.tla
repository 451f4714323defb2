------------------------------ MODULE CloudParse ------------------------------
(***************************************************************************)
(* The parsing stage of a structured job: each part of the split PDF is    *)
(* submitted to the MinerU cloud, uploaded, polled, downloaded, normalised *)
(* by the Document Worker and published; the parts are then merged.        *)
(*                                                                         *)
(* A submission is paid for, and its answer may be lost: by a timeout, by  *)
(* a crash between any two steps, or because the job was cancelled twice   *)
(* while the answer was out.  The table of attempts and the batch ids in   *)
(* the job's checkpoint are what a later run knows of it.                  *)
(*                                                                         *)
(* The dispatcher is reduced to Start here: it claims a queued job whose   *)
(* earlier run has ended (ProcessingJobs has its threads and races).       *)
(***************************************************************************)
EXTENDS JobTable

CONSTANTS
  NParts,      (* parts of at most 200 pages of the PDF                    *)
  MaxResumes,  (* bound: resumes, over all jobs                            *)
  MaxRestarts  (* bound: crashes and restarts of the Web process           *)

ASSUME CloudParseAssumption ==
  /\ NParts \in Nat \ {0}
  /\ MaxResumes \in Nat
  /\ MaxRestarts \in Nat

VARIABLES
  creates,    (* durable: statuses of the cloud_create attempts of a part  *)
  batch,      (* durable: parts whose batch id is in the checkpoint        *)
  archive,    (* durable: parts whose downloaded archive is on disk        *)
  recorded,   (* durable: parts whose resultId is in the checkpoint        *)
  parsed,     (* durable: the merged parseId is in the checkpoint          *)
  published,  (* durable: parts of which a structure result is published   *)
  accepted,   (* supplier: batches it created for a part                   *)
  uploads,    (* supplier: uploads sent for a part                         *)
  run,        (* the run of a job: its step and the part in hand           *)
  resumes, restarts

durable  == <<creates, batch, archive, recorded, parsed, published>>
supplier == <<accepted, uploads>>
bounds   == <<resumes, restarts>>
vars == <<jobVars, durable, supplier, run, bounds>>

Parts == 1..NParts

(* "posting": the create attempt is committed, the request is out; "answered":
   the batch id is in memory only; "kept": it is in the checkpoint, the attempt
   not finished; "staged": the archive is there; "published": the part's
   result is, its id not in the checkpoint; "merged": likewise for the merge. *)
PC == {"none", "part", "post", "posting", "answered", "kept", "upload",
       "uploading", "poll", "staged", "published", "merged", "ending"}

Run == [pc : PC, part : 1..(NParts + 1), outcome : Terminal]

TypeOK ==
  /\ JobTableTypeOK
  /\ creates \in [Job -> [Parts -> SUBSET {"started", "completed", "rejected", "unknown"}]]
  /\ batch \in [Job -> SUBSET Parts]
  /\ archive \in [Job -> SUBSET Parts]
  /\ recorded \in [Job -> SUBSET Parts]
  /\ parsed \in [Job -> BOOLEAN]
  /\ published \in [Job -> SUBSET Parts]
  /\ accepted \in [Job -> [Parts -> Nat]]
  /\ uploads \in [Job -> [Parts -> Nat]]
  /\ run \in [Job -> Run]
  /\ resumes \in 0..MaxResumes
  /\ restarts \in 0..MaxRestarts

NoRun == [pc |-> "none", part |-> 1, outcome |-> "failed"]

Init ==
  /\ JobTableInit
  /\ creates = [j \in Job |-> [p \in Parts |-> {}]]
  /\ batch = [j \in Job |-> {}]
  /\ archive = [j \in Job |-> {}]
  /\ recorded = [j \in Job |-> {}]
  /\ parsed = [j \in Job |-> FALSE]
  /\ published = [j \in Job |-> {}]
  /\ accepted = [j \in Job |-> [p \in Parts |-> 0]]
  /\ uploads = [j \in Job |-> [p \in Parts |-> 0]]
  /\ run = [j \in Job |-> NoRun]
  /\ resumes = 0
  /\ restarts = 0

-------------------------------------------------------------------------------
(* The owner's requests. *)

Create(j) ==
  /\ InsertJob(j)
  /\ UNCHANGED <<durable, supplier, run, bounds>>

Cancel(j) ==
  /\ CancelJob(j)
  /\ UNCHANGED <<durable, supplier, run, bounds>>

MarkedUnknown(j) == {p \in Parts : "unknown" \in creates[j][p]}

(* Parts with a create request whose outcome the table does not tell: marked
   so, or still 'started'. *)
Undecided(j) == {p \in Parts : creates[j][p] \cap {"started", "unknown"} # {}}

(* "A submitted-but-unknown cloud creation cannot be recovered by recreating a
   task"; one whose batch id is recorded can be queried. *)
Resume(j) ==
  /\ resumes < MaxResumes
  /\ Undecided(j) \subseteq batch[j]
  /\ RequeueJob(j)
  /\ resumes' = resumes + 1
  /\ UNCHANGED <<durable, supplier, run, restarts>>

-------------------------------------------------------------------------------
(* The run of job j. *)

At(j, where) == run[j].pc = where

Goto(j, where) == run' = [run EXCEPT ![j].pc = where]

EndWith(j, how) == run' = [run EXCEPT ![j].pc = "ending", ![j].outcome = how]

(* A step raises: the time budget is spent or an answer is lost
   ('interrupted'), the PDF has changed or storage fails ('failed'), or a check
   of the status refuses to go on. *)
Stopped(j) ==
  \/ \E how \in {"interrupted", "failed"} : EndWith(j, how)
  \/ StopReason(j) # "none" /\ EndWith(j, "cancelled")

(* A finished parse is not repeated by a resumed run; a PDF that was replaced
   fails the run before it does anything. *)
Start(j) ==
  /\ At(j, "none")
  /\ userActive[OwnerOf[j]]
  /\ ClaimJob(j)
  /\ \/ parsed[j] /\ EndWith(j, "completed")
     \/ ~parsed[j] /\ Goto(j, "part")
     \/ EndWith(j, "failed")
  /\ UNCHANGED <<durable, supplier, bounds>>

(* Where the work on part p continues, from what the checkpoint and the disk
   say: a recorded batch is only queried, an archive is not fetched again. *)
NextStep(p, j) ==
  IF p \in recorded[j] THEN "part"
  ELSE IF p \notin batch[j] THEN "post"
  ELSE IF p \notin archive[j] THEN "poll" ELSE "staged"

VisitPart(j) ==
  /\ At(j, "part")
  /\ run[j].part \in Parts
  /\ \/ Stopped(j)
     \/ /\ StopReason(j) = "none"
        /\ LET step == NextStep(run[j].part, j) IN
             run' = [run EXCEPT ![j].pc = step,
                                ![j].part = IF step = "part" THEN @ + 1 ELSE @]
  /\ UNCHANGED <<jobVars, durable, supplier, bounds>>

SetAttempt(j, from, to) ==
  creates' = [creates EXCEPT ![j][run[j].part] = (@ \ from) \cup {to}]

(* A submission did not end well: its attempt becomes unknown, or stays
   'started' when the table cannot be written. *)
LeaveUndecided(j) == SetAttempt(j, {"started"}, "unknown") \/ UNCHANGED creates

(* reserve_attempt("cloud_create"): the charge is refused once the job is not
   running; the attempt commits as 'started' before anything is sent. *)
ReserveCreate(j) ==
  /\ At(j, "post")
  /\ \/ Stopped(j) /\ UNCHANGED creates
     \/ /\ status[j] = "running" /\ ~cancelRequested[j]
        /\ SetAttempt(j, {}, "started")
        /\ Goto(j, "posting")
  /\ UNCHANGED <<jobVars, batch, archive, recorded, parsed, published, supplier, bounds>>

(* The POST: the supplier creates a batch or it does not, and answers, refuses
   for certain, or the answer is lost or useless. *)
Post(j) ==
  LET p == run[j].part
      Accepted == accepted' = [accepted EXCEPT ![j][p] = @ + 1]
      NotAccepted == UNCHANGED accepted
  IN
  /\ At(j, "posting")
  /\ \/ /\ Accepted
        /\ Goto(j, "answered")
        /\ UNCHANGED creates
     \/ /\ NotAccepted
        /\ SetAttempt(j, {"started"}, "rejected")
        /\ EndWith(j, "failed")
     \/ /\ Accepted \/ NotAccepted
        /\ LeaveUndecided(j)
        /\ \E how \in {"interrupted", "failed"} : EndWith(j, how)
  /\ UNCHANGED <<jobVars, batch, archive, recorded, parsed, published, uploads, bounds>>

RecordBatchInMemory(j) ==
  /\ At(j, "answered")
  /\ Goto(j, "kept")
  /\ UNCHANGED <<jobVars, durable, supplier, bounds>>

(* save_batch: the checkpoint is refused once the job is not active, or fails,
   and the batch id is then lost with the run. *)
RecordBatch(j) ==
  /\ At(j, "answered")
  /\ \/ /\ status[j] \in Active
        /\ batch' = [batch EXCEPT ![j] = @ \cup {run[j].part}]
        /\ Goto(j, "kept")
        /\ UNCHANGED creates
     \/ /\ LeaveUndecided(j)
        /\ EndWith(j, "failed")
        /\ UNCHANGED batch
  /\ UNCHANGED <<jobVars, archive, recorded, parsed, published, supplier, bounds>>

FinishCreate(j) ==
  /\ At(j, "kept")
  /\ \/ SetAttempt(j, {"started"}, "completed") /\ Goto(j, "upload")
     \/ LeaveUndecided(j) /\ EndWith(j, "failed")
  /\ UNCHANGED <<jobVars, batch, archive, recorded, parsed, published, supplier, bounds>>

ReserveUpload(j) ==
  /\ At(j, "upload")
  /\ \/ Stopped(j)
     \/ status[j] = "running" /\ ~cancelRequested[j] /\ Goto(j, "uploading")
  /\ UNCHANGED <<jobVars, durable, supplier, bounds>>

(* The PUT of the part's PDF; any failure of it is an unknown outcome, whether
   or not the supplier got the file. *)
Upload(j) ==
  /\ At(j, "uploading")
  /\ \/ /\ uploads' = [uploads EXCEPT ![j][run[j].part] = @ + 1]
        /\ Goto(j, "poll") \/ EndWith(j, "interrupted")
     \/ /\ UNCHANGED uploads
        /\ EndWith(j, "interrupted")
  /\ UNCHANGED <<jobVars, durable, accepted, bounds>>

(* wait_download ends: a check raises, the supplier reports a failure or never
   finishes, or the archive of an uploaded part is fetched. *)
Poll(j) ==
  /\ At(j, "poll")
  /\ \/ Stopped(j) /\ UNCHANGED archive
     \/ /\ StopReason(j) = "none"
        /\ uploads[j][run[j].part] > 0
        /\ archive' = [archive EXCEPT ![j] = @ \cup {run[j].part}]
        /\ Goto(j, "staged")
  /\ UNCHANGED <<jobVars, creates, batch, recorded, parsed, published, supplier, bounds>>

PublishPartAnyway(j) ==
  /\ At(j, "staged")
  /\ Goto(j, "published")
  /\ published' = [published EXCEPT ![j] = @ \cup {run[j].part}] \/ UNCHANGED published
  /\ UNCHANGED <<jobVars, creates, batch, archive, recorded, parsed, supplier, bounds>>

(* The Document Worker normalises the archive and the result is published,
   without a look at the job's status. *)
PublishPart(j) ==
  /\ At(j, "staged")
  /\ \/ /\ published' = [published EXCEPT ![j] = @ \cup {run[j].part}]
        /\ Goto(j, "published")
     \/ EndWith(j, "failed") /\ UNCHANGED published
  /\ UNCHANGED <<jobVars, creates, batch, archive, recorded, parsed, supplier, bounds>>

(* The checkpoint names the part's result; the archive is then removed. *)
RecordPart(j) ==
  /\ At(j, "published")
  /\ \/ /\ status[j] \in Active
        /\ recorded' = [recorded EXCEPT ![j] = @ \cup {run[j].part}]
        /\ archive' = [archive EXCEPT ![j] = @ \ {run[j].part}]
        /\ run' = [run EXCEPT ![j].pc = "part", ![j].part = @ + 1]
     \/ EndWith(j, "failed") /\ UNCHANGED <<recorded, archive>>
  /\ UNCHANGED <<jobVars, creates, batch, parsed, published, supplier, bounds>>

(* All parts are recorded: merge them and publish the merged structure. *)
Merge(j) ==
  /\ At(j, "part")
  /\ run[j].part \notin Parts
  /\ Goto(j, "merged") \/ EndWith(j, "failed")
  /\ UNCHANGED <<jobVars, durable, supplier, bounds>>

RecordMerge(j) ==
  /\ At(j, "merged")
  /\ \/ /\ status[j] \in Active
        /\ parsed' = [parsed EXCEPT ![j] = TRUE]
        /\ EndWith(j, "completed") \/ EndWith(j, "failed")
     \/ EndWith(j, "failed") /\ UNCHANGED parsed
  /\ UNCHANGED <<jobVars, creates, batch, archive, recorded, published, supplier, bounds>>

FinishWhateverTheStatus(j) ==
  /\ At(j, "ending")
  /\ status' = [status EXCEPT ![j] = run[j].outcome]
  /\ run' = [run EXCEPT ![j] = NoRun]
  /\ UNCHANGED <<cancelRequested, userActive, durable, supplier, bounds>>

Finish(j) ==
  /\ At(j, "ending")
  /\ FinishJob(j, run[j].outcome)
  /\ run' = [run EXCEPT ![j] = NoRun]
  /\ UNCHANGED <<durable, supplier, bounds>>

RunStep(j) ==
  \/ Start(j) \/ VisitPart(j) \/ ReserveCreate(j) \/ Post(j) \/ RecordBatch(j)
  \/ FinishCreate(j) \/ ReserveUpload(j) \/ Upload(j) \/ Poll(j)
  \/ PublishPart(j) \/ RecordPart(j) \/ Merge(j) \/ RecordMerge(j) \/ Finish(j)

-------------------------------------------------------------------------------

UpdateUser(o, value) ==
  /\ SetUserActive(o, value)
  /\ UNCHANGED <<durable, supplier, run, bounds>>

RecoverAttemptsAsInterrupted ==
  creates' = [j \in Job |-> [p \in Parts |->
    IF status[j] \in Active /\ "started" \in creates[j][p]
    THEN (creates[j][p] \ {"started"}) \cup {"interrupted"} ELSE creates[j][p]]]

(* recover(): the started attempts of the jobs it interrupts become unknown;
   those of a job that is terminal already stay as they are. *)
RecoverAttempts ==
  creates' = [j \in Job |-> [p \in Parts |->
    IF status[j] \in Active /\ "started" \in creates[j][p]
    THEN (creates[j][p] \ {"started"}) \cup {"unknown"} ELSE creates[j][p]]]

Restart ==
  /\ restarts < MaxRestarts
  /\ restarts' = restarts + 1
  /\ RecoverJobs
  /\ RecoverAttempts
  /\ run' = [j \in Job |-> NoRun]
  /\ UNCHANGED <<batch, archive, recorded, parsed, published, supplier, resumes>>

Next ==
  \/ \E j \in Job : Create(j) \/ Cancel(j) \/ Resume(j) \/ RunStep(j)
  \/ \E o \in Owner, value \in BOOLEAN : UpdateUser(o, value)
  \/ Restart

Spec == Init /\ [][Next]_vars

-------------------------------------------------------------------------------
(* Properties. *)

(* "A known MinerU batch is only queried, an unknown creation is not submitted
   again": the supplier creates at most one batch for a part of a job. *)
AtMostOneBatch == \A j \in Job, p \in Parts : accepted[j][p] <= 1

(* "Persist accepted identity before the upload": what is uploaded belongs to
   a batch that survives a crash, and it is uploaded once. *)
UploadsAreRecorded ==
  \A j \in Job, p \in Parts : uploads[j][p] <= (IF p \in batch[j] THEN 1 ELSE 0)

(* The checkpoint never says more than what happened, wherever a run broke
   off: the batches exist, the recorded parts have results, a parsed job has
   all of them, and a completed job is parsed. *)
CheckpointIsTrue ==
  \A j \in Job :
    /\ \A p \in batch[j] : accepted[j][p] > 0
    /\ recorded[j] \subseteq published[j]
    /\ parsed[j] => recorded[j] = Parts
    /\ status[j] = "completed" => parsed[j]

===============================================================================
