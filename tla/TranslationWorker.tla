--------------------------- MODULE TranslationWorker ---------------------------
(***************************************************************************)
(* The Translation Worker: a service that translates one PDF at a time.    *)
(* submit() starts a thread for a job, the thread starts a BabelDOC        *)
(* process and watches it, a reader thread follows the process' output and *)
(* rewrites status.json, and cancel() and pause() ask for an end.  After a *)
(* restart the jobs are known from status.json only.                       *)
(***************************************************************************)
EXTENDS Naturals, FiniteSets

CONSTANTS
  Job,           (* the translation jobs                                   *)
  MaxRestarts    (* bound: restarts, of the Worker and of the Web process  *)

ASSUME TranslationWorkerAssumption ==
  IsFiniteSet(Job) /\ Job # {} /\ MaxRestarts \in Nat

VARIABLES
  known,      (* _jobs: the status of a job in memory, or "unknown"         *)
  stop,       (* requested_terminal; the cancel event is set with it        *)
  recovered,  (* jobs loaded from status.json: they have no cancel event    *)
  thread,     (* the _run thread of a job                                   *)
  process,    (* the job's BabelDOC process; one that nobody watches any    *)
              (* more and its successor are one process here                *)
  file,       (* the status in status.json, or "unknown" without the file   *)
  staged,     (* jobs whose directory holds input.pdf                       *)
  output,     (* jobs whose directory holds the translation                 *)
  restarts

workerVars == <<known, stop, recovered, thread, process, file,
                staged, output, restarts>>
memory == <<known, stop, recovered>>
disk   == <<file, staged, output>>

Ended == {"completed", "failed", "cancelled"}
Status == Ended \cup {"queued", "running", "paused"}
Seen == Status \cup {"unknown"}

(* The thread: "started", before it sets the status to running; "watching"
   the process; "returned" from the executor; "ending" with an outcome. *)
Thread == [pc : {"none", "started", "watching", "returned", "ending"},
           outcome : Status]

NoThread == [pc |-> "none", outcome |-> "failed"]

WorkerTypeOK ==
  /\ known \in [Job -> Seen]
  /\ stop \in [Job -> {"none", "cancelled", "paused"}]
  /\ recovered \subseteq Job
  /\ thread \in [Job -> Thread]
  /\ process \in [Job -> {"none", "running", "ok", "broken"}]
  /\ file \in [Job -> Seen]
  /\ staged \subseteq Job
  /\ output \subseteq Job
  /\ restarts \in 0..MaxRestarts

WorkerInit ==
  /\ known = [j \in Job |-> "unknown"]
  /\ stop = [j \in Job |-> "none"]
  /\ recovered = {}
  /\ thread = [j \in Job |-> NoThread]
  /\ process = [j \in Job |-> "none"]
  /\ file = [j \in Job |-> "unknown"]
  /\ staged = {}
  /\ output = {}
  /\ restarts = 0

-------------------------------------------------------------------------------
(* Requests of the Web process. *)

(* What GET /v1/jobs/<id> answers: the memory, else status.json. *)
PublicState(j) == IF known[j] # "unknown" THEN known[j] ELSE file[j]

WorkerIdle == \A j \in Job : known[j] \notin {"queued", "running"}

Submit(j) ==
  /\ j \in staged
  /\ WorkerIdle
  /\ known[j] \in {"unknown", "paused", "failed"}
  /\ known' = [known EXCEPT ![j] = "queued"]
  /\ stop' = [stop EXCEPT ![j] = "none"]
  /\ recovered' = recovered \ {j}
  /\ file' = [file EXCEPT ![j] = "queued"]
  /\ thread' = [thread EXCEPT ![j] = [NoThread EXCEPT !.pc = "started"]]
  /\ UNCHANGED <<process, staged, output, restarts>>

(* The effect of cancel() and pause() on the request to stop.  Cancelling a
   recovered job that is not at its end raises: it has no event to set. *)
RequestStop(j, s) ==
  /\ stop' = [stop EXCEPT ![j] = s]
  /\ UNCHANGED <<known, recovered, thread, process, file,
                 staged, output, restarts>>

CancelRaises(j) == known[j] = "paused" /\ j \in recovered

CancelCall(j) ==
  IF known[j] \in Ended THEN UNCHANGED workerVars ELSE RequestStop(j, "cancelled")

PauseAtOnce(j) ==
  IF known[j] \in Ended \cup {"paused"} THEN UNCHANGED workerVars
  ELSE /\ stop' = [stop EXCEPT ![j] = "paused"]
       /\ known' = [known EXCEPT ![j] = "paused"]
       /\ UNCHANGED <<recovered, thread, process, disk, restarts>>

PauseCall(j) ==
  IF known[j] \in Ended \cup {"paused"} THEN UNCHANGED workerVars
                                        ELSE RequestStop(j, "paused")

-------------------------------------------------------------------------------
(* The thread of a job, its process and its reader. *)

EndWith(j, s) == thread' = [thread EXCEPT ![j] = [pc |-> "ending", outcome |-> s]]
Goto(j, p) == thread' = [thread EXCEPT ![j] = [pc |-> p, outcome |-> @.outcome]]

Begin(j) ==
  /\ thread[j].pc = "started"
  /\ known' = [known EXCEPT ![j] = "running"]
  /\ file' = [file EXCEPT ![j] = "running"]
  /\ \/ Goto(j, "watching") /\ process' = [process EXCEPT ![j] = "running"]
     \/ EndWith(j, "failed") /\ UNCHANGED process
  /\ UNCHANGED <<stop, recovered, staged, output, restarts>>

(* The process ends by itself; one that ends well has written the output. *)
ProcessExits(j) ==
  /\ process[j] = "running"
  /\ \/ process' = [process EXCEPT ![j] = "ok"] /\ output' = output \cup ({j} \cap staged)
     \/ process' = [process EXCEPT ![j] = "broken"] /\ UNCHANGED output
  /\ UNCHANGED <<memory, thread, file, staged, restarts>>

(* The handler that asked for the end terminates the process group too. *)
Terminate(j) ==
  /\ stop[j] # "none"
  /\ process[j] = "running"
  /\ process' = [process EXCEPT ![j] = "broken"]
  /\ UNCHANGED <<memory, thread, disk, restarts>>

SeeExit(j) ==
  /\ process[j] # "running"
  /\ Goto(j, "returned")
  /\ UNCHANGED process

SeeStop(j) ==
  /\ process[j] = "running" /\ stop[j] # "none"
  /\ Goto(j, "returned")
  /\ process' = [process EXCEPT ![j] = "broken"]

(* The hour is over, or the job's files are too large. *)
ExceedLimits(j) ==
  /\ process[j] = "running" /\ stop[j] = "none"
  /\ EndWith(j, "failed")
  /\ process' = [process EXCEPT ![j] = "broken"]

(* Measuring the job raises (a link, a file that vanished meanwhile): the
   exception leaves the loop without ending the process. *)
MeasureRaises(j) ==
  /\ process[j] = "running" /\ stop[j] = "none"
  /\ EndWith(j, "failed")
  /\ UNCHANGED process

Watch(j) ==
  /\ thread[j].pc = "watching"
  /\ SeeExit(j) \/ SeeStop(j) \/ ExceedLimits(j) \/ MeasureRaises(j)
  /\ UNCHANGED <<memory, disk, restarts>>

(* The executor returned: a request to stop decides, then the exit status,
   then the output. *)
Evaluate(j) ==
  /\ thread[j].pc = "returned"
  /\ \/ stop[j] # "none" /\ EndWith(j, stop[j])
     \/ /\ stop[j] = "none" /\ process[j] = "ok" /\ j \in output
        /\ EndWith(j, "completed")
     \/ stop[j] = "none" /\ EndWith(j, "failed")
  /\ UNCHANGED <<memory, process, disk, restarts>>

(* The outcome is written under the lock, whatever was asked since it was
   decided.  The reader thread writes status.json through the same temporary
   file without the lock: an earlier status of the job may be what stays. *)
Settle(j) ==
  /\ thread[j].pc = "ending"
  /\ known' = [known EXCEPT ![j] = thread[j].outcome]
  /\ \/ file' = [file EXCEPT ![j] = thread[j].outcome]
     \/ UNCHANGED file
  /\ thread' = [thread EXCEPT ![j] = NoThread]
  /\ process' = [process EXCEPT ![j] = IF @ = "running" THEN @ ELSE "none"]
  /\ UNCHANGED <<stop, recovered, staged, output, restarts>>

RunThread(j) == Begin(j) \/ Watch(j) \/ Evaluate(j) \/ Settle(j)

-------------------------------------------------------------------------------
(* A restart: threads and processes are gone, what was at work is paused. *)
RecoveredAsInterrupted(s) == IF s \in {"queued", "running"} THEN "interrupted" ELSE s

Recovered(s) == IF s \in {"queued", "running"} THEN "paused" ELSE s

RestartWorker ==
  /\ restarts < MaxRestarts
  /\ restarts' = restarts + 1
  /\ known' = [j \in Job |-> Recovered(file[j])]
  /\ file' = [j \in Job |-> Recovered(file[j])]
  /\ recovered' = {j \in Job : file[j] # "unknown"}
  /\ stop' = [j \in Job |-> "none"]
  /\ thread' = [j \in Job |-> NoThread]
  /\ process' = [j \in Job |-> "none"]
  /\ UNCHANGED <<staged, output>>

WorkerStep ==
  \/ RestartWorker
  \/ \E j \in Job : \/ RunThread(j)
                    \/ ProcessExits(j)
                    \/ Terminate(j)

-------------------------------------------------------------------------------
(* One job is at work at a time, over cancellations, pauses, failures and
   resubmissions of the same job: service.submit refuses while a status is
   queued or running, and only the thread that ends leaves these. *)
OneThread ==
  /\ Cardinality({j \in Job : thread[j].pc # "none"}) <= 1
  /\ \A j \in Job : thread[j].pc # "none" => known[j] \in {"queued", "running"}

===============================================================================
