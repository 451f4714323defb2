---------------------------- MODULE TranslationJobs ----------------------------
(***************************************************************************)
(* Whole-PDF translation: the rows of translation_jobs in the Web process, *)
(* the dispatcher thread that hands one queued job after the other to the  *)
(* Translation Worker, a monitor thread per dispatched job that polls the  *)
(* Worker and writes what it saw into the row, and the requests of users,  *)
(* which write the same rows.  None of these writes is conditional.        *)
(***************************************************************************)
EXTENDS TranslationWorker

CONSTANTS
  Monitor,       (* bound: monitor threads at a time                       *)
  MaxRequests    (* bound: requests of users that stop a job               *)

ASSUME TranslationJobsAssumption ==
  IsFiniteSet(Monitor) /\ Monitor # {} /\ MaxRequests \in Nat

VARIABLES
  row,          (* translation_jobs.status, or "none"                       *)
  dispatcher,   (* the dispatcher thread                                    *)
  monitor,      (* the monitor threads                                      *)
  request,      (* a request that pauses, cancels or deletes a job          *)
  published,    (* papers that have the translation of a job                *)
  lost,         (* history: jobs whose thread died with them in hand        *)
  requests

webVars == <<row, dispatcher, monitor, request, published, lost, requests>>
vars == <<workerVars, webVars>>

RowStatus == Status \cup {"none", "dispatching"}

AnyJob == CHOOSE j \in Job : TRUE

(* "idle": between two iterations; "picked": holds a queued job; "asked": knows
   whether the Worker has to be given it (fresh); "claimed": has written dispatching; "created":
   the Worker has the job; "marked": has written running; "dead": an exception
   ended the thread. *)
Dispatcher == [pc : {"idle", "picked", "asked", "claimed", "created", "marked", "dead"},
               job : Job, fresh : BOOLEAN]
IdleDispatcher == [pc |-> "idle", job |-> AnyJob, fresh |-> FALSE]
DeadDispatcher == [pc |-> "dead", job |-> AnyJob, fresh |-> FALSE]

MonitorThread == [pc : {"none", "poll", "polled", "promoted", "completed"},
                  job : Job, saw : Seen]
NoMonitor == [pc |-> "none", job |-> AnyJob, saw |-> "unknown"]

(* Having read the row, a request goes on by "asking" the Worker or by
   "answering", which writes the row. *)
Request == [pc : {"none", "asking", "answering"}, op : {"pause", "cancel", "delete"},
            job : Job]
NoRequest == [pc |-> "none", op |-> "pause", job |-> AnyJob]

TypeOK ==
  /\ WorkerTypeOK
  /\ row \in [Job -> RowStatus]
  /\ dispatcher \in Dispatcher
  /\ monitor \in [Monitor -> MonitorThread]
  /\ request \in Request
  /\ published \subseteq Job
  /\ lost \subseteq Job
  /\ requests \in 0..MaxRequests

Init ==
  /\ WorkerInit
  /\ row = [j \in Job |-> "none"]
  /\ dispatcher = IdleDispatcher
  /\ monitor = [m \in Monitor |-> NoMonitor]
  /\ request = NoRequest
  /\ published = {}
  /\ lost = {}
  /\ requests = 0

SetRow(j, s) == row' = [row EXCEPT ![j] = s]

(* TranslationJobDAO.enqueue: the only write with a condition.  A row that is
   dispatching does not meet it. *)
Enqueue(j) ==
  row' = IF row[j] \in {"paused", "failed", "queued"}
         THEN [row EXCEPT ![j] = "queued"] ELSE row

-------------------------------------------------------------------------------
(* Requests of users. *)

(* POST /api/paper/translate: input.pdf is staged, then the row inserted. *)
Translate(j) ==
  /\ row[j] = "none"
  /\ SetRow(j, "queued")
  /\ staged' = staged \cup {j}
  /\ UNCHANGED <<memory, thread, process, file, output,
                 restarts, dispatcher, monitor, request, published, lost, requests>>

Resume(j) ==
  /\ row[j] \in {"paused", "failed"}
  /\ Enqueue(j)
  /\ UNCHANGED <<workerVars, dispatcher, monitor, request, published, lost, requests>>

Occupied == {"dispatching", "running"}

Admits(op, s) ==
  CASE op = "pause"  -> s \in Occupied \cup {"queued"}
    [] op = "cancel" -> s \notin Ended \cup {"none"}
    [] op = "delete" -> s # "none"

(* Pausing a paused job changes nothing. *)
ReadRow(op, j) ==
  /\ request.pc = "none"
  /\ requests < MaxRequests
  /\ Admits(op, row[j])
  /\ request' = [pc |-> IF row[j] \in Occupied THEN "asking" ELSE "answering",
                 op |-> op, job |-> j]
  /\ requests' = requests + 1
  /\ UNCHANGED <<workerVars, row, dispatcher, monitor, published, lost>>

(* The Worker does not know the job: cancel goes on, pause and delete end as an
   error, and so does a cancellation that raised in the Worker. *)
Refused(op, j) ==
  \/ known[j] = "unknown" /\ op # "cancel"
  \/ CancelRaises(j) /\ op # "pause"

CallWorker ==
  LET j == request.job op == request.op IN
  /\ request.pc = "asking"
  /\ \/ /\ Refused(op, j)
        /\ request' = NoRequest
        /\ UNCHANGED workerVars
     \/ /\ known[j] # "unknown" /\ ~Refused(op, j)
        /\ request' = [request EXCEPT !.pc = "answering"]
        /\ IF op = "pause" THEN PauseCall(j) ELSE CancelCall(j)
     \/ /\ request' = [request EXCEPT !.pc = "answering"]   (* not reached *)
        /\ UNCHANGED workerVars
  /\ UNCHANGED <<row, dispatcher, monitor, published, lost, requests>>

Answer ==
  /\ request.pc = "answering"
  /\ SetRow(request.job, IF request.op = "pause" THEN "paused" ELSE "cancelled")
  /\ request' = NoRequest
  /\ UNCHANGED <<workerVars, dispatcher, monitor, published, lost, requests>>

-------------------------------------------------------------------------------
(* The dispatcher thread. *)

Rest == dispatcher' = IdleDispatcher

Pick(j) ==
  /\ dispatcher.pc = "idle"
  /\ \A i \in Job : row[i] \notin Occupied
  /\ row[j] = "queued"
  /\ dispatcher' = [pc |-> "picked", job |-> j, fresh |-> FALSE]
  /\ UNCHANGED <<workerVars, row, monitor, request, published, lost, requests>>

(* The settings are missing; the Worker is not healthy; the question for the
   job's state is answered or not. *)
Ask ==
  LET j == dispatcher.job IN
  /\ dispatcher.pc = "picked"
  /\ \/ SetRow(j, "failed") /\ Rest
     \/ UNCHANGED row /\ Rest
     \/ Enqueue(j) /\ Rest
     \/ /\ UNCHANGED row
        /\ dispatcher' = [dispatcher EXCEPT
             !.pc = "asked", !.fresh = PublicState(j) \in {"unknown", "paused", "failed"}]
  /\ UNCHANGED <<workerVars, monitor, request, published, lost, requests>>

ClaimRow ==
  /\ dispatcher.pc = "asked"
  /\ SetRow(dispatcher.job, "dispatching")
  /\ dispatcher' = [dispatcher EXCEPT !.pc = "claimed"]
  /\ lost' = lost \ {dispatcher.job}
  /\ UNCHANGED <<workerVars, monitor, request, published, requests>>

CreateJob ==
  LET j == dispatcher.job
      created == UNCHANGED row /\ dispatcher' = [dispatcher EXCEPT !.pc = "created",
                                                           !.fresh = FALSE]
      givenUp == Enqueue(j) /\ Rest
  IN
  /\ dispatcher.pc = "claimed"
  /\ IF ~dispatcher.fresh
     THEN created /\ UNCHANGED workerVars
     ELSE \/ Submit(j) /\ (created \/ givenUp)       (* the answer may be lost *)
          \/ givenUp /\ UNCHANGED workerVars         (* busy, exists, unreachable *)
          \/ /\ j \notin staged                      (* missing_input *)
             /\ SetRow(j, "failed") /\ Rest
             /\ UNCHANGED workerVars
  /\ UNCHANGED <<monitor, request, published, lost, requests>>

(* Whatever the Worker thought of the job, the row reads as running from here. *)
MarkRunning ==
  /\ dispatcher.pc = "created"
  /\ SetRow(dispatcher.job, "running")
  /\ dispatcher' = [dispatcher EXCEPT !.pc = "marked"]
  /\ UNCHANGED <<workerVars, monitor, request, published, lost, requests>>

Free(m) == monitor[m].pc = "none"

(* The event is written, then the thread started. *)
StartMonitor ==
  /\ dispatcher.pc = "marked"
  /\ \E m \in Monitor :
       /\ Free(m)
       /\ monitor' = [monitor EXCEPT ![m] = [pc |-> "poll", job |-> dispatcher.job,
                                             saw |-> "unknown"]]
  /\ Rest
  /\ UNCHANGED <<workerVars, row, request, published, lost, requests>>

HasRowInHand == dispatcher.pc \in {"claimed", "created", "marked"}

(* A row that the dispatcher waits for is left as it is. *)
Leave(j) == lost' = IF row[j] \in Occupied THEN lost \cup {j} ELSE lost

(* The clauses of the dispatcher catch what the Worker's client raises.  The
   rest ends the thread where it stands, and nobody starts another one: a
   database that fails at any read or write, a PDF that is gone when its digest
   is taken. *)
DispatcherDies ==
  /\ dispatcher.pc # "dead"
  /\ dispatcher' = DeadDispatcher
  /\ IF HasRowInHand THEN Leave(dispatcher.job) ELSE UNCHANGED lost
  /\ UNCHANGED <<workerVars, row, monitor, request, published, requests>>

DispatcherStep ==
  \/ \E j \in Job : Pick(j)
  \/ Ask \/ ClaimRow \/ CreateJob \/ MarkRunning \/ StartMonitor
  \/ DispatcherDies

-------------------------------------------------------------------------------
(* A monitor thread. *)

EndMonitor(m) == monitor' = [monitor EXCEPT ![m] = NoMonitor]
MonitorAt(m, p, s) ==
  monitor' = [monitor EXCEPT ![m] = [pc |-> p, job |-> @.job, saw |-> s]]

Answered(m) ==
  LET j == monitor[m].job IN
  /\ PublicState(j) # "unknown"
  /\ MonitorAt(m, "polled", PublicState(j))
  /\ UNCHANGED row

(* An answer, or none: then the row goes back to the queue. *)
PollSilently(m) ==
  /\ monitor[m].pc = "poll"
  /\ \/ Answered(m)
     \/ UNCHANGED row /\ EndMonitor(m)
  /\ UNCHANGED <<workerVars, dispatcher, request, published, lost, requests>>

Poll(m) ==
  /\ monitor[m].pc = "poll"
  /\ \/ Answered(m)
     \/ SetRow(monitor[m].job, "queued") /\ EndMonitor(m)
  /\ UNCHANGED <<workerVars, dispatcher, request, published, lost, requests>>

Report(m) ==
  /\ monitor[m].pc = "polled"
  /\ monitor[m].saw # "completed"
  /\ SetRow(monitor[m].job, monitor[m].saw)
  /\ IF monitor[m].saw \in {"queued", "running"}
     THEN MonitorAt(m, "poll", "unknown")
     ELSE EndMonitor(m)
  /\ UNCHANGED <<workerVars, dispatcher, request, published, lost, requests>>

(* A completed job: the result replaces the paper's translation, the row is
   updated, then the job's directory is removed.  Each may raise. *)
SkipPromotion(m) ==
  /\ monitor[m].pc = "polled"
  /\ monitor[m].saw = "completed"
  /\ MonitorAt(m, "promoted", "completed")
  /\ UNCHANGED <<workerVars, row, dispatcher, request, published, lost, requests>>

Promote(m) ==
  /\ monitor[m].pc = "polled"
  /\ monitor[m].saw = "completed"
  /\ monitor[m].job \in output
  /\ published' = published \cup {monitor[m].job}
  /\ MonitorAt(m, "promoted", "completed")
  /\ UNCHANGED <<workerVars, row, dispatcher, request, lost, requests>>

CompleteRow(m) ==
  /\ monitor[m].pc = "promoted"
  /\ SetRow(monitor[m].job, "completed")
  /\ MonitorAt(m, "completed", "completed")
  /\ UNCHANGED <<workerVars, dispatcher, request, published, lost, requests>>

(* What the Worker's client does not raise fails the job: a paper or a result
   that is not there, a file or the database that cannot be written.  The write
   of the failure may fail in its turn, and the thread's first read of the row
   is outside of the try: then the thread ends and the row stays. *)
MonitorRaises(m) ==
  /\ monitor[m].pc # "none"
  /\ EndMonitor(m)
  /\ \/ SetRow(monitor[m].job, "failed") /\ UNCHANGED lost
     \/ UNCHANGED row /\ Leave(monitor[m].job)
  /\ UNCHANGED <<workerVars, dispatcher, request, published, requests>>

RemoveDirectory(j) ==
  /\ staged' = staged \ {j}
  /\ output' = output \ {j}
  /\ file' = [file EXCEPT ![j] = "unknown"]
  /\ UNCHANGED <<memory, thread, process, restarts>>

CleanUp(m) ==
  /\ monitor[m].pc = "completed"
  /\ RemoveDirectory(monitor[m].job)
  /\ EndMonitor(m)
  /\ UNCHANGED <<row, dispatcher, request, published, lost, requests>>

MonitorStep(m) ==
  Poll(m) \/ Report(m) \/ Promote(m) \/ CompleteRow(m) \/ CleanUp(m) \/ MonitorRaises(m)

(* The hourly cleanup of jobs that failed or were cancelled a week ago. *)
CleanUpOld(j) ==
  /\ file[j] \in {"failed", "cancelled"}
  /\ RemoveDirectory(j)
  /\ UNCHANGED webVars

(* The Web process restarts: the dispatcher queues again what was at work. *)
RestartWeb ==
  /\ restarts < MaxRestarts
  /\ restarts' = restarts + 1
  /\ row' = [j \in Job |-> IF row[j] \in Occupied THEN "queued" ELSE row[j]]
  /\ dispatcher' = IdleDispatcher
  /\ monitor' = [m \in Monitor |-> NoMonitor]
  /\ request' = NoRequest
  /\ lost' = {}
  /\ UNCHANGED <<memory, thread, process, disk, published, requests>>

-------------------------------------------------------------------------------
Next ==
  \/ \E j \in Job : \/ Translate(j)
                    \/ Resume(j)
                    \/ CleanUpOld(j)
                    \/ \E op \in {"pause", "cancel", "delete"} : ReadRow(op, j)
  \/ CallWorker
  \/ Answer
  \/ DispatcherStep
  \/ \E m \in Monitor : MonitorStep(m)
  \/ RestartWeb
  \/ WorkerStep /\ UNCHANGED webVars

Spec == Init /\ [][Next]_vars

-------------------------------------------------------------------------------
(* A row says completed only when the paper has the translation: the monitor
   publishes first, and no writer but the monitor that published says so. *)
CompletedIsPublished == \A j \in Job : row[j] = "completed" => j \in published

(* A monitor that has published and written completed looks no more. *)
Watches(m, j) == monitor[m].pc \in {"poll", "polled", "promoted"} /\ monitor[m].job = j

(* The dispatcher waits for as long as a row is running, so somebody has to
   write it again: a running row has a monitor, or the dispatcher is about to
   start one.  The exception is what nobody in this process repairs: a thread
   that died of an exception, by the database for one, with this row in hand. *)
RunningIsWatched ==
  \A j \in Job : row[j] = "running" =>
    \/ \E m \in Monitor : Watches(m, j)
    \/ dispatcher.pc = "marked" /\ dispatcher.job = j
    \/ j \in lost

(* The same of every row that the dispatcher waits for, one that reads as
   dispatching included: the dispatcher or a monitor has it in hand, unless a
   thread died. *)
OccupiedIsServed ==
  \A j \in Job : row[j] \in Occupied =>
    \/ dispatcher.pc \notin {"idle", "dead"} /\ dispatcher.job = j
    \/ \E m \in Monitor : Watches(m, j)
    \/ j \in lost

===============================================================================
