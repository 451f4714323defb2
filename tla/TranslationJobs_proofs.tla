------------------------ MODULE TranslationJobs_proofs -------------------------
(***************************************************************************)
(* Proofs about the rows of translation jobs and the Translation Worker,   *)
(* for any set of jobs and monitors, and any number of requests and        *)
(* restarts.                                                               *)
(***************************************************************************)
EXTENDS TranslationJobs, FiniteSetTheorems, TLAPS

USE TranslationWorkerAssumption, TranslationJobsAssumption

LEMMA SomeJob == AnyJob \in Job
BY DEF AnyJob

(***************************************************************************)
(* The Worker.  Its steps and calls keep its types and the reason why one  *)
(* job is at work at a time: a job with a thread reads as queued or        *)
(* running, submit() looks for such a status, and a thread leaves it by    *)
(* its end only.                                                           *)
(***************************************************************************)
AtWork(j) == thread[j].pc # "none"

Alone ==
  /\ \A j \in Job : AtWork(j) => known[j] \in {"queued", "running"}
  /\ \A i, j \in Job : AtWork(i) /\ AtWork(j) => i = j
  /\ \A j \in Job : thread[j].pc = "ending" => thread[j].outcome \in Ended \cup {"paused"}

WorkerInv == WorkerTypeOK /\ Alone

LEMMA SubmitKeeps ==
  ASSUME WorkerInv, NEW j \in Job, Submit(j)
  PROVE  WorkerInv'
<1> USE DEF WorkerInv
<1>1. WorkerTypeOK'
  BY DEF Submit, WorkerTypeOK, Thread, NoThread, Ended, Status, Seen
<1>2. \A i \in Job : ~AtWork(i)
  BY DEF Submit, WorkerIdle, Alone
<1>3. Alone'
  BY <1>2 DEF Submit, Alone, AtWork, WorkerTypeOK, Thread, NoThread, Ended
<1> QED
  BY <1>1, <1>3

LEMMA CallsKeep ==
  ASSUME WorkerInv, NEW j \in Job, PauseCall(j) \/ CancelCall(j)
  PROVE  WorkerInv'
<1> USE DEF WorkerInv
<1>1. CASE UNCHANGED workerVars
  BY <1>1 DEF workerVars, WorkerTypeOK, Alone, AtWork
<1>2. ASSUME NEW s \in {"cancelled", "paused"}, RequestStop(j, s) PROVE WorkerInv'
  BY <1>2 DEF RequestStop, WorkerTypeOK, Alone, AtWork
<1> QED
  BY <1>1, <1>2 DEF PauseCall, CancelCall

(* A thread that is at work goes on: to its next place, or to an outcome. *)
LEMMA MovesOn ==
  ASSUME WorkerInv, NEW j \in Job, AtWork(j),
         NEW t \in Thread, t.pc # "none",
         t.pc = "ending" => t.outcome \in Ended \cup {"paused"},
         thread' = [thread EXCEPT ![j] = t],
         known' = known \/ known' = [known EXCEPT ![j] = "running"]
  PROVE  thread' \in [Job -> Thread] /\ Alone'
<1> USE DEF WorkerInv, WorkerTypeOK
<1>1. thread' \in [Job -> Thread]
  OBVIOUS
<1>2. \A i \in Job : AtWork(i)' => AtWork(i)
  BY DEF AtWork
<1>3. \A i \in Job : AtWork(i)' => known'[i] \in {"queued", "running"}
  BY <1>2 DEF Alone
<1>4. \A i \in Job : thread'[i].pc = "ending" => thread'[i].outcome \in Ended \cup {"paused"}
  BY DEF Alone
<1> QED
  BY <1>1, <1>2, <1>3, <1>4 DEF Alone

LEMMA GoesTo ==
  ASSUME WorkerInv, NEW j \in Job, AtWork(j), NEW p \in {"watching", "returned"}, Goto(j, p),
         known' = known \/ known' = [known EXCEPT ![j] = "running"]
  PROVE  thread' \in [Job -> Thread] /\ Alone'
<1> DEFINE t == [pc |-> p, outcome |-> thread[j].outcome]
<1>1. t \in Thread /\ t.pc # "none" /\ t.pc # "ending"
  BY DEF WorkerInv, WorkerTypeOK, Thread
<1>2. thread' = [thread EXCEPT ![j] = t]
  BY DEF Goto, WorkerInv, WorkerTypeOK, Thread
<1> QED
  BY <1>1, <1>2, MovesOn

LEMMA Concludes ==
  ASSUME WorkerInv, NEW j \in Job, AtWork(j), NEW s \in Ended \cup {"paused"}, EndWith(j, s),
         known' = known \/ known' = [known EXCEPT ![j] = "running"]
  PROVE  thread' \in [Job -> Thread] /\ Alone'
<1> DEFINE t == [pc |-> "ending", outcome |-> s]
<1>1. t \in Thread /\ t.pc # "none" /\ t.outcome \in Ended \cup {"paused"}
  BY DEF Thread, Status
<1>2. thread' = [thread EXCEPT ![j] = t]
  BY DEF EndWith
<1> QED
  BY <1>1, <1>2, MovesOn

LEMMA BeginKeeps ==
  ASSUME WorkerInv, NEW j \in Job, Begin(j)
  PROVE  WorkerInv'
<1>1. AtWork(j)
  BY DEF Begin, AtWork
<1>2. thread' \in [Job -> Thread] /\ Alone'
  BY <1>1, GoesTo, Concludes DEF Begin, Ended
<1>3. known' \in [Job -> Seen] /\ file' \in [Job -> Seen]
  BY DEF Begin, WorkerInv, WorkerTypeOK, Seen, Status
<1>4. process' \in [Job -> {"none", "running", "ok", "broken"}]
  BY DEF Begin, WorkerInv, WorkerTypeOK
<1> QED
  BY <1>2, <1>3, <1>4 DEF Begin, WorkerInv, WorkerTypeOK

LEMMA WatchKeeps ==
  ASSUME WorkerInv, NEW j \in Job, Watch(j)
  PROVE  WorkerInv'
<1>1. AtWork(j) /\ known' = known
  BY DEF Watch, AtWork, memory
<1>2. thread' \in [Job -> Thread] /\ Alone'
  BY <1>1, GoesTo, Concludes DEF Watch, SeeExit, SeeStop, ExceedLimits, MeasureRaises, Ended
<1>3. process' \in [Job -> {"none", "running", "ok", "broken"}]
  BY DEF Watch, SeeExit, SeeStop, ExceedLimits, MeasureRaises, WorkerInv, WorkerTypeOK
<1> QED
  BY <1>2, <1>3 DEF Watch, memory, disk, WorkerInv, WorkerTypeOK

LEMMA EvaluateKeeps ==
  ASSUME WorkerInv, NEW j \in Job, Evaluate(j)
  PROVE  WorkerInv'
<1>1. AtWork(j) /\ known' = known
  BY DEF Evaluate, AtWork, memory
<1>2. PICK s \in Ended \cup {"paused"} : EndWith(j, s)
  BY DEF Evaluate, WorkerInv, WorkerTypeOK, Ended
<1>3. thread' \in [Job -> Thread] /\ Alone'
  BY <1>1, <1>2, Concludes
<1> QED
  BY <1>3 DEF Evaluate, memory, disk, WorkerInv, WorkerTypeOK

LEMMA SettleKeeps ==
  ASSUME WorkerInv, NEW j \in Job, Settle(j)
  PROVE  WorkerInv'
<1> USE DEF WorkerInv
<1>1. NoThread \in Thread /\ thread[j].outcome \in Seen
  BY DEF NoThread, WorkerTypeOK, Thread, Ended, Status, Seen
<1>2. known' \in [Job -> Seen] /\ file' \in [Job -> Seen] /\ thread' \in [Job -> Thread]
  BY <1>1 DEF Settle, WorkerTypeOK
<1>3. process' \in [Job -> {"none", "running", "ok", "broken"}]
  BY DEF Settle, WorkerTypeOK
<1>4. WorkerTypeOK'
  BY <1>2, <1>3 DEF Settle, WorkerTypeOK
<1>5. Alone'
  BY DEF Settle, NoThread, Alone, AtWork, WorkerTypeOK, Thread, Ended, Status
<1> QED
  BY <1>4, <1>5

LEMMA ProcessKeeps ==
  ASSUME WorkerInv, NEW j \in Job, ProcessExits(j) \/ Terminate(j)
  PROVE  WorkerInv'
BY DEF WorkerInv, ProcessExits, Terminate, memory, disk, WorkerTypeOK, Alone, AtWork

LEMMA RestartKeeps ==
  ASSUME WorkerInv, RestartWorker
  PROVE  WorkerInv'
<1> USE DEF WorkerInv
<1>1. WorkerTypeOK'
  BY DEF RestartWorker, Recovered, NoThread, WorkerTypeOK, Thread, Ended, Status, Seen
<1>2. \A j \in Job : ~AtWork(j)' /\ thread'[j].pc = "none"
  BY DEF RestartWorker, NoThread, AtWork
<1>3. Alone'
  BY <1>2 DEF Alone
<1> QED
  BY <1>1, <1>3

LEMMA DirectoryKeeps ==
  ASSUME WorkerInv, NEW j \in Job, RemoveDirectory(j)
  PROVE  WorkerInv'
BY DEF WorkerInv, RemoveDirectory, memory, WorkerTypeOK, Alone, AtWork, Seen

LEMMA WorkerStepKeeps ==
  ASSUME WorkerInv, WorkerStep
  PROVE  WorkerInv'
BY BeginKeeps, WatchKeeps, EvaluateKeeps, SettleKeeps, ProcessKeeps, RestartKeeps
DEF WorkerStep, RunThread

(***************************************************************************)
(* The Web process.                                                        *)
(***************************************************************************)
(* A monitor past the publication has published, one that has an answer knows
   it; what watches a running row has not removed the job's directory yet. *)
Promoted == \A m \in Monitor :
  monitor[m].pc \in {"promoted", "completed"} => monitor[m].job \in published

Heard == \A m \in Monitor : monitor[m].pc = "polled" => monitor[m].saw # "unknown"

(* Why a running row does not stay so: RunningIsWatched, for one job. *)
Attended(j) ==
  \/ \E m \in Monitor : Watches(m, j)
  \/ dispatcher.pc = "marked" /\ dispatcher.job = j
  \/ j \in lost

Watched == \A j \in Job : row[j] = "running" => Attended(j)

StaysAttended(j) == row[j] = "running" /\ Attended(j) => Attended(j)'

RowInv == row \in [Job -> RowStatus] /\ CompletedIsPublished /\ Watched
MonitorInv == monitor \in [Monitor -> MonitorThread] /\ Promoted /\ Heard
RestInv ==
  /\ dispatcher \in Dispatcher
  /\ request \in Request
  /\ published \subseteq Job
  /\ lost \subseteq Job
  /\ requests \in 0..MaxRequests

WebInv == RowInv /\ MonitorInv /\ RestInv

Inv == WorkerInv /\ WebInv

LEMMA WebUnchanged == WebInv /\ UNCHANGED webVars => WebInv'
BY DEF webVars, WebInv, RowInv, MonitorInv, RestInv, Promoted, Heard, CompletedIsPublished,
       Watched, Attended, Watches

LEMMA WorkerUnchanged == WorkerInv /\ UNCHANGED workerVars => WorkerInv'
BY DEF workerVars, WorkerInv, WorkerTypeOK, Alone, AtWork

LEMMA MonitorsUntouched == MonitorInv /\ UNCHANGED <<monitor, published>> => MonitorInv'
BY DEF MonitorInv, Promoted, Heard

(* A row that is not called running or completed disturbs nothing, whoever
   writes it. *)
LEMMA PlainWrite ==
  ASSUME RowInv, NEW j \in Job, NEW s \in RowStatus \ {"running", "completed"},
         SetRow(j, s), published' = published,
         \A i \in Job \ {j} : StaysAttended(i)
  PROVE  RowInv'
<1>1. row' \in [Job -> RowStatus] /\ row'[j] = s /\ \A i \in Job \ {j} : row'[i] = row[i]
  BY DEF SetRow, RowInv
<1>2. CompletedIsPublished'
  BY <1>1 DEF RowInv, CompletedIsPublished
<1>3. Watched'
  BY <1>1 DEF RowInv, Watched, StaysAttended
<1> QED
  BY <1>1, <1>2, <1>3 DEF RowInv

LEMMA EnqueueWrites ==
  ASSUME RowInv, NEW j \in Job, Enqueue(j), published' = published,
         \A i \in Job : StaysAttended(i)
  PROVE  RowInv'
<1>1. row' \in [Job -> RowStatus] /\ \A i \in Job : row'[i] = row[i] \/ row'[i] = "queued"
  BY DEF Enqueue, RowInv, RowStatus, Status
<1>2. CompletedIsPublished'
  BY <1>1 DEF RowInv, CompletedIsPublished
<1>3. Watched'
  BY <1>1 DEF RowInv, Watched, StaysAttended
<1> QED
  BY <1>1, <1>2, <1>3 DEF RowInv

LEMMA RowUntouched ==
  ASSUME RowInv, UNCHANGED <<row, published>>, \A i \in Job : StaysAttended(i)
  PROVE  RowInv'
BY DEF RowInv, CompletedIsPublished, Watched, StaysAttended

(* Nobody who attends to a row moves. *)
LEMMA AllRest ==
  ASSUME UNCHANGED <<monitor, lost>>, dispatcher.pc # "marked" \/ dispatcher' = dispatcher
  PROVE  \A i \in Job : StaysAttended(i)
BY DEF StaysAttended, Attended, Watches

(* Requests. *)
LEMMA TranslateKeeps ==
  ASSUME Inv, NEW j \in Job, Translate(j)
  PROVE  Inv'
<1>1. RowInv'
  BY PlainWrite, AllRest DEF Translate, Inv, WebInv, RowStatus, Status
<1>2. WorkerInv'
  BY DEF Translate, memory, Inv, WorkerInv, WorkerTypeOK, Alone, AtWork
<1> QED
  BY <1>1, <1>2, MonitorsUntouched DEF Translate, Inv, WebInv, RestInv

LEMMA ResumeKeeps ==
  ASSUME Inv, NEW j \in Job, Resume(j)
  PROVE  Inv'
<1>1. RowInv'
  BY EnqueueWrites, AllRest DEF Resume, Inv, WebInv
<1> QED
  BY <1>1, WorkerUnchanged, MonitorsUntouched DEF Resume, Inv, WebInv, RestInv

LEMMA ReadRowKeeps ==
  ASSUME Inv, NEW j \in Job, NEW op \in {"pause", "cancel", "delete"}, ReadRow(op, j)
  PROVE  Inv'
<1>1. RowInv'
  BY RowUntouched, AllRest DEF ReadRow, Inv, WebInv
<1>2. RestInv'
  BY DEF ReadRow, Inv, WebInv, RestInv, Request
<1> QED
  BY <1>1, <1>2, WorkerUnchanged, MonitorsUntouched DEF ReadRow, Inv, WebInv

LEMMA CallWorkerKeeps ==
  ASSUME Inv, CallWorker
  PROVE  Inv'
<1>1. RowInv'
  BY RowUntouched, AllRest DEF CallWorker, Inv, WebInv
<1>2. request.job \in Job
  BY DEF Inv, WebInv, RestInv, Request
<1>3. RestInv'
  BY SomeJob DEF CallWorker, Inv, WebInv, RestInv, Request, NoRequest
<1>4. WorkerInv'
  BY <1>2, CallsKeep, WorkerUnchanged DEF CallWorker, Inv
<1> QED
  BY <1>1, <1>3, <1>4, MonitorsUntouched DEF CallWorker, Inv, WebInv

LEMMA AnswerKeeps ==
  ASSUME Inv, Answer
  PROVE  Inv'
<1>1. request.job \in Job
  BY DEF Inv, WebInv, RestInv, Request
<1>2. RowInv'
  BY <1>1, PlainWrite, AllRest DEF Answer, Inv, WebInv, RowStatus, Status, Ended
<1>3. RestInv'
  BY SomeJob DEF Answer, Inv, WebInv, RestInv, Request, NoRequest
<1> QED
  BY <1>2, <1>3, WorkerUnchanged, MonitorsUntouched DEF Answer, Inv, WebInv

(* The dispatcher. *)
LEMMA RestIsTyped == IdleDispatcher \in Dispatcher
BY SomeJob DEF IdleDispatcher, Dispatcher

LEMMA PickKeeps ==
  ASSUME Inv, NEW j \in Job, Pick(j)
  PROVE  Inv'
<1>1. RowInv'
  BY RowUntouched, AllRest DEF Pick, Inv, WebInv
<1>2. RestInv'
  BY DEF Pick, Inv, WebInv, RestInv, Dispatcher
<1> QED
  BY <1>1, <1>2, WorkerUnchanged, MonitorsUntouched DEF Pick, Inv, WebInv

LEMMA AskKeeps ==
  ASSUME Inv, Ask
  PROVE  Inv'
<1>1. dispatcher.job \in Job
  BY DEF Inv, WebInv, RestInv, Dispatcher
<1>2. SetRow(dispatcher.job, "failed") \/ Enqueue(dispatcher.job) \/ UNCHANGED row
  BY DEF Ask
<1>3. RowInv'
  BY <1>1, <1>2, AllRest, PlainWrite, EnqueueWrites, RowUntouched
  DEF Ask, Inv, WebInv, RowStatus, Status, Ended
<1> DEFINE new == PublicState(dispatcher.job) \in {"unknown", "paused", "failed"}
           asked == [dispatcher EXCEPT !.pc = "asked", !.fresh = new]
<1>4. dispatcher' \in {IdleDispatcher, asked}
  BY DEF Ask, Rest
<1>5. {IdleDispatcher, asked} \subseteq Dispatcher
  <2>2. ASSUME NEW b \in BOOLEAN
        PROVE  [dispatcher EXCEPT !.pc = "asked", !.fresh = b] \in Dispatcher
    BY DEF Inv, WebInv, RestInv, Dispatcher
  <2>3. new \in BOOLEAN
    OBVIOUS
  <2>4. asked \in Dispatcher
    <3> HIDE DEF new
    <3> QED
      BY <2>2, <2>3
  <2> QED
    BY <2>4, RestIsTyped
<1>6. dispatcher' \in Dispatcher
  BY <1>4, <1>5
<1> QED
  BY <1>3, <1>6, WorkerUnchanged, MonitorsUntouched DEF Ask, Inv, WebInv, RestInv

LEMMA ClaimRowKeeps ==
  ASSUME Inv, ClaimRow
  PROVE  Inv'
<1>1. dispatcher.job \in Job /\ dispatcher' \in Dispatcher
  BY DEF ClaimRow, Inv, WebInv, RestInv, Dispatcher
<1>2. \A i \in Job \ {dispatcher.job} : StaysAttended(i)
  BY DEF ClaimRow, StaysAttended, Attended, Watches
<1>3. RowInv'
  BY <1>1, <1>2, PlainWrite DEF ClaimRow, Inv, WebInv, RowStatus
<1>4. lost' \subseteq Job
  BY DEF ClaimRow, Inv, WebInv, RestInv
<1> QED
  BY <1>1, <1>3, <1>4, WorkerUnchanged, MonitorsUntouched DEF ClaimRow, Inv, WebInv, RestInv

LEMMA CreateJobKeeps ==
  ASSUME Inv, CreateJob
  PROVE  Inv'
<1>1. dispatcher.job \in Job
  BY DEF Inv, WebInv, RestInv, Dispatcher
<1>2. SetRow(dispatcher.job, "failed") \/ Enqueue(dispatcher.job) \/ UNCHANGED row
  BY DEF CreateJob
<1>3. RowInv'
  BY <1>1, <1>2, AllRest, PlainWrite, EnqueueWrites, RowUntouched
  DEF CreateJob, Inv, WebInv, RowStatus, Status, Ended
<1>4. dispatcher' \in Dispatcher
  BY <1>1, RestIsTyped DEF CreateJob, Rest, Dispatcher, Inv, WebInv, RestInv
<1>5. WorkerInv'
  BY <1>1, SubmitKeeps, WorkerUnchanged DEF CreateJob, Inv
<1> QED
  BY <1>3, <1>4, <1>5, MonitorsUntouched DEF CreateJob, Inv, WebInv, RestInv

LEMMA MarkRunningKeeps ==
  ASSUME Inv, MarkRunning
  PROVE  Inv'
<1>1. PICK d \in Job : d = dispatcher.job
  BY DEF Inv, WebInv, RestInv, Dispatcher
<1>2. dispatcher' \in Dispatcher /\ dispatcher'.pc = "marked" /\ dispatcher'.job = d
  BY <1>1 DEF MarkRunning, Inv, WebInv, RestInv, Dispatcher
<1>3. /\ row' \in [Job -> RowStatus] /\ row'[d] = "running"
      /\ \A i \in Job \ {d} : row'[i] = row[i]
  BY <1>1 DEF MarkRunning, SetRow, Inv, WebInv, RowInv, RowStatus, Status
<1>4. \A i \in Job : StaysAttended(i)
  BY AllRest DEF MarkRunning
<1>5. Attended(d)'
  BY <1>2 DEF Attended
<1>6. Watched'
  BY <1>3, <1>4, <1>5 DEF Inv, WebInv, RowInv, Watched, StaysAttended
<1>7. CompletedIsPublished'
  BY <1>3 DEF MarkRunning, Inv, WebInv, RowInv, CompletedIsPublished
<1> QED
  BY <1>2, <1>3, <1>6, <1>7, WorkerUnchanged, MonitorsUntouched
  DEF MarkRunning, Inv, WebInv, RowInv, RestInv

LEMMA StartMonitorKeeps ==
  ASSUME Inv, StartMonitor
  PROVE  Inv'
<1>1. PICK d \in Job : d = dispatcher.job
  BY DEF Inv, WebInv, RestInv, Dispatcher
<1> DEFINE t == [pc |-> "poll", job |-> d, saw |-> "unknown"]
<1>2. PICK m \in Monitor : Free(m) /\ monitor' = [monitor EXCEPT ![m] = t]
  BY <1>1 DEF StartMonitor
<1>3. t \in MonitorThread
  BY <1>1 DEF MonitorThread, Seen
<1>4. MonitorInv'
  BY <1>2, <1>3 DEF StartMonitor, Inv, WebInv, MonitorInv, Promoted, Heard
<1>5. \A i \in Monitor, j \in Job : Watches(i, j) => Watches(i, j)'
  BY <1>2 DEF Inv, WebInv, MonitorInv, Free, Watches
<1>6. Watches(m, d)'
  BY <1>1, <1>2 DEF Inv, WebInv, MonitorInv, Watches
<1>7. \A i \in Job : StaysAttended(i)
  BY <1>1, <1>5, <1>6 DEF StartMonitor, StaysAttended, Attended
<1>8. RowInv'
  BY <1>7, RowUntouched DEF StartMonitor, Inv, WebInv
<1>9. RestInv'
  BY RestIsTyped DEF StartMonitor, Rest, Inv, WebInv, RestInv
<1> QED
  BY <1>4, <1>8, <1>9, WorkerUnchanged DEF StartMonitor, Inv, WebInv

LEMMA Leaving ==
  ASSUME Inv, NEW j \in Job, Leave(j)
  PROVE  lost' \subseteq Job /\ lost \subseteq lost' /\ (row[j] = "running" => j \in lost')
BY DEF Leave, Occupied, Inv, WebInv, RestInv

LEMMA DispatcherDiesKeeps ==
  ASSUME Inv, DispatcherDies
  PROVE  Inv'
<1>1. PICK d \in Job : d = dispatcher.job
  BY DEF Inv, WebInv, RestInv, Dispatcher
<1>2. DeadDispatcher \in Dispatcher
  BY SomeJob DEF DeadDispatcher, Dispatcher
<1>3. /\ lost' \subseteq Job /\ lost \subseteq lost'
      /\ dispatcher.pc = "marked" /\ row[d] = "running" => d \in lost'
  BY <1>1, Leaving DEF DispatcherDies, HasRowInHand, Inv, WebInv, RestInv
<1>4. \A i \in Job : StaysAttended(i)
  BY <1>1, <1>3 DEF DispatcherDies, StaysAttended, Attended, Watches
<1>5. RowInv'
  BY <1>4, RowUntouched DEF DispatcherDies, Inv, WebInv
<1> QED
  BY <1>2, <1>3, <1>5, WorkerUnchanged, MonitorsUntouched
  DEF DispatcherDies, Inv, WebInv, RestInv

(* A monitor thread.  A step of one leaves the others as they were, and it
   writes the row of its own job only. *)
Others(m) == \A i \in Monitor \ {m} : monitor'[i] = monitor[i]

LEMMA MonitorMoves ==
  ASSUME MonitorInv, NEW m \in Monitor, NEW s \in Seen,
         NEW p \in {"poll", "polled", "promoted", "completed"}, MonitorAt(m, p, s),
         p = "polled" => s # "unknown",
         p \in {"promoted", "completed"} => monitor[m].job \in published',
         published \subseteq published'
  PROVE  /\ MonitorInv' /\ Others(m)
         /\ monitor'[m].pc = p /\ monitor'[m].job = monitor[m].job
<1> DEFINE t == [pc |-> p, job |-> monitor[m].job, saw |-> s]
<1>1. monitor[m] \in MonitorThread
  BY DEF MonitorInv
<1>2. t \in MonitorThread
  BY <1>1 DEF MonitorThread
<1>3. monitor' = [monitor EXCEPT ![m] = t]
  BY DEF MonitorAt
<1>4. monitor' \in [Monitor -> MonitorThread] /\ Others(m) /\ monitor'[m] = t
  BY <1>2, <1>3 DEF MonitorInv, Others
<1>5. Promoted' /\ Heard'
  BY <1>4 DEF MonitorInv, Promoted, Heard, Others
<1> QED
  BY <1>4, <1>5 DEF MonitorInv

LEMMA MonitorEnds ==
  ASSUME MonitorInv, NEW m \in Monitor, EndMonitor(m), published' = published
  PROVE  MonitorInv' /\ Others(m)
<1>1. NoMonitor \in MonitorThread /\ NoMonitor.pc = "none"
  BY SomeJob DEF NoMonitor, MonitorThread, Seen
<1>2. monitor' = [monitor EXCEPT ![m] = NoMonitor]
  BY DEF EndMonitor
<1>3. monitor' \in [Monitor -> MonitorThread] /\ Others(m) /\ monitor'[m] = NoMonitor
  BY <1>1, <1>2 DEF MonitorInv, Others
<1>4. Promoted' /\ Heard'
  BY <1>1, <1>3 DEF MonitorInv, Promoted, Heard, Others
<1> QED
  BY <1>3, <1>4 DEF MonitorInv

LEMMA WritesOwnRow ==
  ASSUME RowInv, NEW m \in Monitor, NEW j \in Job, monitor[m].job = j, Others(m),
         dispatcher' = dispatcher, lost' = lost,
         NEW s \in RowStatus, SetRow(j, s), published \subseteq published',
         s = "running" => Watches(m, j)',
         s = "completed" => j \in published'
  PROVE  RowInv'
<1>1. row' \in [Job -> RowStatus] /\ row'[j] = s /\ \A i \in Job \ {j} : row'[i] = row[i]
  BY DEF SetRow, RowInv
<1>2. CompletedIsPublished'
  BY <1>1 DEF RowInv, CompletedIsPublished
<1>3. ASSUME NEW i \in Job, i # j PROVE StaysAttended(i)
  <2>1. ASSUME NEW n \in Monitor, Watches(n, i) PROVE Watches(n, i)'
    BY <1>3, <2>1 DEF Watches, Others
  <2> QED
    BY <2>1 DEF StaysAttended, Attended
<1>4. s = "running" => Attended(j)'
  BY DEF Attended
<1>5. Watched'
  BY <1>1, <1>3, <1>4 DEF RowInv, Watched, StaysAttended
<1> QED
  BY <1>1, <1>2, <1>5 DEF RowInv

LEMMA LeavesRow ==
  ASSUME RowInv, NEW m \in Monitor, Others(m), row' = row, published \subseteq published',
         dispatcher' = dispatcher, lost \subseteq lost',
         \A j \in Job : row[j] = "running" /\ Watches(m, j) => Attended(j)'
  PROVE  RowInv'
<1>1. ASSUME NEW j \in Job PROVE StaysAttended(j)
  <2>1. ASSUME NEW n \in Monitor \ {m}, Watches(n, j) PROVE Watches(n, j)'
    BY <2>1 DEF Watches, Others
  <2> QED
    BY <2>1 DEF StaysAttended, Attended
<1>2. Watched'
  BY <1>1 DEF RowInv, Watched, StaysAttended
<1> QED
  BY <1>2 DEF RowInv, CompletedIsPublished

LEMMA MonitorJob ==
  ASSUME Inv, NEW m \in Monitor
  PROVE  monitor[m].job \in Job /\ monitor[m].saw \in Seen
BY DEF Inv, WebInv, MonitorInv, MonitorThread

LEMMA PollKeeps ==
  ASSUME Inv, NEW m \in Monitor, Poll(m)
  PROVE  Inv'
<1>1. monitor[m].job \in Job
  BY MonitorJob
<1>2. CASE Answered(m)
  <2>1. PublicState(monitor[m].job) \in Seen
    BY <1>1 DEF PublicState, Inv, WorkerInv, WorkerTypeOK
  <2>2. /\ MonitorInv' /\ Others(m)
        /\ monitor'[m].pc = "polled" /\ monitor'[m].job = monitor[m].job
    BY <1>2, <2>1, MonitorMoves DEF Poll, Answered, Inv, WebInv
  <2>3. RowInv'
    BY <1>2, <2>2, LeavesRow DEF Poll, Answered, Attended, Watches, Inv, WebInv
  <2> QED
    BY <2>2, <2>3, WorkerUnchanged DEF Poll, Inv, WebInv, RestInv
<1>3. CASE SetRow(monitor[m].job, "queued") /\ EndMonitor(m)
  <2>1. MonitorInv' /\ Others(m)
    BY <1>3, MonitorEnds DEF Poll, Inv, WebInv
  <2>2. RowInv'
    BY <1>1, <1>3, <2>1, WritesOwnRow DEF Poll, Inv, WebInv, RowStatus, Status
  <2> QED
    BY <2>1, <2>2, WorkerUnchanged DEF Poll, Inv, WebInv, RestInv
<1> QED
  BY <1>2, <1>3 DEF Poll

LEMMA ReportKeeps ==
  ASSUME Inv, NEW m \in Monitor, Report(m)
  PROVE  Inv'
<1> DEFINE s == monitor[m].saw
<1>1. monitor[m].job \in Job /\ s \in Status \ {"completed"}
  BY MonitorJob DEF Report, Inv, WebInv, MonitorInv, Heard, Seen
<1>2. MonitorInv' /\ Others(m) 
      /\ (s = "running" => monitor'[m].pc = "poll" /\ monitor'[m].job = monitor[m].job)
  <2>1. CASE s \in {"queued", "running"}
    <3>1. MonitorAt(m, "poll", "unknown")
      BY <2>1 DEF Report
    <3>2. /\ MonitorInv' /\ Others(m)
          /\ monitor'[m].pc = "poll" /\ monitor'[m].job = monitor[m].job
      BY <3>1, MonitorMoves DEF Report, Inv, WebInv, Seen
    <3> QED
      BY <3>2
  <2>2. CASE s \notin {"queued", "running"}
    BY <2>2, MonitorEnds DEF Report, Inv, WebInv
  <2> QED
    BY <2>1, <2>2
<1>3. PICK j \in Job : j = monitor[m].job
  BY <1>1
<1>4. s = "running" => Watches(m, j)'
  BY <1>2, <1>3 DEF Watches
<1>5. RowInv'
  BY <1>1, <1>2, <1>3, <1>4, WritesOwnRow DEF Report, Inv, WebInv, RowStatus
<1> QED
  BY <1>2, <1>5, WorkerUnchanged DEF Report, Inv, WebInv, RestInv

LEMMA PromoteKeeps ==
  ASSUME Inv, NEW m \in Monitor, Promote(m)
  PROVE  Inv'
<1>1. /\ MonitorInv' /\ Others(m)
      /\ monitor'[m].pc = "promoted" /\ monitor'[m].job = monitor[m].job
  BY MonitorMoves DEF Promote, Inv, WebInv, Seen, Status, Ended
<1>2. RowInv'
  BY <1>1, LeavesRow DEF Promote, Attended, Watches, Inv, WebInv
<1>3. published' \subseteq Job
  BY MonitorJob DEF Promote, Inv, WebInv, RestInv
<1> QED
  BY <1>1, <1>2, <1>3, WorkerUnchanged DEF Promote, Inv, WebInv, RestInv

LEMMA CompleteRowKeeps ==
  ASSUME Inv, NEW m \in Monitor, CompleteRow(m)
  PROVE  Inv'
<1>1. monitor[m].job \in published
  BY DEF CompleteRow, Inv, WebInv, MonitorInv, Promoted
<1>2. MonitorInv' /\ Others(m)
  BY <1>1, MonitorMoves DEF CompleteRow, Inv, WebInv, Seen, Status, Ended
<1>3. RowInv'
  BY <1>1, <1>2, MonitorJob, WritesOwnRow
  DEF CompleteRow, Inv, WebInv, RowStatus, Status, Ended
<1> QED
  BY <1>2, <1>3, WorkerUnchanged DEF CompleteRow, Inv, WebInv, RestInv

LEMMA CleanUpKeeps ==
  ASSUME Inv, NEW m \in Monitor, CleanUp(m)
  PROVE  Inv'
<1>1. WorkerInv'
  BY MonitorJob, DirectoryKeeps DEF CleanUp, Inv
<1>2. MonitorInv' /\ Others(m)
  BY MonitorEnds DEF CleanUp, Inv, WebInv
<1>3. \A j \in Job : ~Watches(m, j)
  BY DEF CleanUp, Watches
<1>4. RowInv'
  BY <1>2, <1>3, LeavesRow DEF CleanUp, Inv, WebInv
<1> QED
  BY <1>1, <1>2, <1>4 DEF CleanUp, Inv, WebInv, RestInv

LEMMA MonitorRaisesKeeps ==
  ASSUME Inv, NEW m \in Monitor, MonitorRaises(m)
  PROVE  Inv'
<1>1. MonitorInv' /\ Others(m)
  BY MonitorEnds DEF MonitorRaises, Inv, WebInv
<1>2. PICK j \in Job : j = monitor[m].job
  BY MonitorJob
<1>3. CASE SetRow(j, "failed") /\ UNCHANGED lost
  <2>1. RowInv'
    BY <1>1, <1>2, <1>3, WritesOwnRow
    DEF MonitorRaises, Inv, WebInv, RowStatus, Status, Ended
  <2> QED
    BY <1>1, <1>3, <2>1, WorkerUnchanged DEF MonitorRaises, Inv, WebInv, RestInv
<1>4. CASE UNCHANGED row /\ Leave(j)
  <2>1. lost' \subseteq Job /\ lost \subseteq lost' /\ (row[j] = "running" => j \in lost')
    BY <1>4, Leaving
  <2>2. RowInv'
    BY <1>1, <1>2, <1>4, <2>1, LeavesRow DEF MonitorRaises, Attended, Watches, Inv, WebInv
  <2> QED
    BY <1>1, <2>1, <2>2, WorkerUnchanged DEF MonitorRaises, Inv, WebInv, RestInv
<1> QED
  BY <1>2, <1>3, <1>4 DEF MonitorRaises

LEMMA RestartWebKeeps ==
  ASSUME Inv, RestartWeb
  PROVE  Inv'
<1>1. WorkerInv'
  BY DEF RestartWeb, memory, disk, Inv, WorkerInv, WorkerTypeOK, Alone, AtWork
<1>2. MonitorInv'
  BY SomeJob DEF RestartWeb, NoMonitor, MonitorThread, Seen, MonitorInv, Promoted, Heard
<1>3. row' \in [Job -> RowStatus] /\ \A j \in Job : row'[j] # "running"
  BY DEF RestartWeb, Occupied, RowStatus, Status, Inv, WebInv, RowInv
<1>4. CompletedIsPublished'
  BY DEF RestartWeb, Inv, WebInv, RowInv, CompletedIsPublished
<1>5. RowInv'
  BY <1>3, <1>4 DEF RowInv, Watched
<1>6. RestInv'
  BY SomeJob, RestIsTyped DEF RestartWeb, NoRequest, Request, Inv, WebInv, RestInv
<1> QED
  BY <1>1, <1>2, <1>5, <1>6 DEF Inv, WebInv

LEMMA InitHolds == Init => Inv
<1> SUFFICES ASSUME Init PROVE Inv
  OBVIOUS
<1>1. WorkerInv
  BY DEF Init, WorkerInit, WorkerInv, WorkerTypeOK, Alone, AtWork, NoThread, Thread, Seen, Status,
         Ended
<1>2. RowInv
  BY DEF Init, RowInv, RowStatus, CompletedIsPublished, Watched
<1>3. MonitorInv
  BY SomeJob DEF Init, MonitorInv, NoMonitor, MonitorThread, Seen, Promoted, Heard
<1>4. RestInv
  BY SomeJob, RestIsTyped DEF Init, RestInv, NoRequest, Request
<1> QED
  BY <1>1, <1>2, <1>3, <1>4 DEF Inv, WebInv

LEMMA StepKeeps == Inv /\ [Next]_vars => Inv'
<1> SUFFICES ASSUME Inv, [Next]_vars PROVE Inv'
  OBVIOUS
<1>1. CASE UNCHANGED vars
  BY <1>1, WebUnchanged, WorkerUnchanged DEF vars, Inv
<1>2. ASSUME NEW j \in Job, Translate(j) \/ Resume(j) PROVE Inv'
  BY <1>2, TranslateKeeps, ResumeKeeps
<1>3. ASSUME NEW j \in Job, CleanUpOld(j) PROVE Inv'
  BY <1>3, DirectoryKeeps, WebUnchanged DEF CleanUpOld, Inv
<1>4. ASSUME NEW j \in Job, NEW op \in {"pause", "cancel", "delete"}, ReadRow(op, j) PROVE Inv'
  BY <1>4, ReadRowKeeps
<1>5. CASE CallWorker \/ Answer
  BY <1>5, CallWorkerKeeps, AnswerKeeps
<1>6. CASE DispatcherStep
  BY <1>6, PickKeeps, AskKeeps, ClaimRowKeeps, CreateJobKeeps, MarkRunningKeeps,
     StartMonitorKeeps, DispatcherDiesKeeps
  DEF DispatcherStep
<1>7. ASSUME NEW m \in Monitor, MonitorStep(m) PROVE Inv'
  BY <1>7, PollKeeps, ReportKeeps, PromoteKeeps, CompleteRowKeeps, CleanUpKeeps,
     MonitorRaisesKeeps DEF MonitorStep
<1>8. CASE RestartWeb
  BY <1>8, RestartWebKeeps
<1>9. CASE WorkerStep /\ UNCHANGED webVars
  BY <1>9, WorkerStepKeeps, WebUnchanged DEF Inv
<1> QED
  BY <1>1, <1>2, <1>3, <1>4, <1>5, <1>6, <1>7, <1>8, <1>9 DEF Next

LEMMA InvAlways == Spec => []Inv
BY InitHolds, StepKeeps, PTL DEF Spec

(***************************************************************************)
(* Theorems.                                                               *)
(***************************************************************************)

(* Every reachable state is well typed: rows, threads and requests of the Web
   process, memory and files of the Worker, over restarts of both. *)
THEOREM TypeCorrect == Spec => []TypeOK
<1>1. Inv => TypeOK
  BY DEF Inv, WorkerInv, WebInv, RowInv, MonitorInv, RestInv, TypeOK
<1> QED
  BY <1>1, InvAlways, PTL

(* The Worker has one thread at most, however many jobs there are and whatever
   was paused, cancelled, given again or restarted (TranslationJobService.submit). *)
THEOREM OneJobAtATime == Spec => []OneThread
<1>1. ASSUME Alone PROVE OneThread
  <2> DEFINE W == {j \in Job : thread[j].pc # "none"}
  <2>1. W = {} \/ \E j \in Job : W = {j}
    BY <1>1 DEF Alone, AtWork
  <2>2. Cardinality(W) = 0 \/ Cardinality(W) = 1
    BY <2>1, FS_EmptySet, FS_Singleton
  <2>3. Cardinality(W) <= 1
    BY <2>2
  <2>4. \A j \in Job : thread[j].pc # "none" => known[j] \in {"queued", "running"}
    BY <1>1 DEF Alone, AtWork
  <2> QED
    BY <2>3, <2>4 DEF OneThread
<1>2. Inv => OneThread
  BY <1>1 DEF Inv, WorkerInv
<1> QED
  BY <1>2, InvAlways, PTL

(* A row reads as completed only when the paper has the translation: monitors of
   earlier runs, requests and restarts included. *)
THEOREM CompletedRowsArePublished == Spec => []CompletedIsPublished
<1>1. Inv => CompletedIsPublished
  BY DEF Inv, WebInv, RowInv
<1> QED
  BY <1>1, InvAlways, PTL

(* A running row has a monitor that will write it again, or is about to get one;
   only a thread that died of an exception with the row in hand leaves one
   without (_dispatch_for_owner, monitor_worker_task). *)
THEOREM RunningRowsAreWatched == Spec => []RunningIsWatched
<1>1. Inv => RunningIsWatched
  BY DEF Inv, WebInv, RowInv, Watched, Attended, RunningIsWatched
<1> QED
  BY <1>1, InvAlways, PTL

(***************************************************************************)
(* The row that reads as dispatching or running although nobody serves it: *)
(* what a failing call of the Worker or a dead thread leaves behind.       *)
(***************************************************************************)
Served(j) ==
  \/ dispatcher.pc \notin {"idle", "dead"} /\ dispatcher.job = j
  \/ \E m \in Monitor : monitor[m].pc # "none" /\ monitor[m].job = j

Left(j) == row[j] \in Occupied /\ ~Served(j)

(* While it is left, the dispatcher takes no job of anybody. *)
Blocking(j) == Left(j)' /\ \A i \in Job : ~Pick(i)

LEMMA OtherRow ==
  ASSUME Inv, NEW i \in Job, NEW j \in Job, i # j, NEW s, SetRow(i, s) \/ Enqueue(i)
  PROVE  row'[j] = row[j]
BY DEF Inv, WebInv, RowInv, SetRow, Enqueue

LEMMA WebStepLeaves ==
  ASSUME Inv, NEW j \in Job, Left(j), DispatcherStep
  PROVE  Left(j)'
<1>1. /\ row \in [Job -> RowStatus] /\ monitor \in [Monitor -> MonitorThread]
      /\ dispatcher \in Dispatcher
  BY DEF Inv, WebInv, RowInv, MonitorInv, RestInv
<1>2. \A i \in Job : ~Pick(i)
  BY DEF Left, Pick, Occupied
<1>3. CASE DispatcherDies
  BY <1>3 DEF DispatcherDies, DeadDispatcher, Left, Served
<1>4. SUFFICES ASSUME ~DispatcherDies PROVE Left(j)'
  BY <1>3
<1>5. dispatcher.pc \notin {"idle", "dead"} /\ dispatcher.job \in Job /\ dispatcher.job # j
  BY <1>1, <1>2, <1>4 DEF DispatcherStep, Ask, ClaimRow, CreateJob, MarkRunning, StartMonitor,
     Left, Served, Dispatcher
<1>6. row'[j] = row[j]
  BY <1>2, <1>5, <1>4, OtherRow
  DEF DispatcherStep, Ask, ClaimRow, CreateJob, MarkRunning, StartMonitor
<1>7. IdleDispatcher.pc = "idle"
  BY DEF IdleDispatcher
<1>8. /\ dispatcher'.pc \in {"idle", "dead"} \/ dispatcher'.job = dispatcher.job
      /\ \A m \in Monitor : monitor'[m] = monitor[m] \/ monitor'[m].job = dispatcher.job
  <2>1. CASE Ask
    <3>1. \/ dispatcher' = IdleDispatcher
          \/ dispatcher' = [dispatcher EXCEPT !.pc = "asked",
               !.fresh = PublicState(dispatcher.job) \in {"unknown", "paused", "failed"}]
      BY <2>1 DEF Ask, Rest
    <3>2. QED BY <1>1, <1>7, <2>1, <3>1 DEF Ask, Dispatcher
  <2>2. CASE ClaimRow \/ MarkRunning
    BY <1>1, <2>2 DEF ClaimRow, MarkRunning, Dispatcher
  <2>3. CASE CreateJob
    <3>1. \/ dispatcher' = IdleDispatcher
          \/ dispatcher' = [dispatcher EXCEPT !.pc = "created", !.fresh = FALSE]
      BY <2>3 DEF CreateJob, Rest
    <3>2. QED BY <1>1, <1>7, <2>3, <3>1 DEF CreateJob, Dispatcher
  <2>4. CASE StartMonitor
    <3>1. PICK n : monitor' = [monitor EXCEPT ![n] = [pc |-> "poll", job |-> dispatcher.job,
                                                      saw |-> "unknown"]]
      BY <2>4 DEF StartMonitor
    <3>2. QED BY <1>1, <1>7, <2>4, <3>1 DEF StartMonitor, Rest
  <2>5. QED BY <1>2, <1>4, <2>1, <2>2, <2>3, <2>4 DEF DispatcherStep
<1>9. QED BY <1>5, <1>6, <1>7, <1>8 DEF Left, Served

LEMMA MonitorStepLeaves ==
  ASSUME Inv, NEW j \in Job, Left(j), NEW m \in Monitor, MonitorStep(m)
  PROVE  Left(j)'
<1> USE DEF MonitorStep, Poll, Report, Promote, CompleteRow, CleanUp, MonitorRaises
<1>1. monitor \in [Monitor -> MonitorThread]
  BY DEF Inv, WebInv, MonitorInv
<1>2. monitor[m].pc # "none" /\ monitor[m].job \in Job /\ monitor[m].job # j
  BY <1>1 DEF Left, Served, MonitorThread
<1>3. row'[j] = row[j] /\ dispatcher' = dispatcher
  BY <1>2, OtherRow DEF Answered
<1>4. /\ \A n \in Monitor \ {m} : monitor'[n] = monitor[n]
      /\ monitor'[m].pc = "none" \/ monitor'[m].job = monitor[m].job
  BY <1>1 DEF Answered, EndMonitor, MonitorAt, NoMonitor
<1>5. QED BY <1>2, <1>3, <1>4 DEF Left, Served

(* A dispatching or running row that neither the dispatcher nor a monitor has in hand stays
   as it is, and no queued job of any account is taken up, until a request that
   pauses, cancels or deletes that very job writes its row, or the Web process
   restarts: no other thread ever notices (next_queued, monitor_worker_task). *)
LeftUntilAnswered ==
  \A j \in Job : Left(j) => Blocking(j) \/ (Answer /\ request.job = j) \/ RestartWeb

THEOREM LeftRowsBlockTheQueue == Spec => [][LeftUntilAnswered]_vars
<1>1. ASSUME Inv, [Next]_vars, NEW j \in Job, Left(j), ~(Answer /\ request.job = j), ~RestartWeb
      PROVE  Left(j)'
  <2>1. row \in [Job -> RowStatus]
    BY <1>1 DEF Inv, WebInv, RowInv
  <2>2. CASE UNCHANGED webVars
    BY <1>1, <2>2 DEF webVars, Left, Served
  <2>3. ASSUME NEW i \in Job, Translate(i) PROVE Left(j)'
    <3>1. i # j
      BY <1>1, <2>3 DEF Translate, Left, Occupied
    <3>2. QED BY <1>1, <2>3, <3>1, OtherRow DEF Translate, Left, Served
  <2>4. ASSUME NEW i \in Job, Resume(i) PROVE Left(j)'
    <3>1. i # j
      BY <1>1, <2>4 DEF Resume, Left, Occupied
    <3>2. QED BY <1>1, <2>4, <3>1, OtherRow DEF Resume, Left, Served
  <2>5. CASE CallWorker \/ \E i \in Job, op \in {"pause", "cancel", "delete"} : ReadRow(op, i)
    BY <1>1, <2>5 DEF CallWorker, ReadRow, Left, Served
  <2>6. CASE Answer
    <3>1. request.job \in Job /\ request.job # j
      BY <1>1, <2>6 DEF Inv, WebInv, RestInv, Request
    <3>2. row'[j] = row[j]
      BY <1>1, <2>6, <3>1, OtherRow DEF Answer
    <3>3. QED BY <1>1, <2>6, <3>2 DEF Answer, Left, Served
  <2>7. CASE DispatcherStep
    BY <1>1, <2>7, WebStepLeaves
  <2>8. ASSUME NEW m \in Monitor, MonitorStep(m) PROVE Left(j)'
    BY <1>1, <2>8, MonitorStepLeaves
  <2>9. QED
    BY <1>1, <2>2, <2>3, <2>4, <2>5, <2>6, <2>7, <2>8 DEF Next, vars, CleanUpOld
<1>2. ASSUME NEW j \in Job, Left(j) PROVE \A i \in Job : ~Pick(i)
  BY <1>2 DEF Left, Pick, Occupied
<1>3. Inv /\ [Next]_vars => [LeftUntilAnswered]_vars
  BY <1>1, <1>2 DEF LeftUntilAnswered, Blocking
<1>4. QED BY <1>3, InvAlways, PTL DEF Spec

===============================================================================
