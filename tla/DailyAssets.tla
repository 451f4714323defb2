------------------------------ MODULE DailyAssets ------------------------------
(* The files of the daily arXiv papers: one row per paper in a persisted queue
   (daily_arxiv_candidates), one coordinator thread that claims a row, fetches
   or reuses the PDF, has it inspected, publishes it and settles the row, and
   the requests that put rows into the queue: the discovery of new papers, a
   retry asked for by a user, the list of a day that finds a file missing, and
   the removal of expired papers.

   ORDER BY updated_at is left out: any claimable row of the account whose turn
   it is may be claimed.  The first-page preview is left out, so that a retry
   of a ready row (its preview is missing) may always be asked for.  The status
   "candidate" does not occur: with a coordinator installed papers are
   discovered as "queued". *)
EXTENDS Naturals

CONSTANTS
    Row,            \* the papers, each of one account
    OwnerOf,        \* the account of a row; accounts are sorted by their ids
    GiveUp,         \* failures after which a row is failed (5 in the code)
    MaxDisturbances \* bound on restarts and removals together

ASSUME OwnersAssumption == OwnerOf \in [Row -> Nat \ {0}]
ASSUME GiveUpAssumption == GiveUp \in Nat \ {0}
ASSUME BoundAssumption == MaxDisturbances \in Nat

NoOwner == 0

VARIABLES
    status,     \* artifact_status of a row, "absent" before it is inserted
    job,        \* asset_job_id is that of the attempt under way
    tries,      \* retry_count, counted up to GiveUp
    due,        \* next_retry_at has passed (of a row in retry_wait)
    paper,      \* the paper's record: "none", "known", or "filed" (names a file)
    file,       \* the PDF is at its place in the directory of the day
    lastOwner,  \* the account served last; in memory
    work,       \* the coordinator thread: where it is, its row, its result
    visit,      \* the request being handled, one at a time
    spent       \* disturbances so far

rowVars == <<status, job, tries, due>>
vars == <<status, job, tries, due, paper, file, lastOwner, work, visit, spent>>

InFlight == {"downloading", "validating"}
Wanted(r) == status[r] \in {"queued", "retry_wait"} \union InFlight

(* An attempt of the coordinator and a request, each with where it has got to. *)
Attempt == [at : {"locate", "fetch", "check", "publish", "record", "finish", "dead"},
            row : Row, local : BOOLEAN, result : {"none", "ok", "bad", "outage"}]
Visit == [at : {"candidate", "select", "update", "mark", "papers"},
          row : Row, force : BOOLEAN]
Idle == [at |-> "idle"]
NoThread == [at |-> "dead"]
NoVisit == [at |-> "none"]
GoesTo(x, station) == [x EXCEPT !.at = station]
EndsWith(w, result) == [w EXCEPT !.at = "finish", !.result = result]

TypeOK ==
    /\ status \in [Row -> {"absent", "queued", "retry_wait", "failed", "ready"} \union InFlight]
    /\ job \in [Row -> BOOLEAN]
    /\ tries \in [Row -> 0..GiveUp]
    /\ due \in [Row -> BOOLEAN]
    /\ paper \in [Row -> {"none", "known", "filed"}]
    /\ file \in [Row -> BOOLEAN]
    /\ lastOwner \in Nat
    /\ work \in Attempt \union {Idle, NoThread}
    /\ visit \in Visit \union {NoVisit}
    /\ spent \in 0..MaxDisturbances

Init ==
    /\ status = [r \in Row |-> "absent"]
    /\ job = [r \in Row |-> FALSE]
    /\ tries = [r \in Row |-> 0]
    /\ due = [r \in Row |-> FALSE]
    /\ paper = [r \in Row |-> "none"]
    /\ file = [r \in Row |-> FALSE]
    /\ lastOwner = NoOwner
    /\ work = Idle
    /\ visit = NoVisit
    /\ spent = 0

Disturb == spent < MaxDisturbances /\ spent' = spent + 1

-------------------------------------------------------------------------------
(* The coordinator thread. *)

Claimable(r) == status[r] = "queued" \/ (status[r] = "retry_wait" /\ due[r])

(* Mutants: the first account always has the turn, a stage is reported for a
   row taken away meanwhile, a row is settled without a look at its attempt. *)
FirstAlways(S) == CHOOSE o \in S : \A q \in S : o <= q
StagedAnyway(r, stage) == [status EXCEPT ![r] = stage]
SettleAnyway(r) == TRUE

(* next_retry_at=NULL. *)
Undue(r) == [due EXCEPT ![r] = FALSE]

(* The account whose turn it is, of the set S of accounts with claimable rows:
   the one after the account served last, or the first when that one has no
   claimable row. *)
Turn(S) ==
    IF lastOwner \in S /\ \E o \in S : o > lastOwner
    THEN CHOOSE o \in S : o > lastOwner /\ \A q \in S : q > lastOwner => o <= q
    ELSE CHOOSE o \in S : \A q \in S : o <= q

(* Choice and update are one immediate transaction. *)
Claim ==
    /\ work.at = "idle"
    /\ \E r \in {q \in Row : Claimable(q)} :
        /\ OwnerOf[r] = Turn({OwnerOf[q] : q \in {p \in Row : Claimable(p)}})
        /\ lastOwner' = OwnerOf[r]
        /\ status' = [status EXCEPT ![r] = "downloading"]
        /\ job' = [job EXCEPT ![r] = TRUE]
        /\ due' = Undue(r)
        /\ work' = [at |-> "locate", row |-> r, local |-> FALSE, result |-> "none"]
    /\ UNCHANGED <<tries, paper, file, visit, spent>>

(* The status after set_stage: nothing when the row is no longer ours. *)
Staged(r, stage) == IF job[r] THEN [status EXCEPT ![r] = stage] ELSE status

(* The paper's record is read, and a PDF already on the disk is reused; only
   the one its record names is left where it is. *)
Locate ==
    /\ work.at = "locate"
    /\ \/ /\ paper[work.row] = "none"
          /\ work' = EndsWith(work, "bad")
          /\ UNCHANGED status
       \/ /\ paper[work.row] # "none"
          /\ file[work.row]
          /\ status' = Staged(work.row, "validating")
          /\ work' = [at |-> "check", row |-> work.row, result |-> work.result,
                       local |-> paper[work.row] = "filed"]
       \/ /\ paper[work.row] # "none"
          /\ ~file[work.row]
          /\ status' = Staged(work.row, "downloading")
          /\ work' = GoesTo(work, "fetch")
    /\ UNCHANGED <<job, tries, due, paper, file, lastOwner, visit, spent>>

Fetch ==
    /\ work.at = "fetch"
    /\ status' = Staged(work.row, "validating")
    /\ work' = GoesTo(work, "check")
    /\ UNCHANGED <<job, tries, due, paper, file, lastOwner, visit, spent>>

(* The Document Worker inspects the bytes; the answer is a validated copy. *)
Check ==
    /\ work.at = "check"
    /\ work' = GoesTo(work, "publish")
    /\ UNCHANGED <<rowVars, paper, file, lastOwner, visit, spent>>

(* Everything between claim and end may fail, and whatever is raised is caught:
   the record or the stage cannot be read or written, download, inspection or
   move fail, the last one because the directory of the day was removed.  A
   Document Worker that does not answer the inspection is a failure like a
   broken file. *)
Fail ==
    /\ work.at \in {"locate", "fetch", "check", "publish", "record"}
    /\ work' = EndsWith(work, "bad")
    /\ UNCHANGED <<rowVars, paper, file, lastOwner, visit, spent>>

(* No Document Worker is configured: the failure is not counted. *)
Outage ==
    /\ work.at = "locate"
    /\ paper[work.row] # "none"
    /\ work' = EndsWith(work, "outage")
    /\ UNCHANGED <<rowVars, paper, file, lastOwner, visit, spent>>

Publish ==
    /\ work.at = "publish"
    /\ file' = IF work.local THEN file ELSE [file EXCEPT ![work.row] = TRUE]
    /\ work' = GoesTo(work, "record")
    /\ UNCHANGED <<rowVars, paper, lastOwner, visit, spent>>

(* The whole record is written back as it was read: a paper removed meanwhile
   is there again. *)
Record ==
    /\ work.at = "record"
    /\ paper' = [paper EXCEPT ![work.row] = "filed"]
    /\ work' = EndsWith(work, "ok")
    /\ UNCHANGED <<rowVars, file, lastOwner, visit, spent>>

(* The status and the count a result leads to. *)
Attempts(r, result) ==
    IF result = "bad" /\ tries[r] < GiveUp THEN tries[r] + 1 ELSE tries[r]
Settled(r, result) ==
    IF result = "ok" THEN "ready"
    ELSE IF result = "bad" /\ tries[r] + 1 >= GiveUp THEN "failed"
    ELSE "retry_wait"

(* The row is settled only while it names this attempt. *)
MaySettle(r) == job[r]

Finish ==
    /\ work.at = "finish"
    /\ IF MaySettle(work.row)
       THEN /\ status' = [status EXCEPT ![work.row] = Settled(work.row, work.result)]
            /\ tries' = [tries EXCEPT ![work.row] = Attempts(work.row, work.result)]
            /\ job' = [job EXCEPT ![work.row] = FALSE]
            /\ due' = Undue(work.row)
       ELSE UNCHANGED rowVars
    /\ work' = Idle
    /\ UNCHANGED <<paper, file, lastOwner, visit, spent>>

(* Claim and end are outside of every try: a database that fails there ends the
   thread, which nobody starts again.  At the end of an attempt its row stays as
   it is, downloading or validating. *)
ThreadEnds ==
    /\ \/ work.at = "idle" /\ work' = NoThread
       \/ work.at = "finish" /\ work' = GoesTo(work, "dead")
    /\ UNCHANGED <<rowVars, paper, file, lastOwner, visit, spent>>

(* The time of the next attempt comes: 5, 30, 120 or 360 minutes. *)
Due(r) ==
    /\ status[r] = "retry_wait"
    /\ ~due[r]
    /\ due' = [due EXCEPT ![r] = TRUE]
    /\ UNCHANGED <<status, job, tries, paper, file, lastOwner, work, visit, spent>>

-------------------------------------------------------------------------------
(* The requests.  enqueue is a SELECT, which decides, and an UPDATE, which does
   not look again. *)

(* A round of discovery finds a new paper: the paper's record, then its row. *)
Discover(r) ==
    /\ visit = NoVisit
    /\ paper[r] = "none"
    /\ paper' = [paper EXCEPT ![r] = "known"]
    /\ visit' = [at |-> "candidate", row |-> r, force |-> FALSE]
    /\ UNCHANGED <<rowVars, file, lastOwner, work, spent>>

Readable(r) == paper[r] = "filed" /\ file[r]

(* ... or one that is known and has no file yet. *)
Rediscover(r) ==
    /\ visit = NoVisit
    /\ paper[r] # "none" /\ ~Readable(r)
    /\ visit' = [at |-> "select", row |-> r, force |-> FALSE]
    /\ UNCHANGED <<rowVars, paper, file, lastOwner, work, spent>>

(* save_candidate: a row at work, waiting or ready keeps its life cycle. *)
SaveCandidate ==
    /\ visit.at = "candidate"
    /\ IF status[visit.row] \in {"absent", "failed"}
       THEN /\ status' = [status EXCEPT ![visit.row] = "queued"]
            /\ tries' = [tries EXCEPT ![visit.row] = 0]
       ELSE UNCHANGED <<status, tries>>
    /\ visit' = GoesTo(visit, "select")
    /\ UNCHANGED <<job, due, paper, file, lastOwner, work, spent>>

(* A user asks for the missing stage of a paper again. *)
Retry(r) ==
    /\ visit = NoVisit
    /\ paper[r] # "none"
    /\ visit' = [at |-> "select", row |-> r, force |-> TRUE]
    /\ UNCHANGED <<rowVars, paper, file, lastOwner, work, spent>>

Select ==
    /\ visit.at = "select"
    /\ visit' = IF \/ status[visit.row] \in {"absent", "queued"} \union InFlight
                   \/ status[visit.row] = "ready" /\ ~visit.force
                THEN NoVisit
                ELSE GoesTo(visit, "update")
    /\ UNCHANGED <<rowVars, paper, file, lastOwner, work, spent>>

Update ==
    /\ visit.at = "update"
    /\ status' = [status EXCEPT ![visit.row] = "queued"]
    /\ job' = [job EXCEPT ![visit.row] = FALSE]
    /\ due' = Undue(visit.row)
    /\ visit' = NoVisit
    /\ UNCHANGED <<tries, paper, file, lastOwner, work, spent>>

(* The list of a day finds a ready row without its file ... *)
View(r) ==
    /\ visit = NoVisit
    /\ paper[r] # "none" /\ ~Readable(r)
    /\ status[r] = "ready"
    /\ visit' = [at |-> "mark", row |-> r, force |-> FALSE]
    /\ UNCHANGED <<rowVars, paper, file, lastOwner, work, spent>>

(* ... and requeues it, if it still says ready. *)
MarkMissing ==
    /\ visit.at = "mark"
    /\ IF status[visit.row] = "ready"
       THEN /\ status' = [status EXCEPT ![visit.row] = "retry_wait"]
            /\ job' = [job EXCEPT ![visit.row] = FALSE]
            /\ due' = [due EXCEPT ![visit.row] = TRUE]
       ELSE UNCHANGED <<status, job, due>>
    /\ visit' = NoVisit
    /\ UNCHANGED <<tries, paper, file, lastOwner, work, spent>>

(* cleanup_old_papers: the directory of an expired day, then the records; the
   rows of the queue stay. *)
Expire(r) ==
    /\ visit = NoVisit
    /\ paper[r] # "none"
    /\ Disturb
    /\ file' = [file EXCEPT ![r] = FALSE]
    /\ visit' = [at |-> "papers", row |-> r, force |-> FALSE]
    /\ UNCHANGED <<rowVars, paper, lastOwner, work>>

RemovePaper ==
    /\ visit.at = "papers"
    /\ paper' = [paper EXCEPT ![visit.row] = "none"]
    /\ visit' = NoVisit
    /\ UNCHANGED <<rowVars, file, lastOwner, work, spent>>

(* The process ends anywhere and starts again: recover() puts the rows at work
   back into the queue. *)
Restart ==
    /\ Disturb
    /\ status' = [r \in Row |-> IF status[r] \in InFlight THEN "queued" ELSE status[r]]
    /\ job' = [r \in Row |-> job[r] /\ status[r] \notin InFlight]
    /\ due' = [r \in Row |-> due[r] /\ status[r] \notin InFlight]
    /\ lastOwner' = NoOwner
    /\ work' = Idle
    /\ visit' = NoVisit
    /\ UNCHANGED <<tries, paper, file>>

-------------------------------------------------------------------------------
Coordinate ==
    \/ Claim \/ Locate \/ Fetch \/ Check \/ Fail \/ Outage \/ Publish \/ Record \/ Finish

Request ==
    \/ \E r \in Row : Discover(r) \/ Rediscover(r) \/ Retry(r) \/ View(r) \/ Expire(r)
    \/ SaveCandidate \/ Select \/ Update \/ MarkMissing \/ RemovePaper

Next == Coordinate \/ ThreadEnds \/ Request \/ Restart \/ \E r \in Row : Due(r)

Spec == Init /\ [][Next]_vars

(* The thread, while there is one, goes on, and time passes; nothing makes a
   request arrive, or a request already begun go on, or the process restart. *)
FairSpec ==
    /\ Spec
    /\ WF_vars(Coordinate)
    /\ \A r \in Row : WF_vars(Due(r))

-------------------------------------------------------------------------------
(* A row that says downloading or validating is the one of the attempt under
   way, or of the attempt at whose end the thread died: nothing else leaves one
   behind.  Requests reset rows at work (Update does not look again), removals
   delete their papers, restarts forget the attempt; a row left so by one of
   them would be touched by nobody until a restart, since it is neither
   claimable nor accepted by enqueue. *)
InFlightIsWorked ==
    \A r \in Row :
        /\ status[r] \in InFlight <=> job[r]
        /\ job[r] => work \notin {Idle, NoThread} /\ work.row = r

(* A row in the queue is settled by an attempt that claims it later, never by
   one that was under way when the row was put (back) into the queue: the late
   end of an attempt finds another asset_job_id, or none. *)
QueuedIsClaimedFirst ==
    [][\A r \in Row : status[r] = "queued" => status'[r] \in {"queued", "downloading"}]_vars

(* While the coordinator lives, every row wanted is settled, however often it
   fails, is asked for again while it is worked on, or loses its paper, and
   although another account asks for more without end.  Outages have to stop:
   they are tried again every minute and never counted.  This is a property of
   two accounts: when the account served last has no claimable row the turn
   goes back to the first one, so that of three accounts two can keep the third
   waiting for ever. *)
WantedIsSettled ==
    <>[][~Outage]_vars =>
        \A r \in Row : Wanted(r) ~> ~Wanted(r) \/ work.at = "dead"
===============================================================================
