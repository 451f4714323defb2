--------------------------- MODULE BlockTranslation ---------------------------
(***************************************************************************)
(* Publication of block translations in one result of structured           *)
(* translation: processing_block_translations, its immutable revisions and *)
(* their files on disk, written by the runs that translate the result.     *)
(*                                                                         *)
(* Several jobs of one account meet in the same result: the one that        *)
(* created it, resumed or not, and re-translations of some blocks.  One is *)
(* admitted at a time, but a job that is cancelled twice gives its place   *)
(* up while its last request is still out (see OneRunPerOwner in           *)
(* ProcessingJobs), so its answer may arrive beside the next job's run.    *)
(*                                                                         *)
(* A write transaction excludes other writers.  The one of                 *)
(* finish_translation writes a file before it commits: it is two steps, so *)
(* that the process may die in between.                                    *)
(***************************************************************************)
EXTENDS Naturals, FiniteSets

CONSTANTS
  Run,        (* the jobs over the result, one run at a time each          *)
  NBlocks,    (* blocks of the parsed paper                                *)
  PageSize,   (* blocks read at once, with the status of their translation *)
  Scope,      (* the blocks a run's request selects                        *)
  Forced,     (* runs of a 'retranslate' job                               *)
  NoRun,      (* no run at all                                             *)
  MaxResumes, (* bound: resumes, over all jobs                             *)
  MaxCrashes  (* bound: crashes of the Web process                         *)

ASSUME BlockTranslationAssumption ==
  /\ IsFiniteSet(Run)
  /\ NBlocks \in Nat \ {0}
  /\ PageSize \in Nat \ {0}
  /\ Scope \in [Run -> SUBSET (1..NBlocks)]
  /\ Forced \subseteq Run
  /\ NoRun \notin Run
  /\ MaxResumes \in Nat
  /\ MaxCrashes \in Nat

VARIABLES
  generation,  (* attempts begun on a block; 0: the block has no row       *)
  blockStatus, (* the row's status                                         *)
  active,      (* active_revision, named by its generation; 0: NULL        *)
  revisions,   (* committed revision rows of a block, by generation        *)
  files,       (* revision files on disk, by generation                    *)
  result,      (* the result's status                                      *)
  writer,      (* the run whose publishing transaction is open             *)
  admitted,    (* the run whose job occupies the account                   *)
  told,        (* runs whose job was cancelled                             *)
  run,         (* program counter and locals of each run                   *)
  resumes, crashes

blockVars == <<generation, blockStatus, active, revisions>>
jobVars   == <<admitted, told>>
bounds    == <<resumes, crashes>>
vars == <<blockVars, files, result, writer, jobVars, run, resumes, crashes>>

Blocks == 1..NBlocks

PC == {"idle", "page", "loop", "begin", "translate", "publish", "commit",
       "fail", "abort", "ending", "done"}

(* at: the block in hand; upto: the last block of the page in memory; seen:
   the page's blocks that had a completed translation when it was read; gen:
   the generation begun; fatal: the error ends the run; failures: some block
   failed. *)
Local == [pc : PC, at : 1..(NBlocks + 1), upto : 0..NBlocks, seen : SUBSET Blocks,
          gen : Nat, fatal : BOOLEAN, failures : BOOLEAN]

Fresh == [pc |-> "idle", at |-> 1, upto |-> 0, seen |-> {}, gen |-> 0,
          fatal |-> FALSE, failures |-> FALSE]

TypeOK ==
  /\ generation \in [Blocks -> Nat]
  /\ blockStatus \in [Blocks -> {"none", "running", "completed", "failed"}]
  /\ active \in [Blocks -> Nat]
  /\ revisions \in [Blocks -> SUBSET Nat]
  /\ files \in [Blocks -> SUBSET Nat]
  /\ result \in {"pending", "partial", "completed"}
  /\ writer \in Run \cup {NoRun}
  /\ admitted \in Run \cup {NoRun}
  /\ told \subseteq Run
  /\ run \in [Run -> Local]
  /\ resumes \in 0..MaxResumes
  /\ crashes \in 0..MaxCrashes

Init ==
  /\ generation = [b \in Blocks |-> 0]
  /\ blockStatus = [b \in Blocks |-> "none"]
  /\ active = [b \in Blocks |-> 0]
  /\ revisions = [b \in Blocks |-> {}]
  /\ files = [b \in Blocks |-> {}]
  /\ result = "pending"
  /\ writer = NoRun
  /\ admitted = NoRun
  /\ told = {}
  /\ run = [r \in Run |-> Fresh]
  /\ resumes = 0
  /\ crashes = 0

-------------------------------------------------------------------------------
(* What happens to a run's job. *)

(* create, then claim: the account has no other active job.  The first run
   creates the result, be it a translation or a re-translation. *)
Admit(r) ==
  /\ admitted = NoRun
  /\ run[r].pc = "idle"
  /\ admitted' = r
  /\ run' = [run EXCEPT ![r].pc = "page"]
  /\ UNCHANGED <<blockVars, files, result, writer, told, bounds>>

(* resume, then claim.  The dispatcher starts no second run of a job whose
   earlier run is still at work. *)
Resume(r) ==
  /\ resumes < MaxResumes
  /\ admitted = NoRun
  /\ run[r].pc = "done"
  /\ admitted' = r
  /\ told' = told \ {r}
  /\ run' = [run EXCEPT ![r] = [Fresh EXCEPT !.pc = "page"]]
  /\ resumes' = resumes + 1
  /\ UNCHANGED <<blockVars, files, result, writer, crashes>>

(* The first cancellation makes the job 'cancelling'; a second one makes it
   'cancelled', which lets the account start another job. *)
Cancel(r) ==
  /\ admitted = r
  /\ told' = told \cup {r}
  /\ admitted' = IF r \in told THEN NoRun ELSE admitted
  /\ UNCHANGED <<blockVars, files, result, writer, run, bounds>>

-------------------------------------------------------------------------------
(* The steps of run r. *)

At(r, where) == run[r].pc = where

Goto(r, where) == run' = [run EXCEPT ![r].pc = where]

(* The progress checkpoint after a block is refused once the job is not
   active any more. *)
NextBlock(r, failed) ==
  IF admitted = r
  THEN run' = [run EXCEPT ![r].pc = "loop", ![r].at = @ + 1,
                          ![r].failures = @ \/ failed]
  ELSE Goto(r, "abort")

(* The next page of blocks; or, before the first one, a check of the scope, of
   the configuration or of the job ends the run. *)
ReadPage(r) ==
  /\ At(r, "page")
  /\ run[r].at \in Blocks
  /\ \/ LET last == IF run[r].at + PageSize > NBlocks THEN NBlocks
                    ELSE run[r].at + PageSize - 1
        IN run' = [run EXCEPT ![r].pc = "loop", ![r].upto = last,
                              ![r].seen = {b \in run[r].at..last : blockStatus[b] = "completed"}]
     \/ run[r].at = 1 /\ Goto(r, "abort")
  /\ UNCHANGED <<blockVars, files, result, writer, jobVars, bounds>>

(* In the page: a run told to stop ends, as does one whose account was disabled;
   a block that is not selected, or was translated when the page was read, is
   passed over; the others are begun. *)
VisitBlock(r) ==
  /\ At(r, "loop")
  /\ LET b == run[r].at IN
       \/ b > run[r].upto /\ Goto(r, "page")
       \/ /\ b <= run[r].upto
          /\ \/ Goto(r, "abort")
             \/ /\ r \notin told
                /\ IF b \in Scope[r] /\ (r \in Forced \/ b \notin run[r].seen)
                   THEN Goto(r, "begin")
                   ELSE run' = [run EXCEPT ![r].at = @ + 1]
  /\ UNCHANGED <<blockVars, files, result, writer, jobVars, bounds>>

RestartBlock(b) ==
  /\ generation' = [generation EXCEPT ![b] = @ + 1]
  /\ blockStatus' = [blockStatus EXCEPT ![b] = "running"]
  /\ active' = [active EXCEPT ![b] = 0]
  /\ UNCHANGED revisions

(* begin_translation's upsert: a further generation, the old revision stays. *)
StartBlock(b) ==
  /\ generation' = [generation EXCEPT ![b] = @ + 1]
  /\ blockStatus' = [blockStatus EXCEPT ![b] = "running"]
  /\ UNCHANGED <<active, revisions>>

Begin(r) ==
  /\ At(r, "begin")
  /\ writer = NoRun
  /\ StartBlock(run[r].at)
  /\ run' = [run EXCEPT ![r].pc = "translate", ![r].gen = generation[run[r].at] + 1]
  /\ UNCHANGED <<files, result, writer, jobVars, bounds>>

(* The model's answer is there, from the supplier or from the unit
   checkpoints; or the block fails, which may end the run (a cancellation, an
   unknown outcome, a spent budget); or a check before any request ends the
   run and leaves the block as begun. *)
Translate(r) ==
  /\ At(r, "translate")
  /\ \/ Goto(r, "publish")
     \/ \E fatal \in BOOLEAN : run' = [run EXCEPT ![r].pc = "fail", ![r].fatal = fatal]
     \/ Goto(r, "abort")
  /\ UNCHANGED <<blockVars, files, result, writer, jobVars, bounds>>

IsRunning(r) == blockStatus[run[r].at] = "running"

(* The generation a run began is still the block's, and undecided. *)
IsCurrent(r) ==
  /\ generation[run[r].at] = run[r].gen
  /\ blockStatus[run[r].at] = "running"

(* finish_translation with a value: the transaction looks at the row, then
   writes the file.  A quota that is exceeded fails the block. *)
Publish(r) ==
  /\ At(r, "publish")
  /\ writer = NoRun
  /\ \/ /\ ~IsCurrent(r)
        /\ NextBlock(r, FALSE)
        /\ UNCHANGED <<files, writer>>
     \/ /\ IsCurrent(r)
        /\ files' = [files EXCEPT ![run[r].at] = @ \cup {run[r].gen}]
        /\ writer' = r
        /\ Goto(r, "commit")
     \/ /\ IsCurrent(r)
        /\ run' = [run EXCEPT ![r].pc = "fail", ![r].fatal = FALSE]
        /\ UNCHANGED <<files, writer>>
  /\ UNCHANGED <<blockVars, result, jobVars, bounds>>

Commit(r) ==
  /\ At(r, "commit")
  /\ LET b == run[r].at IN
       /\ revisions' = [revisions EXCEPT ![b] = @ \cup {run[r].gen}]
       /\ active' = [active EXCEPT ![b] = run[r].gen]
       /\ blockStatus' = [blockStatus EXCEPT ![b] = "completed"]
  /\ writer' = NoRun
  /\ NextBlock(r, FALSE)
  /\ UNCHANGED <<generation, files, result, jobVars, bounds>>

KeepFile(r) == files

RemoveAllFiles(r) == [files EXCEPT ![run[r].at] = {}]

RemoveFile(r) == [files EXCEPT ![run[r].at] = @ \ {run[r].gen}]

(* The transaction fails: the file is removed with it.  An error that is not
   a ProcessingError ends the run without touching the result's row. *)
Rollback(r) ==
  /\ At(r, "commit")
  /\ files' = RemoveFile(r)
  /\ writer' = NoRun
  /\ Goto(r, "ending")
  /\ UNCHANGED <<blockVars, result, jobVars, bounds>>

(* finish_translation with an error. *)
Fail(r) ==
  /\ At(r, "fail")
  /\ writer = NoRun
  /\ blockStatus' = IF IsCurrent(r) THEN [blockStatus EXCEPT ![run[r].at] = "failed"]
                    ELSE blockStatus
  /\ IF run[r].fatal THEN Goto(r, "abort") ELSE NextBlock(r, TRUE)
  /\ UNCHANGED <<generation, active, revisions, files, result, writer, jobVars, bounds>>

Readable == {b \in Blocks : active[b] # 0}

OutcomeOfRun(r) == IF run[r].failures THEN "partial" ELSE "completed"

OutcomeInterrupted(r) == IF Readable = Blocks THEN "completed" ELSE "interrupted"

(* The result is complete when every block of the paper can be read, not only
   those of this run's scope, and this run saw no failure. *)
Outcome(r) == IF Readable = Blocks /\ ~run[r].failures THEN "completed" ELSE "partial"

Conclude(r) ==
  /\ At(r, "page")
  /\ run[r].at \notin Blocks
  /\ writer = NoRun
  /\ result' = Outcome(r)
  /\ Goto(r, "ending")
  /\ UNCHANGED <<blockVars, files, writer, jobVars, bounds>>

(* A ProcessingError reached run(): the result is marked partial. *)
Abort(r) ==
  /\ At(r, "abort")
  /\ writer = NoRun
  /\ result' = "partial"
  /\ Goto(r, "ending")
  /\ UNCHANGED <<blockVars, files, writer, jobVars, bounds>>

(* A locked database or an unreadable file is not a ProcessingError: the run
   ends wherever it stands, and every row stays as it is. *)
BreakOff(r) ==
  /\ run[r].pc \in {"page", "loop", "begin", "translate", "publish", "fail", "abort"}
  /\ Goto(r, "ending")
  /\ UNCHANGED <<blockVars, files, result, writer, jobVars, bounds>>

(* finish() frees the account, unless a second cancellation had done so. *)
End(r) ==
  /\ At(r, "ending")
  /\ writer = NoRun
  /\ Goto(r, "done")
  /\ admitted' = IF admitted = r THEN NoRun ELSE admitted
  /\ UNCHANGED <<blockVars, files, result, writer, told, bounds>>

Step(r) ==
  \/ ReadPage(r) \/ VisitBlock(r) \/ Begin(r) \/ Translate(r) \/ Publish(r)
  \/ Commit(r) \/ Rollback(r) \/ Fail(r) \/ Conclude(r) \/ Abort(r)
  \/ BreakOff(r) \/ End(r)

-------------------------------------------------------------------------------

(* The process dies: open transactions are gone, files are not. *)
Crash ==
  /\ crashes < MaxCrashes
  /\ crashes' = crashes + 1
  /\ writer' = NoRun
  /\ admitted' = NoRun
  /\ run' = [r \in Run |-> IF run[r].pc = "idle" THEN run[r]
                           ELSE [run[r] EXCEPT !.pc = "done"]]
  /\ UNCHANGED <<blockVars, files, result, told, resumes>>

Next ==
  \/ \E r \in Run : Admit(r) \/ Resume(r) \/ Cancel(r) \/ Step(r)
  \/ Crash

Spec == Init /\ [][Next]_vars

-------------------------------------------------------------------------------
(* Properties. *)

(* "A late generation never overwrites a newer version": a block that reads as
   completed shows the answer of its latest attempt, whichever of the runs
   that overlap on it answered last. *)
CompletedIsCurrent ==
  \A b \in Blocks : blockStatus[b] = "completed" => active[b] = generation[b]

(* Every committed revision has its file, whatever crash or rollback came in
   between: readers open the active one, a backup opens them all. *)
RevisionsHaveFiles ==
  \A b \in Blocks : /\ revisions[b] \subseteq files[b]
                    /\ active[b] # 0 => active[b] \in revisions[b]

(* "A block that fails keeps its old translation": what was readable stays
   readable while the block is translated again and however that ends, and is
   only ever replaced by a later generation. *)
ReadableStaysReadable ==
  [][\A b \in Blocks : active[b] # 0 => active'[b] >= active[b]]_vars

(* A completed result has no block without a translation, also when the run
   that completed it translated a part of the paper only. *)
CompletedIsWhole == result = "completed" => Readable = Blocks

(* Files without a revision - bytes no quota counts - come from a crash inside
   a publishing transaction, at most one each, and from nothing else. *)
Orphans == {file \in Blocks \X (1..(Cardinality(Run) + MaxResumes)) :
              file[2] \in files[file[1]] \ revisions[file[1]]}

OrphansComeFromCrashes ==
  Cardinality(Orphans) <= crashes + (IF writer = NoRun THEN 0 ELSE 1)

===============================================================================
