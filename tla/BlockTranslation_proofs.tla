----------------------- MODULE BlockTranslation_proofs -----------------------
(***************************************************************************)
(* Publication of block translations, for every number of runs and blocks, *)
(* every choice of scopes and every number of resumes and crashes.         *)
(*                                                                         *)
(* The argument is about generations: a run owns the generation it began,  *)
(* an open transaction holds the current one, and a revision belongs to a  *)
(* generation that was begun and is not being worked on.                   *)
(***************************************************************************)
EXTENDS BlockTranslation, FiniteSetTheorems, TLAPS

(* A run that works on a block has one, and the generation it began. *)
InHand ==
  \A r \in Run :
    /\ run[r].pc \in {"begin", "translate", "publish", "commit", "fail"} => run[r].at \in Blocks
    /\ run[r].pc \in {"translate", "publish", "commit", "fail"} =>
         run[r].gen \in 1..generation[run[r].at]

(* The open transaction is that of one run, which holds the current
   generation of its block and has written the file. *)
Writing ==
  \A r \in Run :
    /\ writer = r <=> run[r].pc = "commit"
    /\ run[r].pc = "commit" => IsCurrent(r) /\ run[r].gen \in files[run[r].at]

(* Revisions are of generations that were begun and are decided. *)
Revised ==
  \A b \in Blocks :
    /\ revisions[b] \subseteq 1..generation[b]
    /\ blockStatus[b] = "running" => generation[b] \notin revisions[b]
    /\ active[b] <= generation[b]

TypeInv == TypeOK /\ InHand

BlockInv ==
  /\ TypeInv
  /\ Writing
  /\ Revised
  /\ CompletedIsCurrent
  /\ RevisionsHaveFiles
  /\ CompletedIsWhole

LEMMA FreshLocal == Fresh \in Local /\ Fresh.pc = "idle"
  BY BlockTranslationAssumption DEF Fresh, Local, PC

LEMMA InitBlockInv == Init => BlockInv
<1> SUFFICES ASSUME Init PROVE BlockInv
  OBVIOUS
<1>1. TypeInv
  BY FreshLocal, BlockTranslationAssumption DEF Init, TypeInv, TypeOK, InHand, Blocks
<1>2. Writing
  BY FreshLocal, BlockTranslationAssumption DEF Init, Writing
<1>3. Revised /\ CompletedIsCurrent /\ RevisionsHaveFiles
  BY DEF Init, Revised, CompletedIsCurrent, RevisionsHaveFiles
<1>4. CompletedIsWhole
  BY DEF Init, CompletedIsWhole
<1>5. QED BY <1>1, <1>2, <1>3, <1>4 DEF BlockInv

-------------------------------------------------------------------------------
(* What a step does to the records of the runs. *)

LEMMA GotoLocal ==
  ASSUME TypeOK, NEW r \in Run, NEW where \in PC, Goto(r, where)
  PROVE  /\ run' \in [Run -> Local]
         /\ run'[r].pc = where /\ run'[r].at = run[r].at /\ run'[r].gen = run[r].gen
         /\ \A q \in Run \ {r} : run'[q] = run[q]
<1>1. run \in [Run -> Local] /\ run[r] \in Local
  BY DEF TypeOK
<1>2. run' = [run EXCEPT ![r].pc = where]
  BY DEF Goto
<1>3. run'[r] = [run[r] EXCEPT !.pc = where]
  BY <1>1, <1>2
<1>4. /\ run'[r] \in Local
      /\ run'[r].pc = where /\ run'[r].at = run[r].at /\ run'[r].gen = run[r].gen
  BY <1>1, <1>3 DEF Local
<1>5. QED BY <1>1, <1>2, <1>4

LEMMA NextBlockLocal ==
  ASSUME TypeOK, NEW r \in Run, run[r].at \in Blocks, NEW failed \in BOOLEAN,
         NextBlock(r, failed)
  PROVE  /\ run' \in [Run -> Local]
         /\ run'[r].pc \in {"loop", "abort"}
         /\ \A q \in Run \ {r} : run'[q] = run[q]
<1>1. CASE admitted = r
  <2>1. run' = [run EXCEPT ![r].pc = "loop", ![r].at = @ + 1, ![r].failures = @ \/ failed]
    BY <1>1 DEF NextBlock
  <2>2. run[r] \in Local /\ run[r].at + 1 \in 1..(NBlocks + 1)
    BY BlockTranslationAssumption DEF TypeOK, Blocks
  <2>3. (run[r].failures \/ failed) \in BOOLEAN
    BY <2>2 DEF Local
  <2>4. run'[r] = [run[r] EXCEPT !.pc = "loop", !.at = @ + 1, !.failures = @ \/ failed]
    BY <2>1 DEF TypeOK
  <2>5. run'[r] \in Local /\ run'[r].pc = "loop"
    BY <2>2, <2>3, <2>4 DEF Local, PC
  <2>6. QED BY <2>1, <2>5 DEF TypeOK
<1>2. CASE admitted # r
  BY <1>2, GotoLocal DEF NextBlock, PC
<1>3. QED BY <1>1, <1>2

(* A step of a run changes its own record only, keeps it a record of a run,
   and has a block in hand where the place says so. *)
LEMMA StepLocal ==
  ASSUME TypeInv, NEW r \in Run, Step(r)
  PROVE  /\ run' \in [Run -> Local]
         /\ \A q \in Run \ {r} : run'[q] = run[q]
         /\ run'[r].pc \in {"begin", "translate", "publish", "commit", "fail"} =>
              run'[r].at \in Blocks
         /\ run'[r].pc \in {"publish", "commit", "fail"} =>
              /\ run[r].pc \in {"translate", "publish"}
              /\ run'[r].at = run[r].at /\ run'[r].gen = run[r].gen
         /\ run'[r].pc = "translate" => Begin(r)
<1> DEFINE Good ==
         /\ run' \in [Run -> Local]
         /\ \A q \in Run \ {r} : run'[q] = run[q]
         /\ run'[r].pc \in {"begin", "translate", "publish", "commit", "fail"} =>
              run'[r].at \in Blocks
         /\ run'[r].pc \in {"publish", "commit", "fail"} =>
              /\ run[r].pc \in {"translate", "publish"}
              /\ run'[r].at = run[r].at /\ run'[r].gen = run[r].gen
         /\ run'[r].pc = "translate" => Begin(r)
<1>1. /\ TypeOK
      /\ run \in [Run -> Local] /\ run[r] \in Local
      /\ run[r].pc \in {"begin", "translate", "publish", "commit", "fail"} => run[r].at \in Blocks
  BY DEF TypeInv, TypeOK, InHand
<1>a. ASSUME NEW where \in PC \ {"begin", "translate", "publish", "commit", "fail"}, Goto(r, where)
      PROVE  Good
  BY <1>1, <1>a, GotoLocal
<1>b. ASSUME run[r].at \in Blocks, NEW failed \in BOOLEAN, NextBlock(r, failed)
      PROVE  Good
  BY <1>1, <1>b, NextBlockLocal
<1>2. CASE ReadPage(r)
  <2>1. CASE Goto(r, "abort")
    BY <2>1, <1>a DEF PC
  <2>2. CASE ~Goto(r, "abort")
    <3> DEFINE last == IF run[r].at + PageSize > NBlocks THEN NBlocks
                       ELSE run[r].at + PageSize - 1
               seen == {b \in run[r].at..last : blockStatus[b] = "completed"}
    <3>1. run' = [run EXCEPT ![r].pc = "loop", ![r].upto = last, ![r].seen = seen]
      BY <1>2, <2>2 DEF ReadPage
    <3>2. last \in 0..NBlocks /\ seen \subseteq Blocks
      BY <1>1, BlockTranslationAssumption DEF Local, Blocks
    <3> HIDE DEF last, seen
    <3>3. run'[r] = [run[r] EXCEPT !.pc = "loop", !.upto = last, !.seen = seen]
      BY <1>1, <3>1
    <3>4. run'[r] \in Local /\ run'[r].pc = "loop"
      BY <1>1, <3>2, <3>3 DEF Local, PC
    <3>5. QED BY <1>1, <3>1, <3>4
  <2>3. QED BY <2>1, <2>2
<1>3. CASE VisitBlock(r)
  <2>1. CASE Goto(r, "page") \/ Goto(r, "abort")
    BY <2>1, <1>a DEF PC
  <2>2. CASE run[r].at <= run[r].upto /\ Goto(r, "begin")
    <3>1. run[r].at \in Blocks
      BY <1>1, <2>2, BlockTranslationAssumption DEF Local, Blocks
    <3>2. "begin" \in PC
      BY DEF PC
    <3>3. QED BY <1>1, <2>2, <3>1, <3>2, GotoLocal
  <2>3. CASE run[r].at <= run[r].upto /\ run' = [run EXCEPT ![r].at = @ + 1]
    <3>1. run[r].at + 1 \in 1..(NBlocks + 1)
      BY <1>1, <2>3, BlockTranslationAssumption DEF Local
    <3>2. run[r].pc = "loop"
      BY <1>3 DEF VisitBlock, At
    <3>3. QED BY <1>1, <2>3, <3>1, <3>2 DEF Local
  <2>4. QED BY <1>3, <2>1, <2>2, <2>3 DEF VisitBlock
<1>4. CASE Begin(r)
  <2>1. run[r].pc = "begin" /\ run[r].at \in Blocks
    BY <1>1, <1>4 DEF Begin, At
  <2>2. run' = [run EXCEPT ![r].pc = "translate", ![r].gen = generation[run[r].at] + 1]
    BY <1>4 DEF Begin
  <2>3. generation[run[r].at] + 1 \in Nat
    BY <1>1, <2>1 DEF TypeOK
  <2>4. "translate" \in PC
    BY DEF PC
  <2>5. QED BY <1>1, <1>4, <2>1, <2>2, <2>3, <2>4 DEF Local
<1>5. CASE Translate(r)
  <2>1. run[r].pc = "translate" /\ run[r].at \in Blocks
    BY <1>1, <1>5 DEF Translate, At
  <2>2. CASE Goto(r, "publish")
    BY <1>1, <2>1, <2>2, GotoLocal DEF PC
  <2>3. ASSUME NEW fatal \in BOOLEAN, run' = [run EXCEPT ![r].pc = "fail", ![r].fatal = fatal]
        PROVE  Good
    BY <1>1, <2>1, <2>3 DEF Local, PC
  <2>4. CASE Goto(r, "abort")
    BY <2>4, <1>a DEF PC
  <2>5. QED BY <1>5, <2>2, <2>3, <2>4 DEF Translate
<1>6. CASE Publish(r)
  <2>1. run[r].pc = "publish" /\ run[r].at \in Blocks
    BY <1>1, <1>6 DEF Publish, At
  <2>2. CASE NextBlock(r, FALSE)
    BY <2>1, <2>2, <1>b
  <2>3. CASE Goto(r, "commit")
    BY <1>1, <2>1, <2>3, GotoLocal DEF PC
  <2>4. CASE run' = [run EXCEPT ![r].pc = "fail", ![r].fatal = FALSE]
    BY <1>1, <2>1, <2>4 DEF Local, PC
  <2>5. QED BY <1>6, <2>2, <2>3, <2>4 DEF Publish
<1>7. CASE Commit(r)
  BY <1>1, <1>7, <1>b DEF Commit, At
<1>8. CASE Rollback(r) \/ Conclude(r) \/ Abort(r) \/ BreakOff(r) \/ End(r)
  <2>1. Goto(r, "ending") \/ Goto(r, "done")
    BY <1>8 DEF Rollback, Conclude, Abort, BreakOff, End
  <2>2. QED BY <2>1, <1>a DEF PC
<1>9. CASE Fail(r)
  <2>1. Goto(r, "abort") \/ NextBlock(r, TRUE)
    BY <1>9 DEF Fail
  <2>2. run[r].at \in Blocks
    BY <1>1, <1>9 DEF Fail, At
  <2>3. QED BY <2>1, <2>2, <1>a, <1>b DEF PC
<1>10. QED
  BY <1>2, <1>3, <1>4, <1>5, <1>6, <1>7, <1>8, <1>9 DEF Step

(* What a step does to the rows, the files and the result. *)
DataOK ==
  /\ generation \in [Blocks -> Nat]
  /\ blockStatus \in [Blocks -> {"none", "running", "completed", "failed"}]
  /\ active \in [Blocks -> Nat]
  /\ revisions \in [Blocks -> SUBSET Nat]
  /\ files \in [Blocks -> SUBSET Nat]
  /\ result \in {"pending", "partial", "completed"}
  /\ writer \in Run \cup {NoRun}
  /\ admitted \in Run \cup {NoRun}
  /\ told \subseteq Run

Older == \A b \in Blocks : generation[b] <= generation'[b]

LEMMA StepData ==
  ASSUME TypeInv, NEW r \in Run, Step(r)
  PROVE  DataOK' /\ Older /\ UNCHANGED <<resumes, crashes>>
<1> USE DEF DataOK, Older, blockVars, jobVars, bounds
<1>1. /\ DataOK
      /\ run[r].gen \in Nat
      /\ run[r].pc \in {"begin", "translate", "publish", "commit", "fail"} => run[r].at \in Blocks
  BY DEF TypeInv, TypeOK, InHand, Local
<1>2. CASE ReadPage(r) \/ VisitBlock(r) \/ Translate(r) \/ BreakOff(r)
  BY <1>1, <1>2 DEF ReadPage, VisitBlock, Translate, BreakOff
<1>3. CASE Begin(r)
  <2>1. run[r].at \in Blocks
    BY <1>1, <1>3 DEF Begin, At
  <2>2. QED BY <1>1, <1>3, <2>1 DEF Begin, StartBlock
<1>4. CASE Publish(r)
  <2>1. run[r].at \in Blocks
    BY <1>1, <1>4 DEF Publish, At
  <2>2. UNCHANGED <<blockVars, result, jobVars, bounds>>
    BY <1>4 DEF Publish
  <2>3. \/ UNCHANGED <<files, writer>>
        \/ files' = [files EXCEPT ![run[r].at] = @ \cup {run[r].gen}] /\ writer' = r
    BY <1>4 DEF Publish
  <2>4. files' \in [Blocks -> SUBSET Nat] /\ writer' \in Run \cup {NoRun}
    BY <1>1, <2>1, <2>3
  <2>5. QED BY <1>1, <2>2, <2>4
<1>5. CASE Commit(r)
  <2>1. run[r].at \in Blocks
    BY <1>1, <1>5 DEF Commit, At
  <2>2. QED BY <1>1, <1>5, <2>1 DEF Commit
<1>6. CASE Rollback(r)
  <2>1. run[r].at \in Blocks
    BY <1>1, <1>6 DEF Rollback, At
  <2>2. files' \in [Blocks -> SUBSET Nat]
    BY <1>1, <1>6, <2>1 DEF Rollback, RemoveFile
  <2>3. QED BY <1>1, <1>6, <2>2 DEF Rollback
<1>7. CASE Fail(r)
  <2>1. run[r].at \in Blocks
    BY <1>1, <1>7 DEF Fail, At
  <2>2. UNCHANGED <<generation, active, revisions, files, result, writer, jobVars, bounds>>
    BY <1>7 DEF Fail
  <2>3. \/ blockStatus' = [blockStatus EXCEPT ![run[r].at] = "failed"]
        \/ UNCHANGED blockStatus
    BY <1>7 DEF Fail
  <2>4. QED BY <1>1, <2>1, <2>2, <2>3
<1>8. CASE Conclude(r) \/ Abort(r)
  BY <1>1, <1>8 DEF Conclude, Abort, Outcome
<1>9. CASE End(r)
  BY <1>1, <1>9 DEF End
<1>10. QED
  BY <1>2, <1>3, <1>4, <1>5, <1>6, <1>7, <1>8, <1>9 DEF Step

(* The steps that are not a run's leave the rows, the files and the result
   alone, and no run works on another block than before. *)
LEMMA OtherStep ==
  ASSUME TypeOK, [Next]_vars, ~ \E r \in Run : Step(r)
  PROVE  /\ UNCHANGED <<blockVars, files, result>>
         /\ TypeOK'
         /\ \A r \in Run : run'[r] = run[r] \/ run'[r].pc \in {"page", "done"}
         /\ \/ /\ UNCHANGED writer
               /\ \A r \in Run : run'[r] = run[r] \/ {run[r].pc, run'[r].pc} \subseteq {"idle", "done", "page"}
            \/ writer' = NoRun /\ \A r \in Run : run'[r].pc \in {"idle", "done"}
<1> USE DEF blockVars, jobVars, bounds, TypeOK
<1>1. ASSUME NEW r \in Run, Admit(r) \/ Resume(r)
      PROVE  /\ UNCHANGED <<blockVars, files, result, writer>> /\ TypeOK'
             /\ \A q \in Run :
                  run'[q] = run[q] \/ (run[q].pc \in {"idle", "done"} /\ run'[q].pc = "page")
  <2>1. UNCHANGED <<blockVars, files, result, writer, crashes>>
    BY <1>1 DEF Admit, Resume
  <2>2. admitted' \in Run /\ told' \subseteq Run /\ resumes' \in 0..MaxResumes
    BY <1>1, BlockTranslationAssumption DEF Admit, Resume
  <2>3. CASE Admit(r)
    <3>1. run' = [run EXCEPT ![r].pc = "page"]
      BY <2>3 DEF Admit
    <3>2. run'[r] \in Local /\ run'[r].pc = "page"
      BY <3>1, GotoLocal DEF Goto, PC
    <3>3. run[r].pc = "idle"
      BY <2>3 DEF Admit
    <3>4. run' \in [Run -> Local] /\ \A q \in Run \ {r} : run'[q] = run[q]
      BY <3>1, <3>2
    <3>5. run'[r].pc = "page"
      BY <3>1, <3>2
    <3>6. TypeOK'
      BY <2>1, <2>2, <3>4
    <3>7. QED BY <2>1, <3>3, <3>4, <3>5, <3>6
  <2>4. CASE Resume(r)
    <3>1. run' = [run EXCEPT ![r] = [Fresh EXCEPT !.pc = "page"]]
      BY <2>4 DEF Resume
    <3>2. [Fresh EXCEPT !.pc = "page"] \in Local /\ [Fresh EXCEPT !.pc = "page"].pc = "page"
      BY FreshLocal DEF Local, PC
    <3>3. run[r].pc = "done"
      BY <2>4 DEF Resume
    <3>4. run' \in [Run -> Local] /\ \A q \in Run \ {r} : run'[q] = run[q]
      BY <3>1, <3>2
    <3>5. run'[r].pc = "page"
      BY <3>1, <3>2
    <3>6. TypeOK'
      BY <2>1, <2>2, <3>4
    <3>7. QED BY <2>1, <3>3, <3>4, <3>5, <3>6
  <2>5. QED BY <1>1, <2>3, <2>4
<1>2. ASSUME NEW r \in Run, Cancel(r)
      PROVE  UNCHANGED <<blockVars, files, result, writer, run>> /\ TypeOK'
  BY <1>2 DEF Cancel
<1>3. CASE Crash
  <2>1. /\ UNCHANGED <<blockVars, files, result, told, resumes>>
        /\ writer' = NoRun /\ admitted' = NoRun /\ crashes' \in 0..MaxCrashes
    BY <1>3, BlockTranslationAssumption DEF Crash
  <2>2. \A q \in Run : run'[q] = IF run[q].pc = "idle" THEN run[q]
                                 ELSE [run[q] EXCEPT !.pc = "done"]
    BY <1>3 DEF Crash
  <2>3. ASSUME NEW q \in Run
        PROVE  run'[q] \in Local /\ run'[q].pc \in {"idle", "done"}
               /\ (run'[q] = run[q] \/ run'[q].pc = "done")
    <3>1. CASE run[q].pc = "idle"
      BY <2>2, <3>1
    <3>2. CASE run[q].pc # "idle"
      <4>1. run'[q] = [run[q] EXCEPT !.pc = "done"]
        BY <2>2, <3>2
      <4>2. run[q] \in Local /\ "done" \in PC
        BY DEF PC
      <4>3. QED BY <4>1, <4>2 DEF Local
    <3>3. QED BY <3>1, <3>2
  <2>4. run' \in [Run -> Local]
    BY <1>3, <2>3 DEF Crash
  <2>5. QED BY <2>1, <2>3, <2>4
<1>4. CASE UNCHANGED vars
  BY <1>4 DEF vars
<1>5. QED BY <1>1, <1>2, <1>3, <1>4 DEF Next

LEMMA TypeInvStep == TypeInv /\ [Next]_vars => TypeInv'
<1> SUFFICES ASSUME TypeInv, [Next]_vars PROVE TypeInv'
  OBVIOUS
<1>1. ASSUME NEW r \in Run, Step(r) PROVE TypeInv'
  <2>1. TypeOK'
    BY <1>1, StepLocal, StepData DEF TypeInv, TypeOK, DataOK
  <2>2. ASSUME NEW q \in Run \ {r}
        PROVE  /\ run'[q].pc \in {"begin", "translate", "publish", "commit", "fail"} => run'[q].at \in Blocks
               /\ run'[q].pc \in {"translate", "publish", "commit", "fail"} =>
                    run'[q].gen \in 1..generation'[run'[q].at]
    <3>1. run'[q] = run[q]
      BY <1>1, StepLocal
    <3>2. Older /\ generation \in [Blocks -> Nat] /\ generation' \in [Blocks -> Nat]
      BY <1>1, StepData DEF TypeInv, TypeOK, DataOK
    <3>3. QED BY <3>1, <3>2 DEF TypeInv, InHand, Older
  <2>3. run'[r].pc \in {"begin", "translate", "publish", "commit", "fail"} => run'[r].at \in Blocks
    BY <1>1, StepLocal
  <2>4. CASE run'[r].pc = "translate"
    <3>1. Begin(r)
      BY <1>1, <2>4, StepLocal
    <3>2. run[r].at \in Blocks /\ run'[r].at = run[r].at /\ run'[r].gen = generation[run[r].at] + 1
      BY <3>1 DEF Begin, At, TypeInv, TypeOK, InHand, Local
    <3>3. generation'[run[r].at] = generation[run[r].at] + 1 /\ generation[run[r].at] \in Nat
      BY <3>1, <3>2 DEF Begin, StartBlock, TypeInv, TypeOK
    <3>4. QED BY <2>2, <2>4, <2>1, <3>2, <3>3 DEF TypeInv, InHand
  <2>5. CASE run'[r].pc \in {"publish", "commit", "fail"}
    <3>1. /\ run[r].pc \in {"translate", "publish"}
          /\ run'[r].at = run[r].at /\ run'[r].gen = run[r].gen
      BY <1>1, <2>5, StepLocal
    <3>2. run[r].at \in Blocks /\ run[r].gen \in 1..generation[run[r].at]
      BY <3>1 DEF TypeInv, InHand
    <3>3. Older /\ generation \in [Blocks -> Nat] /\ generation' \in [Blocks -> Nat]
      BY <1>1, StepData DEF TypeInv, TypeOK, DataOK
    <3>4. run'[r].gen \in 1..generation'[run'[r].at]
      BY <3>1, <3>2, <3>3 DEF Older
    <3>5. QED BY <2>1, <2>2, <2>3, <3>4 DEF TypeInv, InHand
  <2>6. QED BY <2>1, <2>2, <2>3, <2>4, <2>5 DEF TypeInv, InHand
<1>2. CASE ~ \E r \in Run : Step(r)
  <2>1. /\ TypeOK' /\ generation' = generation
        /\ \A r \in Run : run'[r] = run[r] \/ run'[r].pc \in {"page", "done"}
    BY <1>2, OtherStep DEF TypeInv, blockVars
  <2>2. QED BY <2>1 DEF TypeInv, InHand
<1>3. QED BY <1>1, <1>2

(* A record of the engine is of its type, and a run has a block in hand, with
   the generation it began, where its place says so. *)
THEOREM TypeCorrect == Spec => []TypeInv
<1>1. Init => TypeInv
  BY InitBlockInv DEF BlockInv
<1>2. QED BY <1>1, TypeInvStep, PTL DEF Spec

(* In particular no handler, thread or restart leaves a block, a
   revision or a run outside of its type. *)
THEOREM TypesKept == Spec => []TypeOK
<1>1. TypeInv => TypeOK
  BY DEF TypeInv
<1>2. QED BY <1>1, TypeCorrect, PTL

-------------------------------------------------------------------------------
(* The transaction and the revisions. *)

Publication == Writing /\ Revised /\ CompletedIsCurrent /\ RevisionsHaveFiles

(* Where no transaction is open, a step of run r that neither opens one nor
   touches the rows and the files keeps what is said of them. *)
LEMMA QuietKeeps ==
  ASSUME TypeInv, Publication, NEW r \in Run, Step(r),
         run[r].pc # "commit", run'[r].pc # "commit", UNCHANGED <<blockVars, files, writer>>
  PROVE  Publication'
<1>1. \A q \in Run \ {r} : run'[q] = run[q]
  BY StepLocal
<1>2. Writing'
  BY <1>1 DEF Publication, Writing, IsCurrent, blockVars
<1>3. Revised' /\ CompletedIsCurrent' /\ RevisionsHaveFiles'
  BY DEF Publication, Revised, CompletedIsCurrent, RevisionsHaveFiles, blockVars
<1>4. QED BY <1>2, <1>3 DEF Publication

LEMMA NotWriting ==
  ASSUME Writing, writer = NoRun
  PROVE  \A q \in Run : run[q].pc # "commit"
  BY BlockTranslationAssumption DEF Writing

(* A generation that begins has no revision yet. *)
LEMMA BeginKeeps ==
  ASSUME TypeInv, Publication, NEW r \in Run, Begin(r)
  PROVE  Publication'
<1> DEFINE b == run[r].at
<1>1. /\ TypeOK /\ b \in Blocks /\ generation[b] \in Nat
      /\ Writing /\ Revised /\ CompletedIsCurrent /\ RevisionsHaveFiles
  BY DEF TypeInv, TypeOK, InHand, Publication, Begin, At
<1>2. /\ generation' = [generation EXCEPT ![b] = @ + 1]
      /\ blockStatus' = [blockStatus EXCEPT ![b] = "running"]
      /\ UNCHANGED <<active, revisions, files, writer>>
      /\ writer = NoRun
  BY DEF Begin, StartBlock
<1>3. \A q \in Run : run'[q].pc # "commit"
  <2>1. \A q \in Run \ {r} : run'[q] = run[q]
    BY StepLocal DEF Step
  <2>2. run'[r].pc = "translate"
    BY <1>1 DEF Begin, TypeOK, Local
  <2>3. QED BY <1>1, <1>2, <2>1, <2>2, NotWriting
<1>4. Writing'
  BY <1>2, <1>3, BlockTranslationAssumption DEF Writing
<1>5. ASSUME NEW c \in Blocks
      PROVE  /\ revisions'[c] \subseteq 1..generation'[c]
             /\ blockStatus'[c] = "running" => generation'[c] \notin revisions'[c]
             /\ active'[c] <= generation'[c]
             /\ blockStatus'[c] = "completed" => active'[c] = generation'[c]
  <2>1. CASE c = b
    <3>1. generation'[c] = generation[c] + 1 /\ blockStatus'[c] = "running"
      BY <1>1, <1>2, <2>1 DEF TypeOK
    <3>2. revisions'[c] = revisions[c] /\ active'[c] = active[c] /\ active[c] \in Nat
      BY <1>1, <1>2 DEF TypeOK
    <3>3. revisions[c] \subseteq 1..generation[c] /\ active[c] <= generation[c]
      BY <1>1 DEF Revised
    <3>4. QED BY <1>1, <2>1, <3>1, <3>2, <3>3
  <2>2. CASE c # b
    BY <1>1, <1>2, <2>2 DEF Revised, CompletedIsCurrent, TypeOK
  <2>3. QED BY <2>1, <2>2
<1>6. RevisionsHaveFiles'
  BY <1>1, <1>2 DEF RevisionsHaveFiles
<1>7. QED BY <1>4, <1>5, <1>6 DEF Publication, Revised, CompletedIsCurrent

LEMMA PublishKeeps ==
  ASSUME TypeInv, Publication, NEW r \in Run, Publish(r)
  PROVE  Publication'
<1> DEFINE b == run[r].at
<1>1. /\ TypeOK /\ b \in Blocks /\ run[r].gen \in Nat /\ run[r].pc = "publish"
      /\ Writing /\ Revised /\ CompletedIsCurrent /\ RevisionsHaveFiles
  BY DEF TypeInv, TypeOK, InHand, Local, Publication, Publish, At
<1>2. UNCHANGED blockVars /\ writer = NoRun
  BY DEF Publish
<1>3. CASE /\ UNCHANGED <<files, writer>>
           /\ \/ NextBlock(r, FALSE)
              \/ run' = [run EXCEPT ![r].pc = "fail", ![r].fatal = FALSE]
  <2>1. run'[r].pc # "commit"
    <3>1. CASE NextBlock(r, FALSE)
      BY <1>1, <3>1, NextBlockLocal
    <3>2. CASE run' = [run EXCEPT ![r].pc = "fail", ![r].fatal = FALSE]
      BY <1>1, <3>2 DEF TypeOK, Local
    <3>3. QED BY <1>3, <3>1, <3>2
  <2>2. QED BY <1>1, <1>2, <1>3, <2>1, QuietKeeps DEF Step
<1>4. CASE /\ IsCurrent(r) /\ writer' = r /\ Goto(r, "commit")
           /\ files' = [files EXCEPT ![b] = @ \cup {run[r].gen}]
  <2>1. /\ run'[r].pc = "commit" /\ run'[r].at = b /\ run'[r].gen = run[r].gen
        /\ \A q \in Run \ {r} : run'[q] = run[q]
    BY <1>1, <1>4, GotoLocal DEF PC
  <2>2. \A q \in Run : run[q].pc # "commit"
    BY <1>1, <1>2, NotWriting
  <2>3. /\ run[r].gen \in files'[b]
        /\ \A c \in Blocks : files[c] \subseteq files'[c]
    BY <1>1, <1>4 DEF TypeOK
  <2>4. Writing'
    <3>1. ASSUME NEW q \in Run
          PROVE  /\ writer' = q <=> run'[q].pc = "commit"
                 /\ run'[q].pc = "commit" => q = r
      BY <1>4, <2>1, <2>2
    <3>2. IsCurrent(r)' /\ run'[r].gen \in files'[run'[r].at]
      BY <1>2, <1>4, <2>1, <2>3 DEF IsCurrent, blockVars
    <3>3. QED BY <3>1, <3>2 DEF Writing
  <2>5. Revised' /\ CompletedIsCurrent'
    BY <1>1, <1>2 DEF Revised, CompletedIsCurrent, blockVars
  <2>6. RevisionsHaveFiles'
    BY <1>1, <1>2, <2>3 DEF RevisionsHaveFiles, blockVars
  <2>7. QED BY <2>4, <2>5, <2>6 DEF Publication
<1>5. QED BY <1>3, <1>4 DEF Publish

(* After a transaction ends there is none. *)
LEMMA NoneOpen ==
  ASSUME TypeInv, Writing, NEW r \in Run, Step(r), run[r].pc = "commit",
         run'[r].pc # "commit", writer' = NoRun
  PROVE  Writing'
<1>1. \A q \in Run \ {r} : run'[q] = run[q] /\ run[q].pc # "commit"
  BY StepLocal DEF Writing
<1>2. QED BY <1>1, BlockTranslationAssumption DEF Writing

(* What is committed is the current generation, and its file is there. *)
LEMMA CommitKeeps ==
  ASSUME TypeInv, Publication, NEW r \in Run, Commit(r)
  PROVE  Publication'
<1> DEFINE b == run[r].at
           g == run[r].gen
<1>1. /\ TypeOK /\ b \in Blocks /\ run[r].pc = "commit" /\ g \in 1..generation[b]
      /\ Writing /\ Revised /\ CompletedIsCurrent /\ RevisionsHaveFiles
  BY DEF TypeInv, InHand, Publication, Commit, At
<1>2. g = generation[b] /\ generation[b] \in Nat /\ g \in files[b]
  BY <1>1 DEF Writing, IsCurrent, TypeOK
<1>3. /\ revisions' = [revisions EXCEPT ![b] = @ \cup {g}]
      /\ active' = [active EXCEPT ![b] = g]
      /\ blockStatus' = [blockStatus EXCEPT ![b] = "completed"]
      /\ UNCHANGED <<generation, files>>
      /\ writer' = NoRun /\ NextBlock(r, FALSE)
  BY DEF Commit
<1>4. Writing'
  <2>1. run'[r].pc # "commit"
    BY <1>1, <1>3, NextBlockLocal
  <2>2. QED BY <1>1, <1>3, <2>1, NoneOpen DEF Step
<1>5. ASSUME NEW c \in Blocks
      PROVE  /\ revisions'[c] \subseteq 1..generation'[c]
             /\ blockStatus'[c] = "running" => generation'[c] \notin revisions'[c]
             /\ active'[c] <= generation'[c]
             /\ blockStatus'[c] = "completed" => active'[c] = generation'[c]
             /\ revisions'[c] \subseteq files'[c]
             /\ active'[c] # 0 => active'[c] \in revisions'[c]
  <2>1. CASE c = b
    <3>1. /\ revisions'[c] = revisions[c] \cup {g} /\ active'[c] = g
          /\ blockStatus'[c] = "completed" /\ generation'[c] = g /\ files'[c] = files[c]
      BY <1>1, <1>2, <1>3, <2>1 DEF TypeOK
    <3>2. revisions[c] \subseteq 1..g /\ revisions[c] \subseteq files[c]
      BY <1>1, <1>2, <2>1 DEF Revised, RevisionsHaveFiles
    <3>3. QED BY <1>1, <1>2, <2>1, <3>1, <3>2
  <2>2. CASE c # b
    <3>1. /\ revisions'[c] = revisions[c] /\ active'[c] = active[c]
          /\ blockStatus'[c] = blockStatus[c]
      BY <1>1, <1>3, <2>2 DEF TypeOK
    <3>2. QED BY <1>1, <1>3, <3>1 DEF Revised, CompletedIsCurrent, RevisionsHaveFiles
  <2>3. QED BY <2>1, <2>2
<1>6. QED BY <1>4, <1>5 DEF Publication, Revised, CompletedIsCurrent, RevisionsHaveFiles

(* A rollback removes the file of a generation that has no revision. *)
LEMMA RollbackKeeps ==
  ASSUME TypeInv, Publication, NEW r \in Run, Rollback(r)
  PROVE  Publication'
<1> DEFINE b == run[r].at
           g == run[r].gen
<1>1. /\ TypeOK /\ b \in Blocks /\ run[r].pc = "commit"
      /\ Writing /\ Revised /\ CompletedIsCurrent /\ RevisionsHaveFiles
  BY DEF TypeInv, InHand, Publication, Rollback, At
<1>2. g \notin revisions[b]
  BY <1>1 DEF Writing, IsCurrent, Revised
<1>3. /\ files' = [files EXCEPT ![b] = @ \ {g}]
      /\ UNCHANGED blockVars /\ writer' = NoRun /\ Goto(r, "ending")
  BY DEF Rollback, RemoveFile
<1>4. Writing'
  <2>1. run'[r].pc = "ending"
    BY <1>1, <1>3, GotoLocal DEF PC
  <2>2. QED BY <1>1, <1>3, <2>1, NoneOpen DEF Step
<1>5. Revised' /\ CompletedIsCurrent'
  BY <1>1, <1>3 DEF Revised, CompletedIsCurrent, blockVars
<1>6. ASSUME NEW c \in Blocks PROVE revisions[c] \subseteq files'[c]
  <2>1. revisions[c] \subseteq files[c]
    BY <1>1 DEF RevisionsHaveFiles
  <2>2. files'[c] = IF c = b THEN files[c] \ {g} ELSE files[c]
    BY <1>1, <1>3 DEF TypeOK
  <2>3. QED BY <1>2, <2>1, <2>2
<1>7. RevisionsHaveFiles'
  BY <1>1, <1>3, <1>6 DEF RevisionsHaveFiles, blockVars
<1>8. QED BY <1>4, <1>5, <1>7 DEF Publication

(* A generation that failed keeps the revisions of the earlier ones. *)
LEMMA FailKeeps ==
  ASSUME TypeInv, Publication, NEW r \in Run, Fail(r)
  PROVE  Publication'
<1> DEFINE b == run[r].at
<1>1. /\ TypeOK /\ b \in Blocks
      /\ Writing /\ Revised /\ CompletedIsCurrent /\ RevisionsHaveFiles
  BY DEF TypeInv, InHand, Publication, Fail, At
<1>2. /\ UNCHANGED <<generation, active, revisions, files, writer>> /\ writer = NoRun
      /\ blockStatus' = [blockStatus EXCEPT ![b] = "failed"] \/ UNCHANGED blockStatus
  BY DEF Fail
<1>3. run'[r].pc \in {"loop", "abort"}
  <2>1. Goto(r, "abort") \/ NextBlock(r, TRUE)
    BY DEF Fail
  <2>2. QED BY <1>1, <2>1, GotoLocal, NextBlockLocal DEF PC
<1>4. Writing'
  <2>1. \A q \in Run \ {r} : run'[q] = run[q]
    BY StepLocal DEF Step
  <2>2. \A q \in Run : run'[q].pc # "commit"
    BY <1>1, <1>2, <1>3, <2>1, NotWriting
  <2>3. QED BY <1>2, <2>2, BlockTranslationAssumption DEF Writing
<1>5. \A c \in Blocks : blockStatus'[c] = blockStatus[c] \/ blockStatus'[c] = "failed"
  BY <1>1, <1>2 DEF TypeOK
<1>6. Revised' /\ CompletedIsCurrent' /\ RevisionsHaveFiles'
  BY <1>1, <1>2, <1>5 DEF Revised, CompletedIsCurrent, RevisionsHaveFiles
<1>7. QED BY <1>4, <1>6 DEF Publication

LEMMA PublicationStep == TypeInv /\ Publication /\ [Next]_vars => Publication'
<1> SUFFICES ASSUME TypeInv, Publication, [Next]_vars PROVE Publication'
  OBVIOUS
<1>1. ASSUME NEW r \in Run, Step(r) PROVE Publication'
  <2>1. CASE Begin(r) \/ Publish(r) \/ Commit(r) \/ Rollback(r) \/ Fail(r)
    BY <2>1, BeginKeeps, PublishKeeps, CommitKeeps, RollbackKeeps, FailKeeps
  <2>2. CASE \/ ReadPage(r) \/ VisitBlock(r) \/ Translate(r) \/ Conclude(r)
             \/ Abort(r) \/ BreakOff(r) \/ End(r)
    <3>1. UNCHANGED <<blockVars, files, writer>>
      BY <2>2 DEF ReadPage, VisitBlock, Translate, Conclude, Abort, BreakOff, End
    <3>2. run[r].pc # "commit"
      BY <2>2 DEF ReadPage, VisitBlock, Translate, Conclude, Abort, BreakOff, End, At
    <3>3. run'[r].pc # "commit"
      <4>1. CASE ReadPage(r) \/ VisitBlock(r) \/ Conclude(r) \/ Abort(r) \/ End(r)
        BY <1>1, <4>1, StepLocal DEF ReadPage, VisitBlock, Conclude, Abort, End, At
      <4>2. CASE BreakOff(r)
        BY <4>2, GotoLocal DEF BreakOff, TypeInv, PC
      <4>3. CASE Translate(r)
        <5>1. CASE Goto(r, "publish") \/ Goto(r, "abort")
          BY <5>1, GotoLocal DEF TypeInv, PC
        <5>2. ASSUME NEW fatal \in BOOLEAN, run' = [run EXCEPT ![r].pc = "fail", ![r].fatal = fatal]
              PROVE  run'[r].pc # "commit"
          BY <5>2 DEF TypeInv, TypeOK, Local
        <5>3. QED BY <4>3, <5>1, <5>2 DEF Translate
      <4>4. QED BY <2>2, <4>1, <4>2, <4>3
    <3>4. QED BY <1>1, <3>1, <3>2, <3>3, QuietKeeps
  <2>3. QED BY <1>1, <2>1, <2>2 DEF Step
<1>2. CASE ~ \E r \in Run : Step(r)
  <2>1. /\ UNCHANGED <<blockVars, files>>
        /\ \/ /\ UNCHANGED writer
              /\ \A r \in Run : run'[r] = run[r] \/ {run[r].pc, run'[r].pc} \subseteq {"idle", "done", "page"}
           \/ writer' = NoRun /\ \A r \in Run : run'[r].pc \in {"idle", "done"}
    BY <1>2, OtherStep DEF TypeInv
  <2>2. Revised' /\ CompletedIsCurrent' /\ RevisionsHaveFiles'
    BY <2>1 DEF Publication, Revised, CompletedIsCurrent, RevisionsHaveFiles, blockVars
  <2>3. Writing'
    <3>1. CASE writer' = NoRun /\ \A r \in Run : run'[r].pc \in {"idle", "done"}
      BY <3>1, BlockTranslationAssumption DEF Writing
    <3>2. CASE /\ UNCHANGED writer
               /\ \A r \in Run : run'[r] = run[r] \/ {run[r].pc, run'[r].pc} \subseteq {"idle", "done", "page"}
      BY <2>1, <3>2 DEF Publication, Writing, IsCurrent, blockVars
    <3>3. QED BY <2>1, <3>1, <3>2
  <2>4. QED BY <2>2, <2>3 DEF Publication
<1>3. QED BY <1>1, <1>2

-------------------------------------------------------------------------------
(* "A late generation never overwrites a newer version": a block that reads as
   completed shows its latest attempt. *)
THEOREM CompletedBlocksAreCurrent == Spec => []CompletedIsCurrent
<1>1. Init => TypeInv /\ Publication
  BY InitBlockInv DEF BlockInv, Publication
<1>2. TypeInv /\ Publication /\ [Next]_vars => (TypeInv /\ Publication)'
  BY TypeInvStep, PublicationStep
<1>3. TypeInv /\ Publication => CompletedIsCurrent
  BY DEF Publication
<1>4. QED BY <1>1, <1>2, <1>3, PTL DEF Spec

(* A revision that was committed has its file, also after crashes and
   rollbacks, and what is shown is a revision. *)
THEOREM CommittedRevisionsHaveFiles == Spec => []RevisionsHaveFiles
<1>1. Init => TypeInv /\ Publication
  BY InitBlockInv DEF BlockInv, Publication
<1>2. TypeInv /\ Publication /\ [Next]_vars => (TypeInv /\ Publication)'
  BY TypeInvStep, PublicationStep
<1>3. TypeInv /\ Publication => RevisionsHaveFiles
  BY DEF Publication
<1>4. QED BY <1>1, <1>2, <1>3, PTL DEF Spec

-------------------------------------------------------------------------------
(* Only a commit changes what is shown, and to the current generation. *)
LEMMA ActiveGrows ==
  ASSUME TypeInv, Publication, [Next]_vars, NEW b \in Blocks
  PROVE  active'[b] >= active[b]
<1>1. active[b] \in Nat /\ active[b] <= generation[b] /\ generation[b] \in Nat
  BY DEF TypeInv, TypeOK, Publication, Revised
<1>2. CASE UNCHANGED active
  BY <1>1, <1>2
<1>3. ASSUME NEW r \in Run, Commit(r) PROVE active'[b] >= active[b]
  <2>1. run[r].gen = generation[run[r].at]
    BY <1>3 DEF Commit, At, Publication, Writing, IsCurrent
  <2>2. active' = [active EXCEPT ![run[r].at] = run[r].gen] /\ active \in [Blocks -> Nat]
    BY <1>3 DEF Commit, TypeInv, TypeOK
  <2>3. CASE b = run[r].at
    <3>1. active'[b] = generation[b]
      BY <2>1, <2>2, <2>3
    <3>2. QED BY <1>1, <3>1
  <2>4. CASE b # run[r].at
    BY <1>1, <2>2, <2>4
  <2>5. QED BY <2>3, <2>4
<1>4. ASSUME ~ \E r \in Run : Commit(r) PROVE UNCHANGED active
  BY <1>4, OtherStep DEF TypeInv, Step, blockVars, ReadPage, VisitBlock, Begin, StartBlock,
     Translate, Publish, Rollback, Fail, Conclude, Abort, BreakOff, End
<1>5. QED BY <1>2, <1>3, <1>4

(* "A block that fails keeps its old translation." *)
THEOREM ReadableBlocksStay == Spec => ReadableStaysReadable
<1>1. Init => TypeInv /\ Publication
  BY InitBlockInv DEF BlockInv, Publication
<1>2. TypeInv /\ Publication /\ [Next]_vars => (TypeInv /\ Publication)'
  BY TypeInvStep, PublicationStep
<1>3. TypeInv /\ Publication /\ [Next]_vars
        => [\A b \in Blocks : active[b] # 0 => active'[b] >= active[b]]_vars
  BY ActiveGrows
<1>4. QED BY <1>1, <1>2, <1>3, PTL DEF Spec, ReadableStaysReadable

LEMMA WholeStep ==
  TypeInv /\ Publication /\ CompletedIsWhole /\ [Next]_vars => CompletedIsWhole'
<1> SUFFICES ASSUME TypeInv, Publication, CompletedIsWhole, [Next]_vars PROVE CompletedIsWhole'
  OBVIOUS
<1>1. Readable \subseteq Readable'
  <2>1. \A b \in Blocks : active[b] \in Nat /\ active'[b] \in Nat
    BY TypeInvStep DEF TypeInv, TypeOK
  <2>2. QED BY <2>1, ActiveGrows DEF Readable
<1>2. Readable' \subseteq Blocks
  BY DEF Readable
<1>3. CASE result' \in {result, "partial"}
  BY <1>1, <1>2, <1>3 DEF CompletedIsWhole
<1>4. ASSUME NEW r \in Run, Conclude(r) PROVE CompletedIsWhole'
  <2>1. result' = Outcome(r) /\ UNCHANGED active
    BY <1>4 DEF Conclude, blockVars
  <2>2. QED BY <2>1 DEF Outcome, CompletedIsWhole, Readable
<1>5. ASSUME ~ \E r \in Run : Conclude(r) PROVE result' \in {result, "partial"}
  BY <1>5, OtherStep DEF TypeInv, Step, ReadPage, VisitBlock, Begin, StartBlock, Translate,
     Publish, Commit, Rollback, Fail, Abort, BreakOff, End
<1>6. QED BY <1>3, <1>4, <1>5

(* A completed result is readable as a whole, whatever part of the paper the
   run that completed it was about. *)
THEOREM CompletedResultIsWhole == Spec => []CompletedIsWhole
<1>1. Init => TypeInv /\ Publication /\ CompletedIsWhole
  BY InitBlockInv DEF BlockInv, Publication
<1>2. TypeInv /\ Publication /\ CompletedIsWhole /\ [Next]_vars
        => (TypeInv /\ Publication /\ CompletedIsWhole)'
  BY TypeInvStep, PublicationStep, WholeStep
<1>3. QED BY <1>1, <1>2, PTL DEF Spec

-------------------------------------------------------------------------------
(* Counting the files nobody refers to.  The open transaction's file is not
   abandoned yet. *)
Written == IF writer = NoRun THEN {} ELSE {<<run[writer].at, run[writer].gen>>}

Abandoned == Orphans \ Written

AbandonedByCrash == Cardinality(Abandoned) <= crashes

LEMMA OrphansFinite == IsFiniteSet(Orphans)
<1>1. IsFiniteSet(Blocks)
  BY FS_Interval, BlockTranslationAssumption DEF Blocks
<1>2. Cardinality(Run) + MaxResumes \in Int
  BY FS_CardinalityType, BlockTranslationAssumption
<1>3. IsFiniteSet(1..(Cardinality(Run) + MaxResumes))
  BY <1>2, FS_Interval
<1>4. IsFiniteSet(Blocks \X (1..(Cardinality(Run) + MaxResumes)))
  BY <1>1, <1>3, FS_Product
<1>5. QED BY <1>4, FS_Subset DEF Orphans

Files == Blocks \X (1..(Cardinality(Run) + MaxResumes))

LEMMA FileIsPair ==
  \A file \in Files : \A b, g : file = <<b, g>> <=> file[1] = b /\ file[2] = g
  BY DEF Files

LEMMA AbandonedFile ==
  \A file : file \in Abandoned <=>
    /\ file \in Files
    /\ file[2] \in files[file[1]]
    /\ file[2] \notin revisions[file[1]]
    /\ writer # NoRun => file # <<run[writer].at, run[writer].gen>>
  BY DEF Abandoned, Orphans, Written, Files

(* A step of a run abandons no file. *)
LEMMA StepAbandonsNothing ==
  ASSUME TypeInv, Publication, NEW r \in Run, Step(r)
  PROVE  Abandoned' \subseteq Abandoned
<1> DEFINE b == run[r].at
           g == run[r].gen
<1>1. /\ TypeOK /\ Writing
      /\ \A q \in Run \ {r} : run'[q] = run[q]
  BY StepLocal DEF TypeInv, Publication
<1>2. CASE UNCHANGED <<files, revisions, writer>> /\ run[r].pc # "commit"
  <2>1. writer # NoRun => writer \in Run \ {r}
    BY <1>1, <1>2 DEF TypeOK, Writing
  <2>2. writer # NoRun => run'[writer'] = run[writer]
    BY <1>1, <1>2, <2>1
  <2>3. QED BY <1>2, <2>2 DEF Abandoned, Orphans, Written
<1>3. CASE /\ writer = NoRun /\ writer' = r /\ UNCHANGED revisions
           /\ run'[r].at = b /\ run'[r].gen = g /\ b \in Blocks
           /\ files' = [files EXCEPT ![b] = @ \cup {g}]
  <2>1. ASSUME NEW file \in Abandoned' PROVE file \in Abandoned
    <3>1. /\ file \in Files
          /\ file[2] \in files'[file[1]] /\ file[2] \notin revisions[file[1]]
          /\ file # <<b, g>>
      BY <1>3, <2>1, AbandonedFile, BlockTranslationAssumption DEF Abandoned, Orphans, Written, Files
    <3>2. file[1] \in Blocks
      BY <3>1 DEF Files
    <3>3. ~(file[1] = b /\ file[2] = g)
      BY <3>1, FileIsPair
    <3>4. file[2] \in files[file[1]]
      BY <1>1, <1>3, <3>1, <3>2, <3>3 DEF TypeOK
    <3>5. QED BY <1>3, <3>1, <3>4, AbandonedFile
  <2>2. QED BY <2>1
<1>4. CASE /\ writer = r /\ writer' = NoRun /\ b \in Blocks
           /\ \/ revisions' = [revisions EXCEPT ![b] = @ \cup {g}] /\ UNCHANGED files
              \/ files' = [files EXCEPT ![b] = @ \ {g}] /\ UNCHANGED revisions
  <2>1. ASSUME NEW file \in Abandoned' PROVE file \in Abandoned
    <3>1. /\ file \in Files
          /\ file[2] \in files'[file[1]] /\ file[2] \notin revisions'[file[1]]
      BY <2>1 DEF Abandoned, Orphans, Files
    <3>2. file[1] \in Blocks
      BY <3>1 DEF Files
    <3>3. /\ file[2] \in files[file[1]] /\ file[2] \notin revisions[file[1]]
          /\ ~(file[1] = b /\ file[2] = g)
      BY <1>1, <1>4, <3>1, <3>2 DEF TypeOK
    <3>4. file # <<b, g>>
      BY <3>1, <3>3, FileIsPair
    <3>5. QED BY <1>4, <3>1, <3>3, <3>4, AbandonedFile
  <2>2. QED BY <2>1
<1>5. CASE Publish(r)
  <2>1. b \in Blocks /\ run[r].pc = "publish"
    BY <1>5 DEF Publish, At, TypeInv, InHand
  <2>2. Goto(r, "commit") => run'[r].at = b /\ run'[r].gen = g
    BY <1>1, GotoLocal DEF PC
  <2>3. QED BY <1>5, <2>1, <2>2, <1>2, <1>3 DEF Publish, blockVars
<1>6. CASE Commit(r) \/ Rollback(r)
  <2>1. b \in Blocks /\ run[r].pc = "commit" /\ writer = r
    BY <1>1, <1>6 DEF Commit, Rollback, At, TypeInv, InHand, Writing
  <2>2. QED BY <1>6, <2>1, <1>4 DEF Commit, Rollback, RemoveFile, blockVars
<1>7. CASE ~Publish(r) /\ ~Commit(r) /\ ~Rollback(r)
  BY <1>2, <1>7 DEF Step, ReadPage, VisitBlock, Begin, StartBlock, Translate, Fail, Conclude,
     Abort, BreakOff, End, At, blockVars
<1>8. QED BY <1>5, <1>6, <1>7

LEMMA AbandonedStep ==
  TypeInv /\ Publication /\ AbandonedByCrash /\ [Next]_vars => AbandonedByCrash'
<1> SUFFICES ASSUME TypeInv, Publication, AbandonedByCrash, [Next]_vars PROVE AbandonedByCrash'
  OBVIOUS
<1>1. IsFiniteSet(Abandoned) /\ Cardinality(Abandoned) \in Nat /\ crashes \in Nat
  BY OrphansFinite, FS_Subset, FS_CardinalityType, BlockTranslationAssumption
  DEF Abandoned, TypeInv, TypeOK
<1>2. CASE Abandoned' \subseteq Abandoned /\ UNCHANGED crashes
  <2>1. Cardinality(Abandoned') <= Cardinality(Abandoned) /\ Cardinality(Abandoned') \in Nat
    BY <1>1, <1>2, FS_Subset, FS_CardinalityType
  <2>2. QED BY <1>1, <1>2, <2>1 DEF AbandonedByCrash
<1>3. ASSUME NEW r \in Run, Step(r) PROVE AbandonedByCrash'
  BY <1>2, <1>3, StepAbandonsNothing, StepData
<1>4. ASSUME NEW r \in Run, Admit(r) \/ Resume(r) \/ Cancel(r) PROVE AbandonedByCrash'
  <2>1. UNCHANGED <<files, revisions, writer, crashes>>
    BY <1>4 DEF Admit, Resume, Cancel, blockVars, bounds
  <2>2. \A q \in Run : run[q].pc = "commit" => run'[q] = run[q]
    BY <1>4 DEF Admit, Resume, Cancel, TypeInv, TypeOK
  <2>3. writer # NoRun => run'[writer] = run[writer]
    BY <2>2 DEF TypeInv, TypeOK, Publication, Writing
  <2>4. Abandoned' = Abandoned
    BY <2>1, <2>3 DEF Abandoned, Orphans, Written
  <2>5. QED BY <1>2, <2>1, <2>4
<1>5. CASE Crash
  <2>1. /\ UNCHANGED <<files, revisions>> /\ writer' = NoRun /\ crashes' = crashes + 1
    BY <1>5 DEF Crash, blockVars
  <2>2. Abandoned' = Orphans
    BY <2>1 DEF Abandoned, Orphans, Written
  <2>3. PICK x : Written \subseteq {x}
    BY DEF Written
  <2>4. Orphans \subseteq Abandoned \cup {x}
    BY <2>3 DEF Abandoned
  <2>5. /\ IsFiniteSet(Abandoned \cup {x})
        /\ Cardinality(Abandoned \cup {x}) <= Cardinality(Abandoned) + 1
        /\ Cardinality(Abandoned \cup {x}) \in Nat
    BY <1>1, FS_AddElement, FS_CardinalityType
  <2>6. Cardinality(Orphans) <= Cardinality(Abandoned \cup {x}) /\ Cardinality(Orphans) \in Nat
    BY <2>4, <2>5, OrphansFinite, FS_Subset, FS_CardinalityType
  <2>7. QED BY <1>1, <2>1, <2>2, <2>5, <2>6 DEF AbandonedByCrash
<1>6. CASE UNCHANGED vars
  BY <1>2, <1>6 DEF vars, blockVars, Abandoned, Orphans, Written
<1>7. QED BY <1>3, <1>4, <1>5, <1>6 DEF Next

(* Bytes that no row accounts for come from crashes, one file each. *)
THEOREM OrphansAreCounted == Spec => []OrphansComeFromCrashes
<1>1. Init => TypeInv /\ Publication /\ AbandonedByCrash
  <2> SUFFICES ASSUME Init PROVE AbandonedByCrash
    BY InitBlockInv DEF BlockInv, Publication
  <2>1. \A b \in Blocks : files[b] = {}
    BY DEF Init
  <2>2. Abandoned = {}
    BY <2>1 DEF Abandoned, Orphans
  <2>3. QED BY <2>2, FS_EmptySet DEF AbandonedByCrash, Init
<1>2. TypeInv /\ Publication /\ AbandonedByCrash /\ [Next]_vars
        => (TypeInv /\ Publication /\ AbandonedByCrash)'
  BY TypeInvStep, PublicationStep, AbandonedStep
<1>3. TypeInv /\ AbandonedByCrash => OrphansComeFromCrashes
  <2> SUFFICES ASSUME TypeInv, AbandonedByCrash PROVE OrphansComeFromCrashes
    OBVIOUS
  <2>1. IsFiniteSet(Abandoned) /\ Cardinality(Abandoned) \in Nat /\ crashes \in Nat
    BY OrphansFinite, FS_Subset, FS_CardinalityType, BlockTranslationAssumption
    DEF Abandoned, TypeInv, TypeOK
  <2>2. CASE writer = NoRun
    BY <2>1, <2>2 DEF AbandonedByCrash, Abandoned, Written, OrphansComeFromCrashes
  <2>3. CASE writer # NoRun
    <3> DEFINE x == <<run[writer].at, run[writer].gen>>
    <3>1. Orphans \subseteq Abandoned \cup {x}
      BY <2>3 DEF Abandoned, Written
    <3>2. /\ IsFiniteSet(Abandoned \cup {x})
          /\ Cardinality(Abandoned \cup {x}) <= Cardinality(Abandoned) + 1
          /\ Cardinality(Abandoned \cup {x}) \in Nat
      BY <2>1, FS_AddElement, FS_CardinalityType
    <3>3. Cardinality(Orphans) <= Cardinality(Abandoned \cup {x}) /\ Cardinality(Orphans) \in Nat
      BY <3>1, <3>2, OrphansFinite, FS_Subset, FS_CardinalityType
    <3>4. QED BY <2>1, <2>3, <3>2, <3>3 DEF AbandonedByCrash, OrphansComeFromCrashes
  <2>4. QED BY <2>2, <2>3
<1>4. QED BY <1>1, <1>2, <1>3, PTL DEF Spec

===============================================================================
