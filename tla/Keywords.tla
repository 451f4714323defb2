-------------------------------- MODULE Keywords --------------------------------
(***************************************************************************)
(* The keyword queue: a change of a paper leaves a pending row, the        *)
(* dispatcher turns pending rows into items, and one run at a time takes   *)
(* the candidates out of what the paper says (by a local method or with    *)
(* one model request) and applies them to the tags.                        *)
(***************************************************************************)
EXTENDS KeywordTags, FiniteSets

CONSTANTS
  MaxItems,      (* bound: items; each stands for a batch of one paper     *)
  MaxChanges,    (* bound: changes of what a paper says                    *)
  MaxDisturbances  (* bound: edits, changes, requests, cancellations,
                      failed writes and restarts, taken together           *)

ASSUME KeywordsAssumption ==
  MaxItems \in Nat /\ MaxChanges \in Nat \ {0} /\ MaxDisturbances \in Nat

VARIABLES
  automatic,   (* the setting of automatic keywords                        *)
  skipped,     (* for the properties: papers whose change the dispatcher   *)
               (* last let pass because of the setting                     *)
  source,      (* what the paper says: its version, counted from 1         *)
  pending,     (* keyword_pending: the version that queued it, 0 without   *)
  intake,      (* pending(): the row in the dispatcher's hand              *)
  item,        (* keyword_items with their batches, in order of creation   *)
  run,         (* the futures in active                                    *)
  disturbances

queueVars == <<automatic, skipped, source, pending, intake, item, run, disturbances>>
vars == <<tagVars, queueVars>>

Item == 1..MaxItems
Method == {"local", "model"}

(* "done" stands for completed, needs_content and reused; "stale" for a changed
   source or preview, "overtaken" for stale by an edit of the paper's tags. *)
Terminal == {"done", "failed", "stale", "overtaken", "interrupted", "cancelled"}
Active == {"queued", "running"}

NoItem == [status |-> "none", paper |-> CHOOSE p \in Paper : TRUE, method |-> "local",
           basis |-> 0, link |-> 0, cancel |-> FALSE, sent |-> FALSE, input |-> 0]
Idle == [pc |-> "none", rev |-> 0, had |-> NoInput, outcome |-> "failed"]
NothingInHand == [pc |-> "none", paper |-> CHOOSE p \in Paper : TRUE, stamp |-> 0]

(* An item that has ended: what only an active one uses is forgotten. *)
Ended(e, status) ==
  [NoItem EXCEPT !.status = status, !.paper = e.paper, !.method = e.method,
                 !.input = IF status = "done" THEN e.input ELSE 0]

TypeOK ==
  /\ TagsTypeOK
  /\ automatic \in BOOLEAN
  /\ skipped \subseteq Paper
  /\ source \in [Paper -> 1..MaxChanges]
  /\ pending \in [Paper -> 0..MaxChanges]
  /\ intake \in [pc : {"none", "taken", "read", "created"}, paper : Paper, stamp : 0..MaxChanges]
  /\ item \in [Item -> [status : Terminal \cup Active \cup {"none"}, paper : Paper,
                        method : Method, basis : 0..MaxChanges, link : 0..MaxItems,
                        cancel : BOOLEAN, sent : BOOLEAN, input : 0..MaxChanges]]
  /\ run \in [Item -> [pc : {"none", "submitted", "claimed", "working", "sent", "answered",
                             "applying", "finishing", "broken", "done"},
                       rev : Nat, had : Input, outcome : Terminal]]
  /\ disturbances \in 0..MaxDisturbances

Init ==
  /\ TagsInit
  /\ automatic \in BOOLEAN
  /\ skipped = {}
  /\ source = [p \in Paper |-> 1]
  /\ pending = [p \in Paper |-> 1]
  /\ intake = NothingInHand
  /\ item = [i \in Item |-> NoItem]
  /\ run = [i \in Item |-> Idle]
  /\ disturbances = 0

-------------------------------------------------------------------------------
(* Everything from outside, of which an instance has a bounded number. *)
Disturb == disturbances < MaxDisturbances /\ disturbances' = disturbances + 1

(* create.  basis is the generation of a pending row or the previewed input of a
   model batch, 0 for neither. *)
Alike(m, p, basis) ==
  {i \in Item : /\ item[i].status \in Active /\ ~item[i].cancel
                /\ item[i].paper = p /\ item[i].method = m /\ item[i].basis = basis}

Prior(m, p, basis) ==
  {i \in Item : /\ item[i].status \in Active /\ ~item[i].cancel
                /\ item[i].paper = p /\ item[i].method = m
                /\ m = "model" /\ basis # 0 => item[i].basis = basis}

First(S) == CHOOSE i \in S : \A j \in S : i <= j
Free == {i \in Item : item[i].status = "none"}

Create(m, p, basis) ==
  IF Alike(m, p, basis) # {} THEN UNCHANGED item
  ELSE /\ Free # {}
       /\ item' = [item EXCEPT ![First(Free)] =
            [NoItem EXCEPT !.status = "queued", !.paper = p, !.method = m, !.basis = basis,
                           !.link = IF Prior(m, p, basis) = {} THEN 0 ELSE First(Prior(m, p, basis))]]

(* Requests: a run by the owner, a cancellation, a retry. *)
Ask(m, p) ==
  /\ Disturb
  /\ Create(m, p, IF m = "model" THEN source[p] ELSE 0)
  /\ UNCHANGED <<tagVars, automatic, skipped, source, pending, intake, run>>

Cancel(i) ==
  /\ Disturb
  /\ item[i].status \in Active /\ ~item[i].cancel
  /\ item' = [item EXCEPT ![i] = IF @.status = "queued" THEN Ended(@, "cancelled")
                                 ELSE [@ EXCEPT !.cancel = TRUE]]
  /\ UNCHANGED <<tagVars, automatic, skipped, source, pending, intake, run>>

Retry(i) ==
  /\ Disturb
  /\ item[i].status \in Terminal \ {"done"}
  /\ Create(item[i].method, item[i].paper, 0)
  /\ UNCHANGED <<tagVars, automatic, skipped, source, pending, intake, run>>

SwitchAutomatic ==
  /\ Disturb
  /\ automatic' = ~automatic
  /\ UNCHANGED <<tagVars, skipped, source, pending, intake, item, run>>

EditTags == /\ Disturb
            /\ TagEdits \/ \E p \in Paper : Edits(p)
            /\ UNCHANGED <<automatic, skipped, source, pending, intake, item, run>>

(* What the paper says changes; the transaction queues it: queue_change. *)
Change(p) ==
  /\ Disturb
  /\ source[p] < MaxChanges
  /\ source' = [source EXCEPT ![p] = @ + 1]
  /\ pending' = [pending EXCEPT ![p] = source[p] + 1]
  /\ UNCHANGED <<tagVars, automatic, skipped, intake, item, run>>

-------------------------------------------------------------------------------
(* The dispatcher: pending(), one row at a time.  The setting is read for each row;
   a row whose change is to be let pass is only cleared, ... *)
TakePending(p) ==
  /\ intake.pc = "none" /\ pending[p] # 0
  /\ intake' = [pc |-> "taken", paper |-> p, stamp |-> pending[p]]
  /\ UNCHANGED <<tagVars, automatic, skipped, source, pending, item, run, disturbances>>

ReadSetting ==
  /\ intake.pc = "taken"
  /\ intake' = [intake EXCEPT !.pc = IF automatic THEN "read" ELSE "created"]
  /\ skipped' = IF automatic THEN skipped \ {intake.paper} ELSE skipped \cup {intake.paper}
  /\ UNCHANGED <<tagVars, automatic, source, pending, item, run, disturbances>>

CreatePending ==
  /\ intake.pc = "read"
  /\ Create("local", intake.paper, intake.stamp)
  /\ intake' = [intake EXCEPT !.pc = "created"]
  /\ UNCHANGED <<tagVars, automatic, skipped, source, pending, run, disturbances>>

(* Mutant: the row goes whatever is in it by now. *)
ClearPendingAnyway ==
  /\ intake.pc = "created"
  /\ pending' = [pending EXCEPT ![intake.paper] = 0]
  /\ intake' = NothingInHand
  /\ UNCHANGED <<tagVars, automatic, skipped, source, item, run, disturbances>>

ClearPending ==
  /\ intake.pc = "created"
  /\ pending' = IF pending[intake.paper] = intake.stamp
                THEN [pending EXCEPT ![intake.paper] = 0] ELSE pending
  /\ intake' = NothingInHand
  /\ UNCHANGED <<tagVars, automatic, skipped, source, item, run, disturbances>>

(* ... and dispatch(): only the oldest item of an owner is handed to the pool. *)
InPool == {i \in Item : run[i].pc # "none"}
Running == {i \in Item : item[i].status = "running"}
Queued == {i \in Item : item[i].status = "queued" /\ ~item[i].cancel}

Dispatch(i) ==
  /\ Running = {} /\ Cardinality(InPool) < 2
  /\ Queued # {} /\ i = First(Queued) /\ i \notin InPool
  /\ run' = [run EXCEPT ![i].pc = "submitted"]
  /\ UNCHANGED <<tagVars, automatic, skipped, source, pending, intake, item, disturbances>>

Reap(i) ==
  /\ run[i].pc \in {"done", "broken"}
  /\ item' = IF run[i].pc = "broken" /\ item[i].status = "running"
             THEN [item EXCEPT ![i] = Ended(@, "failed")] ELSE item
  /\ run' = [run EXCEPT ![i] = Idle]
  /\ UNCHANGED <<tagVars, automatic, skipped, source, pending, intake, disturbances>>

-------------------------------------------------------------------------------
(* A run. *)
Goto(i, pc) == run' = [run EXCEPT ![i].pc = pc]
Ending(i, outcome) == run' = [run EXCEPT ![i] = [Idle EXCEPT !.pc = "finishing", !.outcome = outcome]]
Done(i) == run' = [run EXCEPT ![i] = [Idle EXCEPT !.pc = "done"]]
NothingElse == UNCHANGED <<tagVars, automatic, skipped, source, pending, intake, disturbances>>
OnlyRun == UNCHANGED item /\ NothingElse

Blocked(i) == item[i].link # 0 /\ item[item[i].link].status \in Active
Inherits(i) == item[i].link # 0 /\ item[item[i].link].status \in {"failed", "interrupted", "cancelled"}

Claim(i) ==
  LET row == tags.row[item[i].paper] IN
  /\ run[i].pc = "submitted"
  /\ IF item[i].status # "queued" \/ Blocked(i) THEN Done(i) /\ UNCHANGED item
     ELSE IF Inherits(i)
     THEN Done(i) /\ item' = [item EXCEPT ![i] = Ended(@, item[@.link].status)]
     ELSE IF Running # {} THEN Done(i) /\ UNCHANGED item
     ELSE /\ item' = [item EXCEPT ![i].status = "running"]
          /\ run' = [run EXCEPT ![i].pc = "claimed", ![i].rev = row.rev, ![i].had = row.input]
  /\ NothingElse

Refused(i) == item[i].cancel /\ Ending(i, "cancelled") /\ OnlyRun

(* What the paper says is read; a result for the same input is used again, and not
   even applied where it is the paper's last one. *)
Known(i, v) ==
  \E j \in Item \ {i} : /\ item[j].status = "done" /\ item[j].paper = item[i].paper
                         /\ item[j].method = item[i].method /\ item[j].input = v

ReadSource(i) ==
  LET v == source[item[i].paper] IN
  /\ run[i].pc = "claimed"
  /\ \/ Refused(i)
     \/ /\ ~item[i].cancel /\ item[i].method = "model" /\ item[i].basis \notin {0, v}
        /\ Ending(i, "stale") /\ OnlyRun
     \/ /\ ~item[i].cancel /\ (item[i].method = "model" => item[i].basis \in {0, v})
        /\ item' = [item EXCEPT ![i].input = v]
        /\ IF ~Known(i, v) THEN Goto(i, "working")
           ELSE IF run[i].had = [method |-> item[i].method, at |-> v] THEN Ending(i, "done")
           ELSE Goto(i, "applying")
        /\ NothingElse

(* A model request is recorded before it is sent, and never sent again. *)
Send(i) ==
  /\ run[i].pc = "working" /\ item[i].method = "model"
  /\ \/ Refused(i)
     \/ /\ ~item[i].cancel /\ item[i].sent /\ Ending(i, "interrupted") /\ OnlyRun
     \/ /\ ~item[i].cancel /\ ~item[i].sent
        /\ item' = [item EXCEPT ![i].sent = TRUE]
        /\ Goto(i, "sent") /\ NothingElse

Answer(i) ==
  /\ run[i].pc = "sent"
  /\ Goto(i, "answered") \/ Ending(i, "interrupted") \/ Ending(i, "failed")
  /\ OnlyRun

(* The candidates are there; the source is compared with the one they are from. *)
Extracted(i) == run[i].pc = "working" /\ item[i].method = "local"

Compare(i) ==
  /\ run[i].pc = "answered" \/ Extracted(i)
  /\ \/ Refused(i)
     \/ /\ ~item[i].cancel
        /\ IF source[item[i].paper] # item[i].input THEN Ending(i, "stale") ELSE Goto(i, "applying")
        /\ OnlyRun

(* apply: its own checks, the tags and the end of the item in one transaction. *)
ApplyRun(i) ==
  LET p == item[i].paper IN
  /\ run[i].pc = "applying"
  /\ \/ (item[i].cancel \/ item[i].status # "running") /\ Ending(i, "cancelled") /\ OnlyRun
     \/ /\ ~item[i].cancel /\ item[i].status = "running"
        /\ \/ tags.row[p].rev # run[i].rev /\ Ending(i, "overtaken") /\ OnlyRun
           \/ /\ tags.row[p].rev = run[i].rev /\ source[p] # item[i].input
              /\ Ending(i, "stale") /\ OnlyRun
           \/ /\ tags.row[p].rev = run[i].rev /\ source[p] = item[i].input
              /\ \E C \in SUBSET Tag : Apply(p, C, [method |-> item[i].method, at |-> item[i].input])
              /\ item' = [item EXCEPT ![i] = Ended(@, "done")]
              /\ Ending(i, "done")
              /\ UNCHANGED <<automatic, skipped, source, pending, intake, disturbances>>

(* finish: a success that is recorded stays. *)
Finish(i) ==
  /\ run[i].pc = "finishing"
  /\ item' = IF item[i].status = "done" THEN item ELSE [item EXCEPT ![i] = Ended(@, run[i].outcome)]
  /\ Done(i)
  /\ NothingElse

(* A transaction fails, and the end that is written for it may fail too. *)
WriteFails(i) ==
  /\ run[i].pc \in {"submitted", "claimed", "applying", "finishing"}
  /\ Disturb
  /\ Ending(i, "failed") \/ Goto(i, "broken")
  /\ UNCHANGED <<tagVars, automatic, skipped, source, pending, intake, item>>

(* start(): a run that had sent its request is not repeated. *)
Restart ==
  /\ Disturb
  /\ item' = [i \in Item |-> IF item[i].status # "running" THEN item[i]
                             ELSE IF item[i].sent THEN Ended(item[i], "interrupted")
                             ELSE [item[i] EXCEPT !.status = "queued"]]
  /\ run' = [i \in Item |-> Idle]
  /\ intake' = NothingInHand
  /\ UNCHANGED <<tagVars, automatic, skipped, source, pending>>

Step(i) ==
  \/ Claim(i) \/ ReadSource(i) \/ Send(i) \/ Answer(i) \/ Compare(i)
  \/ ApplyRun(i) \/ Finish(i) \/ WriteFails(i)

Next ==
  \/ EditTags \/ SwitchAutomatic
  \/ \E p \in Paper : Change(p) \/ TakePending(p) \/ (\E m \in Method : Ask(m, p))
  \/ ReadSetting \/ CreatePending \/ ClearPending \/ Restart
  \/ \E i \in Item : Cancel(i) \/ Retry(i) \/ Dispatch(i) \/ Reap(i) \/ Step(i)

Spec == Init /\ [][Next]_vars

-------------------------------------------------------------------------------
(* What was taken off a paper does not come back by itself.  Until it is added
   again, the corrections are reset or an undo puts it back, the paper is never
   linked automatically to it, nor to what it was merged into, and gets a link of
   the user's to that tag in two ways only: a merge moves a link of the user's from
   another tag to it, or the undo of its own merge returns the one it had. *)
Moved(l) ==
  \/ tags'.tag[l[2]].into # tags.tag[l[2]].into
  \/ \E t \in Tag : /\ tags.link[<<l[1], t>>] = "manual"
                     /\ tags'.tag[t].into = {l[2]} /\ tags.tag[t].into # {l[2]}

RemovedStaysOut ==
  [][\A l \in Paper \X Tag :
       tags.link[l] = "none" /\ tags'.link[l] # "none" =>
         \A x \in removed' : x[1] = l[1] /\ Resolve(tags', x[2]) = l[2] =>
                              tags'.link[l] = "manual" /\ Moved(l)]_vars

(* No change of a paper is lost on the way to its tags.  When nothing of it is
   pending or under way and its last change was looked at with automatic keywords,
   the tags are from what it says now, unless the last automatic run was cancelled,
   failed or was overtaken by an edit of its tags: that run is not repeated. *)
Quiet(p) == /\ p \notin skipped /\ pending[p] = 0 /\ ~(intake.pc # "none" /\ intake.paper = p)
            /\ \A i \in Item : item[i].paper = p => item[i].status \notin Active

LastLocal(p) == {i \in Item : /\ item[i].paper = p /\ item[i].method = "local" /\ item[i].status # "none"
                              /\ \A j \in Item : item[j].paper = p /\ item[j].method = "local"
                                                /\ item[j].status # "none" => j <= i}

QuietIsCurrent ==
  \A p \in Paper : Quiet(p) =>
    \A i \in LastLocal(p) : item[i].status \in {"done", "stale"} =>
                               tags.row[p].input.at \in {0, source[p]}

===============================================================================
