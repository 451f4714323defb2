----------------------------- MODULE PaperMetadata -----------------------------
(***************************************************************************)
(* Bibliographic data of one owner's papers: the head of a paper and its   *)
(* revision, the queue that looks papers up at public providers and fills  *)
(* in what is missing, and the outbox of changes that the search index has *)
(* to follow.  A dispatcher thread hands items to a small pool, links the  *)
(* items of overlapping batches and empties the outbox; every other actor  *)
(* is a request.  Each transaction of the code is one step.                *)
(***************************************************************************)
EXTENDS Integers, FiniteSets

CONSTANTS
  Paper,         (* the papers of the owner                                *)
  MaxBatches,    (* bound: batches                                         *)
  MaxRevision,   (* bound: revisions of a head                             *)
  Providers,     (* the length of a lookup's schedule                      *)
  MaxRequests,   (* requests of an item: 8                                 *)
  MaxRetries,    (* retries of a request that failed transiently: 2        *)
  MaxFailures    (* bound: restarts and failed writes                      *)

ASSUME PaperMetadataAssumption ==
  /\ IsFiniteSet(Paper)
  /\ MaxBatches \in Nat /\ MaxRevision \in Nat \ {0} /\ Providers \in Nat \ {0}
  /\ MaxRequests \in Nat /\ MaxRetries \in Nat /\ MaxFailures \in Nat

VARIABLES
  present,    (* the papers of the library                                 *)
  head,       (* bibliography: revision (0: none) and origin of a field    *)
  event,      (* metadata_index_events: the revision to index, or NoEvent  *)
  index,      (* the revision that the search index holds, 0 without       *)
  sync,       (* sync_indexes: the rows it selected and the one in hand    *)
  batch,      (* metadata_batches: revisions of the selection, cancelled   *)
  item,       (* metadata_items                                            *)
  run,        (* what runs an item: the futures in active                  *)
  failures

library == <<present, head, event>>
indexing == <<index, sync>>
queue == <<batch, item>>
vars == <<library, indexing, queue, run, failures>>

Batch == 1..MaxBatches
Item == Batch \X Paper
PaperOf(i) == i[2]
BatchOf(i) == i[1]

NoEvent == -1
NoItem == <<0, 0>>

(* Where the value of a field comes from: "open" is empty, or a title out of a
   file name or the PDF; "kept" was typed, cleared or there before. *)
Origin == {"open", "kept", "provider"}

(* The ends of an item: "answered" stands for completed, unchanged, needs_review
   and not_found, "failed" for failed and stale. *)
Terminal == {"answered", "failed", "cancelled", "deleted"}
Active == {"queued", "running", "waiting"}

(* How far a lookup is: the providers that have answered or were skipped, the
   retries of the next one, and whether a record is proven to be this paper. *)
Checkpoint == [index : 0..Providers, tries : 0..MaxRetries, proven : BOOLEAN]
Fresh == [index |-> 0, tries |-> 0, proven |-> FALSE]

(* The columns of an ended item are not read again, so they are not kept here. *)
Row(status, link) ==
  [status |-> status, link |-> link, requests |-> 0, due |-> TRUE, at |-> Fresh]
NoRow == Row("none", NoItem)
Ended(status) == Row(status, NoItem)

Left(pc, outcome) == [pc |-> pc, clue |-> 0, at |-> Fresh, outcome |-> outcome]
Idle == Left("none", "failed")

Quiet == [rows |-> [p \in Paper |-> NoEvent], got |-> [p \in Paper |-> NoEvent],
          written |-> FALSE]

TypeOK ==
  /\ present \subseteq Paper
  /\ head \in [Paper -> [rev : 0..MaxRevision, origin : Origin]]
  /\ event \in [Paper -> {NoEvent} \cup 0..MaxRevision]
  /\ index \in [Paper -> 0..MaxRevision]
  /\ sync \in [rows : [Paper -> {NoEvent} \cup 0..MaxRevision],
               got : [Paper -> {NoEvent} \cup 0..MaxRevision], written : BOOLEAN]
  /\ batch \in [Batch -> [rows : [Paper -> 0..MaxRevision], cancel : BOOLEAN, manual : BOOLEAN]]
  /\ item \in [Item -> [status : Terminal \cup Active \cup {"none"},
                        link : Item \cup {NoItem}, requests : 0..MaxRequests,
                        due : BOOLEAN, at : Checkpoint]]
  /\ run \in [Item -> [pc : {"none", "submitted", "claimed", "asking", "sent", "cached", "parking",
                             "deciding", "applying", "finishing", "broken", "done"},
                       clue : 0..MaxRevision, at : Checkpoint, outcome : Terminal]]
  /\ failures \in 0..MaxFailures

Init ==
  /\ present = {}
  /\ head = [p \in Paper |-> [rev |-> 0, origin |-> "open"]]
  /\ event = [p \in Paper |-> NoEvent]
  /\ index = [p \in Paper |-> 0]
  /\ sync = Quiet
  /\ batch = [b \in Batch |-> [rows |-> [p \in Paper |-> 0], cancel |-> FALSE, manual |-> FALSE]]
  /\ item = [i \in Item |-> NoRow]
  /\ run = [i \in Item |-> Idle]
  /\ failures = 0

-------------------------------------------------------------------------------
(* The queue's tables. *)

Used(b) == \E p \in Paper : batch[b].rows[p] # 0
NextBatch == 1 + Cardinality({b \in Batch : Used(b)})
Rows(S, h) == [p \in Paper |-> IF p \in S THEN h[p].rev ELSE 0]

Reusable(rows) == \E b \in Batch : batch[b].rows = rows /\ ~batch[b].cancel

(* The insertions of enqueue for the papers S: an item of a paper that is on its
   way already waits for that one. *)
Prior(p) == {i \in Item : PaperOf(i) = p /\ item[i].status \in Active}

Enqueued(S, h, manual) ==
  LET b == NextBatch IN
  /\ b \in Batch
  /\ batch' = [batch EXCEPT ![b] = [rows |-> Rows(S, h), cancel |-> FALSE, manual |-> manual]]
  /\ \E link \in [S -> Item \cup {NoItem}] :
       /\ \A p \in S : IF Prior(p) = {} THEN link[p] = NoItem ELSE link[p] \in Prior(p)
       /\ item' = [i \in Item |->
            IF BatchOf(i) # b \/ PaperOf(i) \notin S THEN item[i]
            ELSE Row(IF link[PaperOf(i)] = NoItem THEN "queued" ELSE "waiting",
                     link[PaperOf(i)])]

(* _save_head with the next revision. *)
SaveHead(p, origin) ==
  /\ head[p].rev < MaxRevision
  /\ head' = [head EXCEPT ![p] = [rev |-> @.rev + 1, origin |-> origin]]
  /\ event' = [event EXCEPT ![p] = head[p].rev + 1]

-------------------------------------------------------------------------------
(* Requests. *)

(* save_paper of a paper that is new: its head, an event and an item. *)
Import(p) ==
  /\ \A b \in Batch : batch[b].rows[p] = 0    (* an identifier is not used again *)
  /\ \E o \in {"open", "kept"} :
       /\ head' = [head EXCEPT ![p] = [rev |-> 1, origin |-> o]]
       /\ present' = present \cup {p}
       /\ event' = [event EXCEPT ![p] = 1]
       /\ Enqueued({p}, head', FALSE)
  /\ UNCHANGED <<indexing, run, failures>>

(* save_paper of a known paper, whatever else of its row changed. *)
Save(p) ==
  /\ p \in present
  /\ event' = [event EXCEPT ![p] = head[p].rev]
  /\ UNCHANGED <<present, head, indexing, queue, run, failures>>

(* edit: PATCH of the current revision, or the adoption of a candidate; of the
   field or of another one. *)
Edit(p) ==
  /\ p \in present
  /\ \E o \in {"kept", head[p].origin} : SaveHead(p, o)
  /\ UNCHANGED <<present, indexing, queue, run, failures>>

(* delete_paper. *)
Delete(p) ==
  /\ p \in present
  /\ present' = present \ {p}
  /\ head' = [head EXCEPT ![p] = [rev |-> 0, origin |-> "open"]]
  /\ event' = [event EXCEPT ![p] = 0]
  /\ item' = [i \in Item |-> IF PaperOf(i) = p /\ item[i].status \in Active
                             THEN Ended("deleted") ELSE item[i]]
  /\ UNCHANGED <<indexing, batch, run, failures>>

Create(S, force) ==
  /\ S # {} /\ S \subseteq present
  /\ force \/ ~Reusable(Rows(S, head))
  /\ Enqueued(S, head, TRUE)
  /\ UNCHANGED <<library, indexing, run, failures>>

Cancel(b) ==
  /\ Used(b)
  /\ batch' = [batch EXCEPT ![b] = [@ EXCEPT !.cancel = TRUE]]
  /\ item' = [i \in Item |-> IF BatchOf(i) = b /\ item[i].status \in {"queued", "waiting"}
                             THEN Ended("cancelled") ELSE item[i]]
  /\ UNCHANGED <<library, indexing, run, failures>>

(* retry: one deleted paper among the failed ones refuses all of them. *)
Unsuccessful(b) == {p \in Paper : item[<<b, p>>].status \in {"failed", "cancelled"}}

Retry(b) == Used(b) /\ Create(Unsuccessful(b), TRUE)

-------------------------------------------------------------------------------
(* The dispatcher. *)

InPool == {i \in Item : run[i].pc # "none"}
Running == {i \in Item : item[i].status = "running"}

Goto(i, pc) == run' = [run EXCEPT ![i] = [@ EXCEPT !.pc = pc]]

Dispatchable ==
  {i \in Item \ InPool : /\ item[i].status \in {"queued", "waiting"}
                         /\ item[i].link = NoItem
                         /\ item[i].due
                         /\ ~batch[BatchOf(i)].cancel}

Before(i, j) ==
  IF batch[BatchOf(i)].manual = batch[BatchOf(j)].manual THEN BatchOf(i) < BatchOf(j)
  ELSE batch[BatchOf(i)].manual

Dispatch(i) ==
  /\ Running = {} /\ Cardinality(InPool) < 2
  /\ i \in Dispatchable /\ \A j \in Dispatchable : ~Before(j, i)
  /\ Goto(i, "submitted")
  /\ UNCHANGED <<library, indexing, queue, failures>>

(* A wait is over. *)
FallDue(i) ==
  /\ item[i].status \in {"waiting", "queued"} /\ ~item[i].due
  /\ item' = [item EXCEPT ![i] = [@ EXCEPT !.due = TRUE]]
  /\ UNCHANGED <<library, indexing, batch, run, failures>>

(* A future that is done leaves the pool; one that raised leaves its item to be
   failed here. *)
Reap(i) ==
  /\ run[i].pc \in {"done", "broken"}
  /\ item' = IF run[i].pc = "broken" /\ item[i].status = "running"
             THEN [item EXCEPT ![i] = Ended("failed")] ELSE item
  /\ run' = [run EXCEPT ![i] = Idle]
  /\ UNCHANGED <<library, indexing, batch, failures>>

SyncLinked(i) ==
  /\ item[i].status = "waiting" /\ item[i].link # NoItem
  /\ item[item[i].link].status \in Terminal
  /\ item' = [item EXCEPT ![i] = Ended(item[item[i].link].status)]
  /\ UNCHANGED <<library, indexing, batch, run, failures>>

(* sync_indexes: select the events; then, for each of them, read the paper, write
   the index and clear the event unless it has changed since. *)
SelectEvents ==
  /\ sync = Quiet
  /\ \E p \in Paper : event[p] # NoEvent
  /\ sync' = [sync EXCEPT !.rows = event]
  /\ UNCHANGED <<library, index, queue, run, failures>>

SyncRead(p) ==
  /\ sync.rows[p] # NoEvent /\ \A q \in Paper : sync.got[q] = NoEvent
  /\ sync' = [sync EXCEPT !.got = [@ EXCEPT ![p] = head[p].rev]]
  /\ UNCHANGED <<library, index, queue, run, failures>>

SyncWrite(p) ==
  /\ sync.got[p] # NoEvent /\ ~sync.written
  /\ index' = [index EXCEPT ![p] = sync.got[p]]
  /\ sync' = [sync EXCEPT !.written = TRUE]
  /\ UNCHANGED <<library, queue, run, failures>>

NextRow(p) == [rows |-> [sync.rows EXCEPT ![p] = NoEvent],
               got |-> [sync.got EXCEPT ![p] = NoEvent], written |-> FALSE]

(* The clearing without a look at the revision, for a mutant. *)
SyncClearAnyway(p) ==
  /\ sync.got[p] # NoEvent /\ sync.written
  /\ event' = [event EXCEPT ![p] = NoEvent]
  /\ sync' = NextRow(p)
  /\ UNCHANGED <<present, head, index, queue, run, failures>>

SyncClear(p) ==
  /\ sync.got[p] # NoEvent /\ sync.written
  /\ event' = IF event[p] = sync.rows[p] THEN [event EXCEPT ![p] = NoEvent] ELSE event
  /\ sync' = NextRow(p)
  /\ UNCHANGED <<present, head, index, queue, run, failures>>

SyncFails(p) ==
  /\ sync.rows[p] # NoEvent /\ failures < MaxFailures
  /\ sync.got[p] # NoEvent \/ \A q \in Paper : sync.got[q] = NoEvent
  /\ sync' = NextRow(p)
  /\ failures' = failures + 1
  /\ UNCHANGED <<library, index, queue, run>>

-------------------------------------------------------------------------------
(* The run of an item: run(). *)

Ending(i, outcome) == run' = [run EXCEPT ![i] = Left("finishing", outcome)]
Done(i) == run' = [run EXCEPT ![i] = Left("done", "failed")]
NothingElse == UNCHANGED <<library, indexing, batch, failures>>
OnlyRun == UNCHANGED <<item>> /\ NothingElse

(* The claim is a transaction of its own; a request or another run of the owner may
   have come first. *)
Claim(i) ==
  /\ run[i].pc = "submitted"
  /\ IF item[i].status \in {"queued", "waiting"} /\ Running = {}
     THEN /\ item' = [item EXCEPT ![i] = [@ EXCEPT !.status = "running"]]
          /\ run' = [run EXCEPT ![i] = [@ EXCEPT !.pc = "claimed", !.at = item[i].at]]
     ELSE Done(i) /\ UNCHANGED item
  /\ NothingElse

(* check, and how its refusals end the run. *)
Passes(i) == PaperOf(i) \in present /\ ~batch[BatchOf(i)].cancel
Refusal(i) == IF PaperOf(i) \notin present THEN "deleted" ELSE "cancelled"
Refused(i) == ~Passes(i) /\ Ending(i, Refusal(i)) /\ OnlyRun

InputRevision(i) == batch[BatchOf(i)].rows[PaperOf(i)]

(* The loop over the schedule goes on, or is over. *)
NextStage(at) == IF at.index = Providers THEN "deciding" ELSE "asking"

(* The head is read and the PDF inspected; the file may be unavailable, or not the
   one of the checkpoint. *)
Identify(i) ==
  /\ run[i].pc = "claimed"
  /\ \/ Refused(i)
     \/ /\ Passes(i)
        /\ LET r == head[PaperOf(i)].rev IN
           \/ /\ r = InputRevision(i)
              /\ run' = [run EXCEPT ![i] = [@ EXCEPT !.pc = NextStage(run[i].at), !.clue = r]]
           \/ Ending(i, "failed")
        /\ OnlyRun

Counted(row) == [row EXCEPT !.requests = @ + 1]

(* A budget that is not looked at, for a mutant. *)
SendAnyway(i) ==
  /\ run[i].pc = "asking" /\ Passes(i)
  /\ item' = [item EXCEPT ![i] = Counted(@)]
  /\ Goto(i, "sent") /\ NothingElse

(* before(): a request is counted when it is sent. *)
Send(i) ==
  /\ run[i].pc = "asking"
  /\ \/ Refused(i)
     \/ /\ Passes(i) /\ item[i].requests >= MaxRequests
        /\ Ending(i, "failed") /\ OnlyRun
     \/ /\ Passes(i) /\ item[i].requests < MaxRequests
        /\ item' = [item EXCEPT ![i] = Counted(@)]
        /\ Goto(i, "sent") /\ NothingElse

(* An earlier answer is in the cache. *)
Cached(i) == run[i].pc = "asking" /\ Passes(i) /\ Goto(i, "cached") /\ OnlyRun

(* The provider is paced: the item waits, no request was made. *)
Paced(i) ==
  /\ run[i].pc = "asking"
  /\ \/ Refused(i)
     \/ /\ Passes(i)
        /\ IF item[i].requests >= MaxRequests THEN Ending(i, "failed") ELSE Goto(i, "parking")
        /\ OnlyRun

(* The answer is parsed and the checkpoint saved. *)
Answer(i) ==
  /\ run[i].pc \in {"sent", "cached"}
  /\ \E f \in BOOLEAN :
       LET at == [index |-> run[i].at.index + 1, tries |-> 0, proven |-> run[i].at.proven \/ f] IN
       /\ item' = [item EXCEPT ![i] = [@ EXCEPT !.at = at]]
       /\ run' = [run EXCEPT ![i] =
            [@ EXCEPT !.pc = IF at.proven THEN "deciding" ELSE NextStage(at), !.at = at]]
  /\ NothingElse

Tried(at, n) == [at EXCEPT !.tries = @ + n]
Skipped(at) == [at EXCEPT !.index = @ + 1, !.tries = 0]

(* A transient failure is tried again later, within the budget; the answer "too
   many requests" as often as the budget allows. *)
TransientFailure(i) ==
  /\ run[i].pc = "sent"
  /\ \/ Refused(i)
     \/ /\ Passes(i)
        /\ \E again \in {0, 1} :
             /\ run[i].at.tries + again <= MaxRetries
             /\ IF item[i].requests >= MaxRequests THEN Ending(i, "failed")
                ELSE run' = [run EXCEPT ![i] =
                       [@ EXCEPT !.pc = "parking", !.at = Tried(run[i].at, again)]]
        /\ OnlyRun

(* Another failure skips the provider, if there is something left to go by. *)
ProviderFails(i) ==
  /\ run[i].pc = "sent"
  /\ LET at == Skipped(run[i].at) IN
     IF at.index = Providers /\ ~at.proven
     THEN Ending(i, "failed")
     ELSE run' = [run EXCEPT ![i] = [@ EXCEPT !.pc = NextStage(at), !.at = at]]
  /\ OnlyRun

(* finish with "waiting": no check is made with it. *)
Park(i) ==
  /\ run[i].pc = "parking"
  /\ item' = [item EXCEPT ![i] =
                 [@ EXCEPT !.status = "waiting", !.due = FALSE, !.at = run[i].at]]
  /\ Done(i)
  /\ NothingElse

(* The file is compared once more, the candidates are stored.  Proven records that
   differ are left to the owner; without a record, a provider may have failed. *)
Decide(i) ==
  /\ run[i].pc = "deciding"
  /\ \/ Refused(i)
     \/ /\ Passes(i)
        /\ \/ Ending(i, "failed")      (* another file, or no answer at all *)
           \/ run[i].at.proven /\ Goto(i, "applying")
           \/ Ending(i, "answered")
        /\ OnlyRun

(* apply: one transaction with its own checks. *)
Fillable == {"open"}

(* An application that trusts the revision of the first look, for a mutant. *)
ApplyAnyway(i) ==
  LET p == PaperOf(i) IN
  /\ run[i].pc = "applying"
  /\ \/ Refused(i)
     \/ /\ Passes(i) /\ head[p].origin \in Fillable
        /\ SaveHead(p, "provider") /\ Ending(i, "answered")
        /\ UNCHANGED <<present, indexing, queue, failures>>

Apply(i) ==
  LET p == PaperOf(i) IN
  /\ run[i].pc = "applying"
  /\ \/ Refused(i)
     \/ Passes(i) /\ head[p].rev # InputRevision(i) /\ Ending(i, "failed") /\ OnlyRun
     \/ /\ Passes(i) /\ head[p].rev = InputRevision(i)
        /\ \/ /\ head[p].origin \in Fillable
              /\ SaveHead(p, "provider") /\ Ending(i, "answered")
              /\ UNCHANGED present
           \/ Ending(i, "answered") /\ UNCHANGED library
        /\ UNCHANGED <<indexing, queue, failures>>

(* finish writes its outcome over whatever the row says. *)
Finish(i) ==
  /\ run[i].pc = "finishing"
  /\ item' = [item EXCEPT ![i] = Ended(run[i].outcome)]
  /\ Done(i)
  /\ NothingElse

(* A write of the run fails: it is recorded as failed, or that fails too. *)
WriteFails(i) ==
  /\ run[i].pc \in {"asking", "applying", "finishing"} /\ failures < MaxFailures
  /\ Ending(i, "failed") \/ Goto(i, "broken")
  /\ failures' = failures + 1
  /\ UNCHANGED <<library, indexing, queue>>

-------------------------------------------------------------------------------
(* What an older version edited while this one was down counts as typed. *)
Reconciled(S) ==
  /\ S \subseteq present /\ \A p \in S : head[p].rev < MaxRevision
  /\ head' = [p \in Paper |-> IF p \in S THEN [rev |-> head[p].rev + 1, origin |-> "kept"] ELSE head[p]]
  /\ event' = [p \in Paper |-> IF p \in S THEN head[p].rev + 1 ELSE event[p]]

(* The process ends and starts again: start(). *)
Restart(S) ==
  /\ failures < MaxFailures
  /\ failures' = failures + 1
  /\ item' = [i \in Item |-> IF item[i].status = "running"
                             THEN [item[i] EXCEPT !.status = "queued"] ELSE item[i]]
  /\ Reconciled(S)
  /\ run' = [i \in Item |-> Idle]
  /\ sync' = Quiet
  /\ UNCHANGED <<present, index, batch>>

Request ==
  \/ \E p \in Paper : Import(p) \/ Save(p) \/ Edit(p) \/ Delete(p)
  \/ \E S \in SUBSET Paper, force \in BOOLEAN : Create(S, force)
  \/ \E b \in Batch : Cancel(b) \/ Retry(b)

Dispatcher ==
  \/ \E i \in Item : Dispatch(i) \/ FallDue(i) \/ Reap(i) \/ SyncLinked(i)
  \/ SelectEvents
  \/ \E p \in Paper : SyncRead(p) \/ SyncWrite(p) \/ SyncClear(p) \/ SyncFails(p)

Step(i) ==
  \/ Claim(i) \/ Identify(i) \/ Send(i) \/ Cached(i) \/ Paced(i)
  \/ Answer(i) \/ TransientFailure(i) \/ ProviderFails(i) \/ Park(i)
  \/ Decide(i) \/ Apply(i) \/ Finish(i) \/ WriteFails(i)

Next == Request \/ Dispatcher \/ (\E i \in Item : Step(i)) \/ (\E S \in SUBSET Paper : Restart(S))

Spec == Init /\ [][Next]_vars

-------------------------------------------------------------------------------
(* A change of the bibliography is never lost on the way to the search index: a
   paper without an event is indexed at its current revision, or not at all when
   it is gone, whatever happened while sync_indexes() worked on an earlier one. *)
IndexFollows == \A p \in Paper : event[p] = NoEvent => index[p] = head[p].rev

(* A late result changes nothing it was not looked up for: a provider's value is
   stored only by a run whose batch nobody has cancelled, over the revision that
   its clues were read from, and never over a value somebody typed or kept. *)
Filled(p) == head[p].origin # "provider" /\ head'[p].origin = "provider"

LateResultRefused ==
  [][\A p \in Paper : Filled(p) =>
       /\ head[p].origin = "open"
       /\ \E i \in Item : /\ PaperOf(i) = p /\ run[i].pc = "applying"
                         /\ run[i].clue = head[p].rev
                         /\ ~batch[BatchOf(i)].cancel]_vars

===============================================================================
