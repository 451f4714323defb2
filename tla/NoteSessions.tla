----------------------------- MODULE NoteSessions -----------------------------
(***************************************************************************)
(* The pages that write a paper's main note: one NoteSession per page, its *)
(* queue of requests, its reconciliation of results it does not know, and  *)
(* the decision of conflicts.  Typing goes on while a request is under     *)
(* way; a request that failed for the page may still reach the server.     *)
(***************************************************************************)
EXTENDS PaperNotes, FiniteSets

CONSTANTS
  MaxEdits,      (* bound: edits of texts, over all pages                  *)
  MaxFailures,   (* bound: requests that fail for the page                 *)
  MaxDecisions,  (* bound: conflicts the user decides                      *)
  MaxBeside      (* bound: pages with requests beside their queue         *)

ASSUME NoteSessionsAssumption ==
  {MaxEdits, MaxFailures, MaxDecisions, MaxBeside} \subseteq Nat

VARIABLES
  page,       (* the state of each page's session                           *)
  pc,         (* the request its queue waits for                            *)
  pick,       (* the decision under way                                     *)
  reply,      (* the answer on its way to the page                          *)
  read,       (* a GET of load(), beside the queue                          *)
  late,       (* requests that failed for their page and may still arrive   *)
  inserts,    (* blocks being inserted: requests beside the queue           *)
  before,     (* history: the texts each page had in its editor, or its     *)
              (* user chose to keep                                         *)
  edits, failures, decisions

clientVars == <<page, pc, pick, reply, read, late, inserts, before,
                edits, failures, decisions>>
vars == <<serverVars, clientVars>>
counters == <<edits, failures, decisions>>
onTheWay == <<late, inserts>>

NoConflict == [id |-> 0, rev |-> 0]
Blank(code) == [code |-> code, text |-> {}, rev |-> 0, open |-> {}]
Silent == Blank("none")
Dropped == Blank("dropped")

(* shut: saving is frozen by a conflict, whose draft (0: none yet) and revision
   are in conflict; unsure: the text of a request without an answer, if any. *)
Page == [loaded : BOOLEAN, text : Text, base : Nat, confirmed : Text,
         rev : Nat, open : SUBSET Nat, shut : BOOLEAN,
         conflict : [id : Nat, rev : Nat], unsure : SUBSET Text]
NewPage == [loaded |-> FALSE, text |-> {}, base |-> 0, confirmed |-> {},
            rev |-> 0, open |-> {}, shut |-> FALSE,
            conflict |-> NoConflict, unsure |-> {}]

(* "check" and "recheck" are the reconciliations before a save and after its
   failure, "look" and "review" the reads after a refusal. *)
Reads == {"check", "recheck", "look", "fresh", "review"}
Pc == {"idle", "save", "keep", "decide"} \cup Reads

Pick == [choice : {"current", "draft"}, text : Text, id : Nat, rev : Nat,
         typed : BOOLEAN]
NoPick == [choice |-> "current", text |-> {}, id |-> 0, rev |-> 0, typed |-> FALSE]

Reply == [code : {"none", "ok", "conflict", "limited", "asked", "written", "dropped"},
          text : Text, rev : Nat, open : SUBSET Nat]

Insertion == [page : Session, answer : Reply]

TypeOK ==
  /\ ServerTypeOK
  /\ page \in [Session -> Page]
  /\ pc \in [Session -> Pc]
  /\ pick \in [Session -> Pick]
  /\ reply \in [Session -> Reply]
  /\ read \in [Session -> Reply]
  /\ \A r \in late : r.page \in Session /\ r.kind \in {"save", "decide"}
  /\ inserts \subseteq Insertion
  /\ before \in [Session -> SUBSET Text]
  /\ edits \in 0..MaxEdits /\ failures \in 0..MaxFailures
  /\ decisions \in 0..MaxDecisions

Init ==
  /\ ServerInit
  /\ page = [s \in Session |-> NewPage]
  /\ pc = [s \in Session |-> "idle"]
  /\ pick = [s \in Session |-> NoPick]
  /\ reply = [s \in Session |-> Silent]
  /\ read = [s \in Session |-> Silent]
  /\ late = {} /\ inserts = {}
  /\ before = [s \in Session |-> {{}}]
  /\ edits = 0 /\ failures = 0 /\ decisions = 0

-------------------------------------------------------------------------------
(* The three ways in which a session takes over what the server answered. *)

Busy(s) == pc[s] # "idle"

(* The answers to a PUT do not list the drafts: the page keeps its list. *)
Known(s, a) == IF pc[s] \in {"save", "keep"} THEN page[s].open ELSE a.open

(* confirm(): the answer becomes the base; the editor keeps its text, or takes
   the server's. *)
ConfirmedAsTyped(s, a, replace) ==
  [page[s] EXCEPT !.loaded = TRUE, !.base = a.rev,
                  !.confirmed = IF replace THEN a.text ELSE page[s].text,
                  !.text = IF replace THEN a.text ELSE @,
                  !.rev = a.rev, !.open = Known(s, a), !.shut = FALSE,
                  !.conflict = NoConflict, !.unsure = {}]

Confirmed(s, a, replace) ==
  [page[s] EXCEPT !.loaded = TRUE, !.base = a.rev, !.confirmed = a.text,
                  !.text = IF replace THEN a.text ELSE @,
                  !.rev = a.rev, !.open = Known(s, a), !.shut = FALSE,
                  !.conflict = NoConflict, !.unsure = {}]

(* openConflict(): the base stays; the remote revision belongs to the decision. *)
DraftOf(s, a) ==
  LET old == page[s].conflict.id
      same == {i \in a.open : conflicts[i].text = page[s].text}
  IN IF old \in a.open THEN old
     ELSE IF same # {} THEN CHOOSE i \in same : TRUE ELSE 0

InConflictRebased(s, a) ==
  [page[s] EXCEPT !.rev = a.rev, !.open = Known(s, a), !.shut = TRUE, !.base = a.rev,
                  !.conflict = [id |-> DraftOf(s, a), rev |-> a.rev]]

InConflict(s, a) ==
  [page[s] EXCEPT !.rev = a.rev, !.open = Known(s, a), !.shut = TRUE,
                  !.conflict = [id |-> DraftOf(s, a), rev |-> a.rev]]

(* accept(): an answer outside of the queue. *)
Accepted(s, a) ==
  LET p == page[s] IN
  IF p.shut THEN InConflict(s, a)
  ELSE IF ~p.loaded \/ p.text = p.confirmed THEN Confirmed(s, a, TRUE)
  ELSE IF a.text = p.text THEN Confirmed(s, a, FALSE)
  ELSE IF a.rev # p.base THEN InConflict(s, a)
  ELSE [p EXCEPT !.rev = a.rev, !.open = a.open]

Show(s, p) == /\ page' = [page EXCEPT ![s] = p]
              /\ before' = [before EXCEPT ![s] = @ \cup {p.text}]
Goto(s, l) == pc' = [pc EXCEPT ![s] = l]
Silence(s) == reply' = [reply EXCEPT ![s] = Silent]
Forget(s) == pick' = [pick EXCEPT ![s] = NoPick]
DropRead(s) == read' = [read EXCEPT ![s] = IF @ = Silent THEN @ ELSE Dropped]

-------------------------------------------------------------------------------
(* load(): a read beside the queue.  What starts meanwhile drops its answer. *)

(* The pages that MaxBeside bounds. *)
Beside == {s \in Session : read[s] # Silent} \cup {i.page : i \in inserts}

Load(s) ==
  /\ ~Busy(s) /\ read[s] = Silent
  /\ Cardinality(Beside \cup {s}) <= MaxBeside
  /\ read' = [read EXCEPT ![s] = Blank("asked")]
  /\ UNCHANGED <<serverVars, page, pc, pick, reply, onTheWay, before, counters>>

AnswerRead(s) ==
  /\ read[s].code = "asked"
  /\ read' = [read EXCEPT ![s] = Answer("ok", note, conflicts)]
  /\ UNCHANGED <<serverVars, page, pc, pick, reply, onTheWay, before, counters>>

EndRead(s) ==
  /\ read[s].code \in {"ok", "dropped"}
  /\ IF read[s].code = "ok" /\ ~Busy(s) THEN Show(s, Accepted(s, read[s]))
                                        ELSE UNCHANGED <<page, before>>
  /\ read' = [read EXCEPT ![s] = Silent]
  /\ UNCHANGED <<serverVars, pc, pick, reply, onTheWay, counters>>

(* edit(): one more piece, or one piece or block less. *)
Edit(s) ==
  /\ page[s].loaded /\ edits < MaxEdits
  /\ \E x \in Piece \cup page[s].text :
       LET t == IF x \in page[s].text THEN page[s].text \ {x} ELSE page[s].text \cup {x}
       IN Show(s, [page[s] EXCEPT !.text = t])
  /\ pick' = [pick EXCEPT ![s] = [@ EXCEPT !.typed = pc[s] \in {"keep", "fresh", "decide"}]]
  /\ edits' = edits + 1
  /\ UNCHANGED <<serverVars, pc, reply, read, onTheWay, failures, decisions>>

(* discard(), offered after a save that failed (a conflict is decided instead);
   here whenever there is something to discard.  Back to state.note: its text is
   the confirmed one, as no conflict froze the page. *)
Discard(s) ==
  LET p == page[s] IN
  /\ p.loaded /\ ~Busy(s) /\ ~p.shut
  /\ p.text # p.confirmed \/ p.unsure # {}
  /\ Show(s, [p EXCEPT !.base = p.rev, !.text = p.confirmed, !.unsure = {}])
  /\ UNCHANGED <<serverVars, pc, pick, reply, read, onTheWay, counters>>

(* Inserting an excerpt or an answer, beside the queue, which may do anything
   meanwhile: the handler writes, and reads the note for its answer in a second
   transaction.  The revision that the page knows comes with the request; one that
   is refused changes nothing, and one that is late does what it did in time.  Only
   the answer for an excerpt is taken over: for a saved answer the page reads the
   note again. *)
Insert(s, x) ==
  /\ page[s].loaded /\ Cardinality(Beside \cup {s}) <= MaxBeside
  /\ edits < MaxEdits /\ edits' = edits + 1
  /\ MayInsert(x, page[s].rev)
  /\ InsertBlock(s, x)
  /\ inserts' = IF x \in Excerpt
                THEN inserts \cup {[page |-> s, answer |-> Blank("written")]} ELSE inserts
  /\ UNCHANGED <<page, pc, pick, reply, read, late, before, failures, decisions>>

AnswerInsert(i) ==
  /\ i.answer.code = "written"
  /\ inserts' = (inserts \ {i}) \cup {[i EXCEPT !.answer = Answer("ok", note, conflicts)]}
  /\ UNCHANGED <<serverVars, page, pc, pick, reply, read, late, before, counters>>

(* A busy session does not take the answer.  One that never arrives stays. *)
TakeInsert(i) ==
  LET s == i.page IN
  /\ i.answer.code = "ok"
  /\ inserts' = inserts \ {i}
  /\ IF Busy(s) THEN UNCHANGED <<page, before, read>>
     ELSE Show(s, Accepted(s, i.answer)) /\ DropRead(s)
  /\ UNCHANGED <<serverVars, pc, pick, reply, late, counters>>

DeleteOrRestore(x) ==
  /\ edits < MaxEdits /\ edits' = edits + 1
  /\ ToggleAnnotation(x)
  /\ UNCHANGED <<page, pc, pick, reply, read, onTheWay, before, failures, decisions>>

-------------------------------------------------------------------------------
(* flush(), from the timer, a blur or the user's retry(). *)

ToSave(s) == [page[s] EXCEPT !.unsure = {page[s].text}]

Flush(s) ==
  LET p == page[s] IN
  /\ p.loaded /\ ~Busy(s) /\ ~p.shut
  /\ p.text # p.confirmed \/ p.unsure # {}
  /\ IF p.unsure # {} THEN Goto(s, "check") /\ UNCHANGED page
     ELSE Goto(s, "save") /\ page' = [page EXCEPT ![s] = ToSave(s)]
  /\ DropRead(s)
  /\ UNCHANGED <<serverVars, pick, reply, onTheWay, before, counters>>

Retry(s) ==
  /\ page[s].loaded /\ ~Busy(s) /\ ~page[s].shut /\ page[s].unsure = {}
  /\ edits < MaxEdits /\ edits' = edits + 1
  /\ page' = [page EXCEPT ![s] = [@ EXCEPT !.unsure = {page[s].confirmed}]]
  /\ Goto(s, "check")
  /\ DropRead(s)
  /\ UNCHANGED <<serverVars, pick, reply, onTheWay, before, failures, decisions>>

(* reconcile(): the server may hold the text of the page or of the request that
   had no answer; else a revision that moved on is a conflict. *)
Holds(s, a) == a.text \in {page[s].text} \cup page[s].unsure

Reconciled(s, a) ==
  \/ Holds(s, a) /\ Show(s, Confirmed(s, a, FALSE))
  \/ ~Holds(s, a) /\ a.rev # page[s].base /\ Show(s, InConflict(s, a))
  \/ ~Holds(s, a) /\ a.rev = page[s].base /\ UNCHANGED <<page, before>>

Checked(s, a) ==
  LET p == page[s]
      changed == p.text # (IF Holds(s, a) THEN a.text ELSE p.confirmed)
  IN
  /\ pc[s] = "check"
  /\ IF changed /\ (Holds(s, a) \/ a.rev = p.base)
     THEN LET q == IF Holds(s, a) THEN Confirmed(s, a, FALSE) ELSE p
          IN Show(s, [q EXCEPT !.unsure = {p.text}]) /\ Goto(s, "save")
     ELSE Reconciled(s, a) /\ Goto(s, "idle")
  /\ UNCHANGED pick

Rechecked(s, a) ==
  /\ pc[s] = "recheck"
  /\ Reconciled(s, a) /\ Goto(s, "idle")
  /\ UNCHANGED pick

Saved(s, a) ==
  /\ pc[s] = "save"
  /\ \/ a.code = "ok" /\ Show(s, Confirmed(s, a, FALSE)) /\ Goto(s, "idle")
     \/ /\ a.code = "limited"
        /\ page' = [page EXCEPT ![s] = [@ EXCEPT !.unsure = {}]]
        /\ Goto(s, "idle") /\ UNCHANGED before
     \/ /\ a.code = "conflict"
        /\ page' = [page EXCEPT ![s] = [@ EXCEPT !.shut = TRUE, !.conflict = NoConflict]]
        /\ Goto(s, "look") /\ UNCHANGED before
  /\ UNCHANGED pick

Looked(s, a) ==
  /\ pc[s] \in {"look", "review"}
  /\ Show(s, InConflict(s, a)) /\ Goto(s, "idle")
  /\ Forget(s)

-------------------------------------------------------------------------------
(* decide(): of the conflict that froze the page, or of a draft kept earlier. *)

Choose(s, choice, id, rev, t) ==
  /\ ~Busy(s) /\ decisions < MaxDecisions
  /\ decisions' = decisions + 1
  /\ page' = [page EXCEPT ![s] = [@ EXCEPT !.shut = TRUE,
                                           !.conflict = [id |-> id, rev |-> rev]]]
  /\ pick' = [pick EXCEPT ![s] = [choice |-> choice, text |-> t, id |-> id, rev |-> rev,
                                  typed |-> FALSE]]
  /\ Goto(s, IF id = 0 THEN "keep" ELSE "decide")
  /\ DropRead(s)
  /\ UNCHANGED <<serverVars, reply, onTheWay, before, edits, failures>>

Decide(s) ==
  LET p == page[s] IN
  \E choice \in {"current", "draft"} :
    \/ p.shut /\ Choose(s, choice, p.conflict.id, p.conflict.rev, p.text)
    \/ /\ ~p.shut /\ p.loaded
       /\ \E id \in p.open :
            Choose(s, choice, id, p.rev,
                   IF p.text = p.confirmed THEN conflicts[id].text ELSE p.text)

(* A divergence that a read discovered has no draft on the server yet: the page
   sends it with its old base, and looks for it. *)
Kept(s, a) ==
  /\ pc[s] = "keep"
  /\ Goto(s, IF a.code = "limited" THEN "idle" ELSE "fresh")
  /\ IF a.code = "limited" THEN Forget(s) ELSE UNCHANGED pick
  /\ UNCHANGED <<page, before>>

Refreshed(s, a) ==
  LET same == {i \in a.open : conflicts[i].text = pick[s].text} IN
  /\ pc[s] = "fresh"
  /\ IF a.rev # pick[s].rev \/ same = {}
     THEN Show(s, InConflict(s, a)) /\ Goto(s, "idle") /\ Forget(s)
     ELSE /\ pick' = [pick EXCEPT ![s] = [@ EXCEPT !.id = CHOOSE i \in same : TRUE]]
          /\ Goto(s, "decide")
          /\ UNCHANGED <<page, before>>

DecisionMade(s, a) ==
  /\ pc[s] = "decide"
  /\ \/ /\ a.code = "ok"
        /\ page' = [page EXCEPT ![s] = Confirmed(s, a, ~pick[s].typed)]
        /\ before' = [before EXCEPT ![s] = @ \cup {a.text, page'[s].text}]
        /\ Goto(s, "idle")
     \/ a.code = "limited" /\ Goto(s, "idle") /\ UNCHANGED <<page, before>>
     \/ a.code = "conflict" /\ Goto(s, "review") /\ UNCHANGED <<page, before>>
  /\ Forget(s)

-------------------------------------------------------------------------------
(* The way of a request: handled by the server, answered or failed. *)

Request(s) ==
  IF pc[s] = "decide"
  THEN [kind |-> "decide", page |-> s, id |-> pick[s].id, choice |-> pick[s].choice,
        rev |-> pick[s].rev, text |-> pick[s].text]
  ELSE [kind |-> "save", page |-> s, id |-> 0, choice |-> "none", rev |-> page[s].base,
        text |-> IF pc[s] = "keep" THEN pick[s].text ELSE CHOOSE t \in page[s].unsure : TRUE]

Code(r) ==
  IF r.kind = "save" THEN SaveCode(r.text, r.rev)
  ELSE IF r.rev = note.rev THEN "ok" ELSE "conflict"

Serve(r) ==
  \/ r.kind = "save" /\ SaveNote(r.page, r.text, r.rev)
  \/ r.kind = "decide" /\ ResolveConflict(r.page, r.id, r.choice, r.rev, r.text)

Handle(s) ==
  /\ Busy(s) /\ reply[s] = Silent
  /\ IF pc[s] \in Reads
     THEN UNCHANGED serverVars /\ reply' = [reply EXCEPT ![s] = Answer("ok", note, conflicts)]
     ELSE /\ Serve(Request(s))
          /\ reply' = [reply EXCEPT ![s] = Answer(Code(Request(s)), note', conflicts')]
  /\ UNCHANGED <<page, pc, pick, read, onTheWay, before, counters>>

(* The writes of an owner are limited per minute; such a write was not handled. *)
Limit(s) ==
  /\ pc[s] \notin Reads \cup {"idle"} /\ reply[s] = Silent
  /\ failures < MaxFailures /\ failures' = failures + 1
  /\ reply' = [reply EXCEPT ![s] = Blank("limited")]
  /\ UNCHANGED <<serverVars, page, pc, pick, read, onTheWay, before, edits, decisions>>

Deliver(s) ==
  LET a == reply[s] IN
  /\ a # Silent
  /\ Checked(s, a) \/ Rechecked(s, a) \/ Saved(s, a) \/ Looked(s, a)
     \/ Kept(s, a) \/ Refreshed(s, a) \/ DecisionMade(s, a)
  /\ Silence(s)
  /\ UNCHANGED <<serverVars, read, onTheWay, counters>>

(* The page does not get an answer.  After a save or a check it reconciles;
   after anything else the conflict stays as it is. *)
Fail(s) ==
  /\ Busy(s)
  /\ failures < MaxFailures /\ failures' = failures + 1
  /\ Goto(s, IF pc[s] \in {"save", "check"} THEN "recheck" ELSE "idle")
  /\ Silence(s)
  /\ late' = IF reply[s] = Silent /\ pc[s] \notin Reads
             THEN late \cup {Request(s)} ELSE late
  /\ Forget(s)
  /\ UNCHANGED <<serverVars, page, read, inserts, before, edits, decisions>>

ArriveLate(r) ==
  /\ Serve(r)
  /\ late' = late \ {r}
  /\ UNCHANGED <<inserts, page, pc, pick, reply, read, before, counters>>

Next ==
  \/ \E s \in Session :
       \/ Load(s) \/ AnswerRead(s) \/ EndRead(s)
       \/ Edit(s) \/ Flush(s) \/ Retry(s) \/ Decide(s)
       \/ Discard(s)
       \/ \E x \in Source : Insert(s, x)
       \/ Handle(s) \/ Limit(s) \/ Deliver(s) \/ Fail(s)
  \/ \E x \in Excerpt : DeleteOrRestore(x)
  \/ \E i \in inserts : AnswerInsert(i) \/ TakeInsert(i)
  \/ \E r \in late : ArriveLate(r)

Spec == Init /\ [][Next]_vars

-------------------------------------------------------------------------------
(* The base of a page and the text it takes for confirmed belong together,
   whatever answers were late, lost or overtaken: a page that saves on the
   current revision knows the current text. *)
BaseIsConfirmed ==
  \A s \in Session :
    page[s].loaded /\ page[s].base = note.rev => page[s].confirmed = note.text

(* The pages and the server together keep the promise of a shared note. *)
Shared == INSTANCE SharedNote WITH
  Writer <- Session, Text <- Text, text <- note.text, author <- note.by,
  aside <- {conflicts[i].text : i \in DOMAIN conflicts}, before <- before

NothingUnseenReplaced == Shared!Spec

===============================================================================
