-------------------------- MODULE NoteSessions_proofs --------------------------
(***************************************************************************)
(* Proofs about the pages that write a paper's note, for any number of     *)
(* pages, pieces and sources, edits, failures and decisions: the pages and *)
(* the server implement SharedNote.                                        *)
(***************************************************************************)
EXTENDS NoteSessions, SequenceTheorems, TLAPS

USE PaperNotesAssumption, NoteSessionsAssumption

(***************************************************************************)
(* The invariant.  Whatever a page, an answer or a request on its way says *)
(* of the note is of an earlier revision, or is the note.  A page has had  *)
(* in its editor what it takes for confirmed and what it has sent.         *)
(***************************************************************************)
Draft == [text : Text, open : BOOLEAN]

Current(r, t) == r \in Nat /\ r <= note.rev /\ (r = note.rev => t = note.text)

ServerInv ==
  /\ note \in [text : Text, rev : Nat, by : Session]
  /\ conflicts \in Seq(Draft)
  /\ entries \subseteq Source
  /\ deleted \subseteq Excerpt
  /\ note.rev = 0 => note.text = {}

AnswerShape(a) == a \in Reply /\ a.open \subseteq DOMAIN conflicts
AnswerOk(a) == AnswerShape(a) /\ Current(a.rev, a.text)

(* A page that no conflict froze has its base on display. *)
Shows(p) == p.shut \/ p.rev = p.base

PageOk(s, p) ==
  /\ p \in Page /\ Shows(p)
  /\ Current(p.base, p.confirmed)
  /\ p.text \in before[s] /\ p.confirmed \in before[s] /\ p.unsure \subseteq before[s]
  /\ p.open \subseteq DOMAIN conflicts

QueueOk(p, c, a, B) ==
  /\ c \in Pc
  /\ AnswerOk(a)
  /\ c = "save" => p.unsure # {} /\ (a.code = "ok" => a.text \in B)
  /\ c = "idle" => a = Silent

SessionOk(s) ==
  /\ PageOk(s, page[s])
  /\ QueueOk(page[s], pc[s], reply[s], before[s])
  /\ AnswerOk(read[s])

WriteRequest == [kind : {"save", "decide"}, page : Session, id : Nat,
                 choice : {"current", "draft", "none"}, rev : Nat, text : Text]

RequestOk(r) ==
  /\ r \in WriteRequest
  /\ r.kind = "save" => r.rev <= note.rev /\ (r.rev = note.rev => note.text \in before[r.page])

InsertionOk(i) == i \in Insertion /\ AnswerOk(i.answer)

Typed ==
  /\ page \in [Session -> Page] /\ pc \in [Session -> Pc] /\ pick \in [Session -> Pick]
  /\ reply \in [Session -> Reply] /\ read \in [Session -> Reply]
  /\ before \in [Session -> SUBSET Text]

Counted == edits \in 0..MaxEdits /\ failures \in 0..MaxFailures /\ decisions \in 0..MaxDecisions

Inv ==
  /\ ServerInv /\ Typed /\ Counted
  /\ \A s \in Session : SessionOk(s)
  /\ \A r \in late : RequestOk(r)
  /\ \A i \in inserts : InsertionOk(i)

Aside(c) == {c[i].text : i \in DOMAIN c}

(***************************************************************************)
(* The server.  A handler keeps the note, or writes its next revision in   *)
(* one of the ways that SharedNote allows; it drops no draft.              *)
(***************************************************************************)
Moves ==
  /\ note' = note \/ note'.rev > note.rev
  /\ DOMAIN conflicts \subseteq DOMAIN conflicts'

Writes(w) ==
  /\ note'.text \in Text
  /\ note'.by = w
  /\ \/ note.text \in before[w] /\ Aside(conflicts') = Aside(conflicts)
     \/ note.text \subseteq note'.text /\ Aside(conflicts') = Aside(conflicts)
     \/ Aside(conflicts') = Aside(conflicts) \cup {note.text}

Keeps == note' = note /\ Aside(conflicts) \subseteq Aside(conflicts')

Served == ServerInv' /\ Moves /\ (Keeps \/ \E w \in Session : Writes(w))

LEMMA Untouched == ServerInv /\ UNCHANGED serverVars => Served
BY DEF serverVars, ServerInv, Served, Moves, Keeps, Aside

LEMMA DraftKept ==
  ASSUME NEW c \in Seq(Draft), NEW t \in Text
  PROVE  LET d == Append(c, [text |-> t, open |-> TRUE]) IN
         d \in Seq(Draft) /\ DOMAIN c \subseteq DOMAIN d /\ Aside(d) = Aside(c) \cup {t}
<1> DEFINE e == [text |-> t, open |-> TRUE]
           d == Append(c, e)
<1>1. e \in Draft /\ e.text = t
  BY DEF Draft
<1>2. /\ d \in Seq(Draft) /\ Len(d) = Len(c) + 1
      /\ \A i \in 1..Len(c) : d[i] = c[i]
      /\ d[Len(c) + 1] = e
  BY <1>1, AppendProperties
<1>3. Len(c) \in Nat /\ DOMAIN c = 1..Len(c) /\ DOMAIN d = 1..(Len(c) + 1)
  BY <1>2, LenProperties
<1>4. Aside(d) = Aside(c) \cup {t}
  <2>1. Aside(d) \subseteq Aside(c) \cup {t}
    BY <1>1, <1>2, <1>3 DEF Aside
  <2>2. Aside(c) \subseteq Aside(d)
    BY <1>2, <1>3 DEF Aside
  <2>3. t \in Aside(d)
    BY <1>1, <1>2, <1>3 DEF Aside
  <2> QED
    BY <2>1, <2>2, <2>3
<1>5. DOMAIN c \subseteq DOMAIN d
  BY <1>3
<1> QED
  BY <1>2, <1>4, <1>5

LEMMA DecidedIs ==
  ASSUME NEW c \in Seq(Draft), NEW id
  PROVE  /\ Decided(c, id) \in Seq(Draft) /\ DOMAIN Decided(c, id) = DOMAIN c
         /\ Aside(Decided(c, id)) = Aside(c)
<1> DEFINE d == Decided(c, id)
<1>1. c \in [1..Len(c) -> Draft] /\ Len(c) \in Nat /\ DOMAIN c = 1..Len(c)
  BY LenProperties
<1>2. CASE id \in 1..Len(c)
  <2>1. c[id] \in Draft /\ [text |-> c[id].text, open |-> FALSE] \in Draft
    BY <1>1, <1>2 DEF Draft
  <2>2. d = [c EXCEPT ![id] = [text |-> c[id].text, open |-> FALSE]]
    BY DEF Decided
  <2>3. /\ d \in Seq(Draft) /\ Len(d) = Len(c)
        /\ \A i \in 1..Len(c) : d[i].text = c[i].text
    BY <1>2, <2>1, <2>2, ExceptSeq
  <2>4. DOMAIN d = 1..Len(c)
    BY <2>3, LenProperties
  <2> QED
    BY <1>1, <2>3, <2>4 DEF Aside
<1>3. CASE id \notin 1..Len(c)
  <2>1. d = c
    BY <1>1, <1>3 DEF Decided
  <2> QED
    BY <2>1
<1> QED
  BY <1>2, <1>3

LEMMA PutIs ==
  ASSUME ServerInv, NEW s \in Session, NEW t \in Text, Put(s, t)
  PROVE  /\ note' \in [text : Text, rev : Nat, by : Session]
         /\ note'.rev = note.rev + 1 /\ note'.text = t /\ note'.by = s
         /\ note'.rev > note.rev /\ note'.rev # 0
BY DEF Put, ServerInv

LEMMA KeepServes ==
  ASSUME ServerInv, NEW t \in Text, Keep(t), UNCHANGED <<note, entries, deleted>>
  PROVE  Served
<1>1. conflicts \in Seq(Draft) /\ conflicts' = Append(conflicts, [text |-> t, open |-> TRUE])
  BY DEF Keep, ServerInv
<1>2. /\ conflicts' \in Seq(Draft) /\ DOMAIN conflicts \subseteq DOMAIN conflicts'
      /\ Aside(conflicts') = Aside(conflicts) \cup {t}
  BY <1>1, DraftKept
<1> QED
  BY <1>2 DEF ServerInv, Served, Moves, Keeps

LEMMA SaveNoteServes ==
  ASSUME Inv, NEW r, RequestOk(r), r.kind = "save", SaveNote(r.page, r.text, r.rev)
  PROVE  Served
<1>1. r.page \in Session /\ r.text \in Text
  BY DEF RequestOk, WriteRequest
<1>2. CASE UNCHANGED serverVars
  BY <1>2, Untouched DEF Inv
<1>3. CASE Keep(r.text) /\ UNCHANGED <<note, entries, deleted>>
  BY <1>1, <1>3, KeepServes DEF Inv
<1>4. CASE r.rev = note.rev /\ Put(r.page, r.text) /\ UNCHANGED <<conflicts, entries, deleted>>
  <2>1. note.text \in before[r.page]
    BY <1>4 DEF RequestOk
  <2>2. ServerInv' /\ Moves
    BY <1>1, <1>4, PutIs DEF Inv, ServerInv, Moves
  <2>3. Writes(r.page)
    BY <1>1, <1>4, <2>1, PutIs DEF Inv, Writes
  <2> QED
    BY <1>1, <2>2, <2>3 DEF Served
<1> QED
  BY <1>2, <1>3, <1>4 DEF SaveNote, serverVars

LEMMA ResolveServes ==
  ASSUME Inv, NEW r, RequestOk(r), ResolveConflict(r.page, r.id, r.choice, r.rev, r.text)
  PROVE  Served
<1>1. r.page \in Session /\ r.text \in Text /\ conflicts \in Seq(Draft) /\ note.text \in Text
  BY DEF RequestOk, WriteRequest, Inv, ServerInv
<1>2. CASE Keep(note.text) /\ UNCHANGED <<note, entries, deleted>>
  BY <1>1, <1>2, KeepServes DEF Inv
<1>3. CASE conflicts' = Decided(conflicts, r.id) /\ UNCHANGED <<note, entries, deleted>>
  BY <1>1, <1>3, DecidedIs DEF Inv, ServerInv, Served, Moves, Keeps
<1>4. CASE /\ Put(r.page, r.text) /\ UNCHANGED <<entries, deleted>>
           /\ conflicts' = Decided(IF note.rev # 0 /\ note.text # r.text
                                   THEN Append(conflicts, [text |-> note.text, open |-> TRUE])
                                   ELSE conflicts, r.id)
  <2>1. CASE note.rev # 0 /\ note.text # r.text
    <3> DEFINE c == Append(conflicts, [text |-> note.text, open |-> TRUE])
    <3>1. /\ c \in Seq(Draft) /\ DOMAIN conflicts \subseteq DOMAIN c
          /\ Aside(c) = Aside(conflicts) \cup {note.text}
      BY <1>1, DraftKept
    <3>2. conflicts' = Decided(c, r.id)
      BY <1>4, <2>1
    <3>3. /\ conflicts' \in Seq(Draft) /\ DOMAIN conflicts' = DOMAIN c
          /\ Aside(conflicts') = Aside(c)
      BY <3>1, <3>2, DecidedIs
    <3>4. ServerInv' /\ Moves
      BY <1>1, <1>4, <3>1, <3>3, PutIs DEF Inv, ServerInv, Moves
    <3>5. Writes(r.page)
      BY <1>1, <1>4, <3>1, <3>3, PutIs DEF Inv, Writes
    <3> QED
      BY <1>1, <3>4, <3>5 DEF Served
  <2>2. CASE ~(note.rev # 0 /\ note.text # r.text)
    <3>1. note.text \subseteq r.text
      BY <2>2 DEF Inv, ServerInv
    <3>2. conflicts' = Decided(conflicts, r.id)
      BY <1>4, <2>2
    <3>3. /\ conflicts' \in Seq(Draft) /\ DOMAIN conflicts' = DOMAIN conflicts
          /\ Aside(conflicts') = Aside(conflicts)
      BY <1>1, <3>2, DecidedIs
    <3>4. ServerInv' /\ Moves
      BY <1>1, <1>4, <3>3, PutIs DEF Inv, ServerInv, Moves
    <3>5. Writes(r.page)
      BY <1>1, <1>4, <3>1, <3>3, PutIs DEF Inv, Writes
    <3> QED
      BY <1>1, <3>4, <3>5 DEF Served
  <2> QED
    BY <2>1, <2>2
<1> QED
  BY <1>2, <1>3, <1>4 DEF ResolveConflict

LEMMA ServeServes ==
  ASSUME Inv, NEW r, RequestOk(r), Serve(r)
  PROVE  Served
BY SaveNoteServes, ResolveServes DEF Serve

LEMMA InsertServes ==
  ASSUME Inv, NEW s \in Session, NEW x \in Source, InsertBlock(s, x)
  PROVE  Served
<1>1. note.text \cup {x} \in Text /\ note.text \in Text
  BY DEF Text, Inv, ServerInv
<1>2. entries' \subseteq Source /\ UNCHANGED <<conflicts, deleted>>
  BY DEF InsertBlock, Inv, ServerInv
<1>3. CASE UNCHANGED note
  BY <1>2, <1>3 DEF Inv, ServerInv, Served, Moves, Keeps
<1>4. CASE Put(s, note.text \cup {x})
  <2>1. ServerInv' /\ Moves
    BY <1>1, <1>2, <1>4, PutIs DEF Inv, ServerInv, Moves
  <2>2. Writes(s)
    BY <1>1, <1>2, <1>4, PutIs DEF Inv, Writes
  <2> QED
    BY <2>1, <2>2 DEF Served
<1> QED
  BY <1>3, <1>4 DEF InsertBlock

LEMMA ToggleServes ==
  ASSUME Inv, NEW x \in Excerpt, ToggleAnnotation(x)
  PROVE  Served
BY DEF ToggleAnnotation, Inv, ServerInv, Served, Moves, Keeps

(***************************************************************************)
(* Steps of one page.  Whatever the server does meanwhile, and whatever    *)
(* another page gets to see, leaves the rest of the pages in order.        *)
(***************************************************************************)
Becomes(g, f, s, v) == g = [f EXCEPT ![s] = v]

LEMMA Itself ==
  ASSUME NEW S, NEW T, NEW f \in [S -> T], NEW s \in S
  PROVE  Becomes(f, f, s, f[s])
BY DEF Becomes

LEMMA CurrentStays ==
  ASSUME ServerInv, ServerInv', Moves, NEW r, NEW t, Current(r, t)
  PROVE  Current(r, t)'
BY DEF ServerInv, Moves, Current

LEMMA AnswerStays ==
  ASSUME ServerInv, ServerInv', Moves, NEW a, AnswerOk(a)
  PROVE  AnswerOk(a)'
BY CurrentStays DEF AnswerOk, AnswerShape, Moves

LEMMA PageStays ==
  ASSUME ServerInv, ServerInv', Moves, NEW s, NEW p, PageOk(s, p), before[s] \subseteq before'[s]
  PROVE  PageOk(s, p)'
BY CurrentStays DEF PageOk, Moves

LEMMA QueueStays ==
  ASSUME ServerInv, ServerInv', Moves, NEW p, NEW c, NEW a, NEW B, QueueOk(p, c, a, B),
         NEW C, B \subseteq C
  PROVE  QueueOk(p, c, a, C)'
BY AnswerStays DEF QueueOk

LEMMA InsertionStays ==
  ASSUME ServerInv, ServerInv', Moves, NEW i, InsertionOk(i)
  PROVE  InsertionOk(i)'
BY AnswerStays DEF InsertionOk

LEMMA RequestStays ==
  ASSUME ServerInv, ServerInv', Moves, NEW r, RequestOk(r),
         \A u \in Session : before[u] \subseteq before'[u]
  PROVE  RequestOk(r)'
<1>1. r.page \in Session /\ r.rev \in Nat
  BY DEF RequestOk, WriteRequest
<1> QED
  BY <1>1 DEF RequestOk, Moves, ServerInv

(* A page fits the texts that it has had. *)
Fits(p, B) ==
  /\ Current(p.base, p.confirmed) /\ Shows(p)
  /\ {p.text, p.confirmed} \cup p.unsure \subseteq B
  /\ p.open \subseteq DOMAIN conflicts

Grows == \A u \in Session : before[u] \subseteq before'[u]
Good == Inv' /\ Served /\ Grows

(* B, p, c, k, a, d: what becomes of the texts it has had, the page, its place
   in the queue, its decision, its answer and its read. *)
LEMMA SessionMoves ==
  ASSUME Inv, Served, Counted', NEW s \in Session,
         NEW B \in SUBSET Text, Becomes(before', before, s, B), before[s] \subseteq B,
         NEW p \in Page, Becomes(page', page, s, p), Fits(p, B)',
         NEW c, Becomes(pc', pc, s, c),
         NEW k \in Pick, Becomes(pick', pick, s, k),
         NEW a, Becomes(reply', reply, s, a), QueueOk(p, c, a, B)',
         NEW d, Becomes(read', read, s, d), AnswerOk(d)',
         \A r \in late' \ late : RequestOk(r)',
         \A i \in inserts' \ inserts : InsertionOk(i)'
  PROVE  Good
<1>1. c \in Pc /\ a \in Reply /\ d \in Reply
  BY DEF QueueOk, AnswerOk, AnswerShape
<1>2. page' \in [Session -> Page] /\ page'[s] = p /\ \A u \in Session \ {s} : page'[u] = page[u]
  BY <1>1 DEF Becomes, Inv, Typed
<1>3. pc' \in [Session -> Pc] /\ pc'[s] = c /\ \A u \in Session \ {s} : pc'[u] = pc[u]
  BY <1>1 DEF Becomes, Inv, Typed
<1>4. pick' \in [Session -> Pick]
  BY DEF Becomes, Inv, Typed
<1>5. reply' \in [Session -> Reply] /\ reply'[s] = a /\ \A u \in Session \ {s} : reply'[u] = reply[u]
  BY <1>1 DEF Becomes, Inv, Typed
<1>6. read' \in [Session -> Reply] /\ read'[s] = d /\ \A u \in Session \ {s} : read'[u] = read[u]
  BY <1>1 DEF Becomes, Inv, Typed
<1>7. /\ before' \in [Session -> SUBSET Text] /\ before'[s] = B
      /\ \A u \in Session \ {s} : before'[u] = before[u]
  BY DEF Becomes, Inv, Typed
<1>8. \A u \in Session : before[u] \subseteq before'[u]
  BY <1>7
<1>9. ServerInv /\ ServerInv' /\ Moves
  BY DEF Inv, Served
<1>10. ASSUME NEW u \in Session PROVE SessionOk(u)'
  <2>1. CASE u = s
    BY <2>1, <1>2, <1>3, <1>5, <1>6, <1>7
    DEF SessionOk, PageOk, Fits, QueueOk, AnswerOk, AnswerShape
  <2>2. CASE u # s
    <3>1. SessionOk(u)
      BY DEF Inv
    <3>2. PICK P, C, A, D, E : /\ P = page[u] /\ C = pc[u] /\ A = reply[u] /\ D = read[u]
                               /\ E = before[u]
      OBVIOUS
    <3>3. PageOk(u, P)' /\ QueueOk(P, C, A, E)' /\ AnswerOk(D)'
      BY <1>8, <1>9, <3>1, <3>2, PageStays, QueueStays, AnswerStays DEF SessionOk
    <3>4. /\ page'[u] = P /\ pc'[u] = C /\ reply'[u] = A /\ read'[u] = D
          /\ before'[u] = E
      BY <2>2, <3>2, <1>2, <1>3, <1>5, <1>6, <1>7
    <3> QED
      BY <3>3, <3>4 DEF SessionOk, PageOk, QueueOk, AnswerOk, AnswerShape
  <2> QED
    BY <2>1, <2>2
<1>11. \A r \in late' : RequestOk(r)'
  BY <1>8, <1>9, RequestStays DEF Inv
<1>12. \A i \in inserts' : InsertionOk(i)'
  BY <1>9, InsertionStays DEF Inv
<1> QED
  BY <1>2, <1>3, <1>4, <1>5, <1>6, <1>7, <1>8, <1>9, <1>10, <1>11, <1>12 DEF Good, Grows, Inv, Typed

(***************************************************************************)
(* What a page takes over from an answer.                                  *)
(***************************************************************************)
LEMMA PageOf ==
  ASSUME Inv, NEW s \in Session
  PROVE  /\ page[s] \in Page /\ pc[s] \in Pc /\ pick[s] \in Pick /\ before[s] \in SUBSET Text
         /\ SessionOk(s) /\ AnswerOk(reply[s]) /\ AnswerOk(read[s])
         /\ Fits(page[s], before[s])
<1>1. SessionOk(s)
  BY DEF Inv
<1> QED
  BY <1>1 DEF Inv, Typed, SessionOk, PageOk, QueueOk, Fits

LEMMA FitsStays ==
  ASSUME Inv, Served, NEW p, NEW B, Fits(p, B), NEW C, B \subseteq C
  PROVE  Fits(p, C)'
<1>1. Current(p.base, p.confirmed)'
  BY CurrentStays DEF Inv, Served, Fits
<1> QED
  BY <1>1 DEF Fits, Served, Moves

LEMMA KnownIs ==
  ASSUME Inv, NEW s \in Session, NEW a, AnswerShape(a)
  PROVE  Known(s, a) \subseteq DOMAIN conflicts /\ Known(s, a) \in SUBSET Nat
<1>1. page[s].open \subseteq DOMAIN conflicts /\ page[s].open \in SUBSET Nat
  BY PageOf DEF Fits, Page
<1> QED
  BY <1>1 DEF Known, AnswerShape, Reply

LEMMA ConfirmedIs ==
  ASSUME Inv, NEW s \in Session, NEW a, AnswerShape(a), NEW replace \in BOOLEAN
  PROVE  LET q == Confirmed(s, a, replace) IN
         /\ q \in Page /\ q.base = a.rev /\ q.confirmed = a.text
         /\ q.text = (IF replace THEN a.text ELSE page[s].text)
         /\ q.unsure = {} /\ q.open \subseteq DOMAIN conflicts /\ q.rev = a.rev
<1>1. a.rev \in Nat /\ a.text \in Text
  BY DEF AnswerShape, Reply
<1>2. page[s] \in Page /\ NoConflict \in [id : Nat, rev : Nat]
  BY DEF Inv, Typed, NoConflict
<1>3. Known(s, a) \subseteq DOMAIN conflicts /\ Known(s, a) \in SUBSET Nat
  BY KnownIs
<1>4. page[s].text \in Text
  BY <1>2 DEF Page
<1> QED
  BY <1>1, <1>2, <1>3, <1>4 DEF Confirmed, Page

LEMMA DraftOfIs ==
  ASSUME Inv, NEW s \in Session, NEW a, AnswerShape(a)
  PROVE  DraftOf(s, a) \in Nat
<1> DEFINE same == {i \in a.open : conflicts[i].text = page[s].text}
<1>1. a.open \subseteq Nat
  BY DEF AnswerShape, Reply
<1>2. same # {} => (CHOOSE i \in same : TRUE) \in same
  OBVIOUS
<1> QED
  BY <1>1, <1>2 DEF DraftOf

LEMMA InConflictIs ==
  ASSUME Inv, NEW s \in Session, NEW a, AnswerShape(a)
  PROVE  LET q == InConflict(s, a) IN
         /\ q \in Page /\ q.base = page[s].base /\ q.confirmed = page[s].confirmed
         /\ q.text = page[s].text /\ q.unsure = page[s].unsure
         /\ q.open \subseteq DOMAIN conflicts /\ q.shut
<1>1. a.rev \in Nat /\ DraftOf(s, a) \in Nat
  BY DraftOfIs DEF AnswerShape, Reply
<1>2. page[s] \in Page /\ [id |-> DraftOf(s, a), rev |-> a.rev] \in [id : Nat, rev : Nat]
  BY <1>1 DEF Inv, Typed
<1>3. Known(s, a) \subseteq DOMAIN conflicts /\ Known(s, a) \in SUBSET Nat
  BY KnownIs
<1> QED
  BY <1>1, <1>2, <1>3 DEF InConflict, Page

(* A page that takes an answer over: its base and the confirmed text are those
   of the answer, or stay. *)
Took(s, a, q) ==
  /\ q \in Page /\ q.open \subseteq DOMAIN conflicts /\ Shows(q)
  /\ \/ q.base = a.rev /\ q.confirmed = a.text
     \/ q.base = page[s].base /\ q.confirmed = page[s].confirmed
  /\ {q.text, q.confirmed} \cup q.unsure \subseteq before[s] \cup {q.text}

LEMMA TakesOver ==
  ASSUME Inv, NEW s \in Session, NEW a, AnswerShape(a)
  PROVE  /\ Took(s, a, Confirmed(s, a, TRUE))
         /\ a.text \in before[s] => Took(s, a, Confirmed(s, a, FALSE))
         /\ Took(s, a, InConflict(s, a))
<1>1. Fits(page[s], before[s])
  BY PageOf
<1>2. Took(s, a, Confirmed(s, a, TRUE))
  <2> DEFINE q == Confirmed(s, a, TRUE)
  <2>1. /\ q \in Page /\ q.base = a.rev /\ q.confirmed = a.text
        /\ q.text = (IF TRUE THEN a.text ELSE page[s].text)
        /\ q.unsure = {} /\ q.open \subseteq DOMAIN conflicts /\ q.rev = a.rev
    <3>1. TRUE \in BOOLEAN
      OBVIOUS
    <3> QED
      BY <3>1, ConfirmedIs, Zenon
  <2> QED
    BY <2>1 DEF Took, Shows
<1>3. ASSUME a.text \in before[s] PROVE Took(s, a, Confirmed(s, a, FALSE))
  <2> DEFINE q == Confirmed(s, a, FALSE)
  <2>1. /\ q \in Page /\ q.base = a.rev /\ q.confirmed = a.text
        /\ q.unsure = {} /\ q.open \subseteq DOMAIN conflicts /\ q.rev = a.rev
    <3>1. FALSE \in BOOLEAN
      OBVIOUS
    <3> QED
      BY <3>1, ConfirmedIs, Zenon
  <2> QED
    BY <1>3, <2>1 DEF Took, Shows
<1>4. Took(s, a, InConflict(s, a))
  BY <1>1, InConflictIs DEF Took, Fits, Shows
<1> QED
  BY <1>2, <1>3, <1>4

LEMMA AcceptedIs ==
  ASSUME Inv, NEW s \in Session, NEW a, AnswerShape(a)
  PROVE  Took(s, a, Accepted(s, a))
<1> DEFINE p == page[s]
           q == [p EXCEPT !.rev = a.rev, !.open = a.open]
<1> DEFINE same == ~p.shut /\ a.rev = p.base
<1>1. Fits(p, before[s]) /\ p \in Page
  BY PageOf
<1>2. ASSUME same PROVE Took(s, a, q)
  <2>1. a.rev \in Nat /\ a.open \in SUBSET Nat /\ a.open \subseteq DOMAIN conflicts
    BY DEF AnswerShape, Reply
  <2>2. /\ q \in Page /\ q.base = p.base /\ q.confirmed = p.confirmed /\ q.text = p.text
        /\ q.unsure = p.unsure /\ q.open = a.open /\ q.rev = a.rev
    BY <1>1, <2>1 DEF Page
  <2>3. Shows(q)
    BY <1>2, <2>2 DEF Shows
  <2> QED
    BY <1>1, <2>1, <2>2, <2>3 DEF Took, Fits
<1>3. a.text = p.text => a.text \in before[s]
  BY <1>1 DEF Fits
<1>4. \/ Accepted(s, a) \in {InConflict(s, a), Confirmed(s, a, TRUE)}
      \/ same /\ Accepted(s, a) = q
      \/ a.text = p.text /\ Accepted(s, a) = Confirmed(s, a, FALSE)
  BY DEF Accepted
<1> HIDE DEF p, q, same
<1> QED
  BY <1>2, <1>3, <1>4, TakesOver

(* The page is shown as the answer made it. *)
LEMMA Shown ==
  ASSUME Inv, Served, NEW s \in Session, NEW a, Current(a.rev, a.text)', NEW q, Took(s, a, q),
         NEW B, B = before[s] \cup {q.text}
  PROVE  Fits(q, B)' /\ B \in SUBSET Text /\ q \in Page /\ before[s] \subseteq B
<1>1. PICK b, t : b = page[s].base /\ t = page[s].confirmed
  OBVIOUS
<1>2. Current(b, t)'
  BY <1>1, PageOf, CurrentStays DEF Inv, Served, Fits
<1>3. Current(q.base, q.confirmed)'
  BY <1>1, <1>2 DEF Took, Current
<1>4. q \in Page /\ q.text \in Text /\ before[s] \in SUBSET Text
  BY PageOf DEF Took, Page
<1>5. q.open \subseteq DOMAIN conflicts'
  BY DEF Took, Served, Moves
<1> QED
  BY <1>3, <1>4, <1>5 DEF Fits, Took

(* What a page has, after a step of the server. *)
LEMMA Standing ==
  ASSUME Inv, Served, NEW s \in Session, NEW p, p = page[s], NEW B, B = before[s],
         NEW c, c = pc[s], NEW k, k = pick[s], NEW a, a = reply[s], NEW d, d = read[s]
  PROVE  /\ p \in Page /\ B \in SUBSET Text /\ k \in Pick /\ Fits(p, B)'
         /\ QueueOk(p, c, a, B)' /\ AnswerOk(a)' /\ AnswerOk(d)'
         /\ Becomes(page, page, s, p) /\ Becomes(before, before, s, B)
         /\ Becomes(pc, pc, s, c) /\ Becomes(pick, pick, s, k)
         /\ Becomes(reply, reply, s, a) /\ Becomes(read, read, s, d)
<1>1. /\ p \in Page /\ B \in SUBSET Text /\ k \in Pick /\ Fits(p, B)
      /\ AnswerOk(a) /\ AnswerOk(d) /\ QueueOk(p, c, a, B)
  BY PageOf DEF SessionOk
<1>2. Fits(p, B)'
  BY <1>1, FitsStays
<1>3. QueueOk(p, c, a, B)' /\ AnswerOk(a)' /\ AnswerOk(d)'
  BY <1>1, QueueStays, AnswerStays DEF Inv, Served
<1> QED
  BY <1>1, <1>2, <1>3, Itself DEF Inv, Typed

LEMMA BlankOk ==
  ASSUME ServerInv', NEW x \in {"none", "ok", "conflict", "limited", "asked", "written", "dropped"}
  PROVE  AnswerOk(Blank(x))' /\ Blank(x) \in Reply
BY DEF ServerInv, AnswerOk, AnswerShape, Current, Blank, Reply, Text

LEMMA AnswerIs ==
  ASSUME ServerInv', NEW x \in {"none", "ok", "conflict", "limited", "asked", "written", "dropped"},
         NEW a, a = Answer(x, note', conflicts')
  PROVE  AnswerOk(a)' /\ a \in Reply /\ a.text = note'.text /\ a.rev = note'.rev
<1>1. DOMAIN conflicts' \subseteq Nat
  BY LenProperties DEF ServerInv
<1>2. Open(conflicts') \subseteq DOMAIN conflicts'
  BY DEF Open
<1>3. a.open \in SUBSET Nat /\ a.code = x /\ a.text = note'.text /\ a.rev = note'.rev /\ a \in Reply
      /\ a.open = Open(conflicts')
  BY <1>1, <1>2 DEF Answer, Reply, ServerInv
<1> QED
  BY <1>2, <1>3 DEF AnswerOk, AnswerShape, Current, ServerInv

(***************************************************************************)
(* The actions, one by one.                                                *)
(***************************************************************************)
LEMMA LoadGood ==
  ASSUME Inv, NEW s \in Session, Load(s)
  PROVE  Good
<1>1. Served
  BY Untouched DEF Load, Inv
<1>2. PICK p, B, c, k, a, d : /\ p = page[s] /\ B = before[s] /\ c = pc[s] /\ k = pick[s]
                              /\ a = reply[s] /\ d = Blank("asked")
  OBVIOUS
<1>3. /\ p \in Page /\ B \in SUBSET Text /\ k \in Pick /\ Fits(p, B)' /\ QueueOk(p, c, a, B)'
      /\ Becomes(page', page, s, p) /\ Becomes(before', before, s, B)
      /\ Becomes(pc', pc, s, c) /\ Becomes(pick', pick, s, k) /\ Becomes(reply', reply, s, a)
  BY <1>1, <1>2, Standing DEF Load
<1>4. AnswerOk(d)' /\ Becomes(read', read, s, d)
  BY <1>1, <1>2, BlankOk DEF Load, Becomes, Served
<1>5. Counted'
  BY DEF Load, counters, Inv, Counted
<1>6. late' = late /\ inserts' = inserts /\ before[s] \subseteq B
  BY <1>2 DEF onTheWay, Load
<1> QED
  BY <1>1, <1>3, <1>4, <1>5, <1>6, SessionMoves

LEMMA AnswerReadGood ==
  ASSUME Inv, NEW s \in Session, AnswerRead(s)
  PROVE  Good
<1>1. Served /\ note' = note /\ conflicts' = conflicts
  BY Untouched DEF AnswerRead, Inv, serverVars
<1>2. PICK p, B, c, k, a, d : /\ p = page[s] /\ B = before[s] /\ c = pc[s] /\ k = pick[s]
                              /\ a = reply[s] /\ d = Answer("ok", note', conflicts')
  OBVIOUS
<1>3. /\ p \in Page /\ B \in SUBSET Text /\ k \in Pick /\ Fits(p, B)' /\ QueueOk(p, c, a, B)'
      /\ Becomes(page', page, s, p) /\ Becomes(before', before, s, B)
      /\ Becomes(pc', pc, s, c) /\ Becomes(pick', pick, s, k) /\ Becomes(reply', reply, s, a)
  BY <1>1, <1>2, Standing DEF AnswerRead
<1>4. AnswerOk(d)'
  BY <1>1, <1>2, AnswerIs DEF Served
<1>5. Becomes(read', read, s, d)
  BY <1>1, <1>2 DEF AnswerRead, Becomes
<1>6. Counted'
  BY DEF AnswerRead, counters, Inv, Counted
<1>7. late' = late /\ inserts' = inserts /\ before[s] \subseteq B
  BY <1>2 DEF onTheWay, AnswerRead
<1> QED
  BY <1>1, <1>3, <1>4, <1>5, <1>6, <1>7, SessionMoves

(* An answer that a page takes over was true when it was given. *)
LEMMA TakenOver ==
  ASSUME Inv, Served, NEW s \in Session, NEW a, AnswerOk(a), NEW q, Took(s, a, q),
         NEW B, B = before[s] \cup {q.text}
  PROVE  Fits(q, B)' /\ B \in SUBSET Text /\ q \in Page /\ before[s] \subseteq B
<1>1. Current(a.rev, a.text)'
  BY CurrentStays DEF AnswerOk, Inv, Served
<1> QED
  BY <1>1, Shown

LEMMA EndReadGood ==
  ASSUME Inv, NEW s \in Session, EndRead(s)
  PROVE  Good
<1>1. Served
  BY Untouched DEF EndRead, Inv
<1>2. PICK p, B, c, k, a, d : /\ p = page[s] /\ B = before[s] /\ c = pc[s] /\ k = pick[s]
                              /\ a = reply[s] /\ d = read[s]
  OBVIOUS
<1>3. /\ p \in Page /\ B \in SUBSET Text /\ k \in Pick /\ Fits(p, B)' /\ QueueOk(p, c, a, B)'
      /\ Becomes(page, page, s, p) /\ Becomes(before, before, s, B)
      /\ Becomes(pc', pc, s, c) /\ Becomes(pick', pick, s, k) /\ Becomes(reply', reply, s, a)
  BY <1>1, <1>2, Standing DEF EndRead
<1>4. AnswerOk(Silent)' /\ Becomes(read', read, s, Silent)
  BY <1>1, BlankOk DEF EndRead, Becomes, Served, Silent
<1>5. Counted' /\ late' = late /\ inserts' = inserts
  BY DEF onTheWay, EndRead, counters, Inv, Counted
<1>6. CASE UNCHANGED <<page, before>>
  <2>1. Becomes(page', page, s, p) /\ Becomes(before', before, s, B) /\ before[s] \subseteq B
    BY <1>2, <1>3, <1>6
  <2> QED
    BY <1>1, <1>3, <1>4, <1>5, <2>1, SessionMoves
<1>7. CASE c = "idle" /\ Show(s, Accepted(s, d))
  <2>1. PICK q, C : q = Accepted(s, d) /\ C = before[s] \cup {q.text}
    OBVIOUS
  <2>2. AnswerOk(d) /\ AnswerShape(d)
    BY <1>2, PageOf DEF AnswerOk
  <2>3. Took(s, d, q)
    BY <2>1, <2>2, AcceptedIs
  <2>4. Fits(q, C)' /\ C \in SUBSET Text /\ q \in Page /\ before[s] \subseteq C
    BY <1>1, <2>1, <2>2, <2>3, TakenOver
  <2>5. Becomes(page', page, s, q) /\ Becomes(before', before, s, C)
    BY <1>7, <2>1 DEF Show, Becomes
  <2>6. QueueOk(q, c, a, C)'
    BY <1>3, <1>7 DEF QueueOk
  <2> QED
    BY <1>1, <1>3, <1>4, <1>5, <2>4, <2>5, <2>6, SessionMoves
<1> QED
  BY <1>2, <1>6, <1>7 DEF EndRead, Busy

LEMMA EditGood ==
  ASSUME Inv, NEW s \in Session, Edit(s)
  PROVE  Good
<1>1. Served
  BY Untouched DEF Edit, Inv
<1>2. PICK p, B, c, k, a, d : /\ p = page[s] /\ B = before[s] /\ c = pc[s] /\ k = pick[s]
                              /\ a = reply[s] /\ d = read[s]
  OBVIOUS
<1>3. /\ p \in Page /\ B \in SUBSET Text /\ k \in Pick /\ Fits(p, B)' /\ QueueOk(p, c, a, B)'
      /\ AnswerOk(d)' /\ Becomes(pc', pc, s, c) /\ Becomes(reply', reply, s, a)
      /\ Becomes(read', read, s, d)
  BY <1>1, <1>2, Standing DEF Edit
<1>4. PICK t \in Text : Show(s, [p EXCEPT !.text = t])
  <2>1. PICK x \in Piece \cup p.text :
          Show(s, [p EXCEPT !.text = IF x \in p.text THEN p.text \ {x} ELSE p.text \cup {x}])
    BY <1>2 DEF Edit
  <2>2. p.text \in Text
    BY <1>3 DEF Page
  <2>3. (IF x \in p.text THEN p.text \ {x} ELSE p.text \cup {x}) \in Text
    BY <2>1, <2>2 DEF Text
  <2> QED
    BY <2>1, <2>3
<1>5. PICK q, C : q = [p EXCEPT !.text = t] /\ C = B \cup {t}
  OBVIOUS
<1>6. /\ q \in Page /\ q.text = t /\ q.base = p.base /\ q.confirmed = p.confirmed
      /\ q.unsure = p.unsure /\ q.open = p.open /\ q.rev = p.rev /\ q.shut = p.shut
  BY <1>3, <1>5 DEF Page
<1>7. C \in SUBSET Text /\ before[s] \subseteq C
  BY <1>2, <1>3, <1>5
<1>8. Fits(q, C)'
  BY <1>3, <1>5, <1>6 DEF Fits, Shows
<1>9. QueueOk(q, c, a, C)'
  BY <1>3, <1>5, <1>6 DEF QueueOk
<1>10. Becomes(page', page, s, q) /\ Becomes(before', before, s, C)
  BY <1>2, <1>4, <1>5, <1>6 DEF Show, Becomes
<1> DEFINE y == c \in {"keep", "fresh", "decide"}
<1>11. PICK j : j = [k EXCEPT !.typed = y]
  OBVIOUS
<1>12. j \in Pick
  <2>1. y \in BOOLEAN
    OBVIOUS
  <2> HIDE DEF y
  <2> QED
    BY <1>3, <1>11, <2>1 DEF Pick
<1>13. Becomes(pick', pick, s, j)
  BY <1>2, <1>11 DEF Edit, Becomes
<1>14. Counted' /\ late' = late /\ inserts' = inserts
  BY DEF onTheWay, Edit, Inv, Counted
<1> QED
  BY <1>1, <1>3, <1>7, <1>6, <1>8, <1>9, <1>10, <1>12, <1>13, <1>14, SessionMoves

LEMMA DiscardGood ==
  ASSUME Inv, NEW s \in Session, Discard(s)
  PROVE  Good
<1>1. Served
  BY Untouched DEF Discard, Inv
<1>2. PICK p, B, c, k, a, d : /\ p = page[s] /\ B = before[s] /\ c = pc[s] /\ k = pick[s]
                              /\ a = reply[s] /\ d = read[s]
  OBVIOUS
<1>3. /\ p \in Page /\ B \in SUBSET Text /\ k \in Pick /\ Fits(p, B)' /\ QueueOk(p, c, a, B)'
      /\ AnswerOk(d)' /\ Becomes(pc', pc, s, c) /\ Becomes(pick', pick, s, k)
      /\ Becomes(reply', reply, s, a) /\ Becomes(read', read, s, d)
  BY <1>1, <1>2, Standing DEF Discard
<1>4. PICK q, C : /\ q = [p EXCEPT !.base = p.rev, !.text = p.confirmed, !.unsure = {}]
                  /\ C = B \cup {q.text}
  OBVIOUS
<1>5. p.rev = p.base
  BY <1>2, <1>3 DEF Discard, Fits, Shows
<1>6. /\ q \in Page /\ q.base = p.base /\ q.rev = p.rev /\ q.confirmed = p.confirmed
      /\ q.text = p.confirmed /\ q.unsure = {} /\ q.open = p.open /\ q.shut = p.shut
  BY <1>3, <1>4, <1>5 DEF Page
<1>7. Fits(q, C)' /\ C \in SUBSET Text /\ before[s] \subseteq C
  <2>1. C \in SUBSET Text /\ before[s] \subseteq C
    BY <1>2, <1>3, <1>4, <1>6 DEF Page
  <2>2. Fits(q, C)'
    BY <1>3, <1>4, <1>5, <1>6 DEF Fits, Shows
  <2> QED
    BY <2>1, <2>2
<1>8. QueueOk(q, c, a, C)'
  BY <1>2, <1>3 DEF QueueOk, Discard, Busy
<1>9. Becomes(page', page, s, q) /\ Becomes(before', before, s, C)
  BY <1>2, <1>4 DEF Discard, Show, Becomes
<1>10. Counted' /\ late' = late /\ inserts' = inserts
  BY DEF onTheWay, Discard, counters, Inv, Counted
<1> QED
  BY <1>1, <1>3, <1>6, <1>7, <1>8, <1>9, <1>10, SessionMoves

LEMMA InsertGood ==
  ASSUME Inv, NEW s \in Session, NEW x \in Source, Insert(s, x)
  PROVE  Good
<1>1. Served
  BY InsertServes DEF Insert
<1>2. PICK p, B, c, k, a, d : /\ p = page[s] /\ B = before[s] /\ c = pc[s] /\ k = pick[s]
                              /\ a = reply[s] /\ d = read[s]
  OBVIOUS
<1>3. /\ p \in Page /\ B \in SUBSET Text /\ k \in Pick /\ Fits(p, B)' /\ QueueOk(p, c, a, B)'
      /\ AnswerOk(d)' /\ Becomes(page', page, s, p) /\ Becomes(before', before, s, B)
      /\ Becomes(pc', pc, s, c) /\ Becomes(pick', pick, s, k) /\ Becomes(reply', reply, s, a)
      /\ Becomes(read', read, s, d)
  BY <1>1, <1>2, Standing DEF Insert
<1>4. Counted' /\ late' = late /\ before[s] \subseteq B
  BY <1>2 DEF Insert, Inv, Counted
<1>5. \A i \in inserts' \ inserts : InsertionOk(i)'
  <2>1. PICK w : w = Blank("written")
    OBVIOUS
  <2>2. AnswerOk(w)' /\ w \in Reply
    BY <1>1, <2>1, BlankOk DEF Served
  <2>3. [page |-> s, answer |-> w] \in Insertion
    BY <2>2 DEF Insertion
  <2>4. \A i \in inserts' \ inserts : i = [page |-> s, answer |-> w]
    BY <2>1 DEF Insert
  <2> QED
    BY <2>2, <2>3, <2>4 DEF InsertionOk
<1> QED
  BY <1>1, <1>3, <1>4, <1>5, SessionMoves

LEMMA AnswerInsertGood ==
  ASSUME Inv, NEW i \in inserts, AnswerInsert(i)
  PROVE  Good
<1>1. Served /\ note' = note /\ conflicts' = conflicts
  BY Untouched DEF AnswerInsert, Inv, serverVars
<1>2. PICK s \in Session : TRUE
  OBVIOUS
<1>3. PICK p, B, c, k, a, d : /\ p = page[s] /\ B = before[s] /\ c = pc[s] /\ k = pick[s]
                              /\ a = reply[s] /\ d = read[s]
  OBVIOUS
<1>4. /\ p \in Page /\ B \in SUBSET Text /\ k \in Pick /\ Fits(p, B)' /\ QueueOk(p, c, a, B)'
      /\ AnswerOk(d)' /\ Becomes(page', page, s, p) /\ Becomes(before', before, s, B)
      /\ Becomes(pc', pc, s, c) /\ Becomes(pick', pick, s, k) /\ Becomes(reply', reply, s, a)
      /\ Becomes(read', read, s, d)
  BY <1>1, <1>3, Standing DEF AnswerInsert
<1>5. Counted' /\ late' = late /\ before[s] \subseteq B
  BY <1>3 DEF AnswerInsert, counters, Inv, Counted
<1>6. \A j \in inserts' \ inserts : InsertionOk(j)'
  <2>1. PICK b : b = Answer("ok", note', conflicts')
    OBVIOUS
  <2>2. AnswerOk(b)' /\ b \in Reply
    BY <1>1, <2>1, AnswerIs DEF Served
  <2>3. i \in Insertion
    BY DEF Inv, InsertionOk
  <2>4. PICK j : j = [i EXCEPT !.answer = b]
    OBVIOUS
  <2>5. j \in Insertion /\ j.answer = b
    BY <2>2, <2>3, <2>4 DEF Insertion
  <2>6. \A h \in inserts' \ inserts : h = j
    BY <1>1, <2>1, <2>4 DEF AnswerInsert
  <2> QED
    BY <2>2, <2>5, <2>6 DEF InsertionOk
<1> QED
  BY <1>1, <1>4, <1>5, <1>6, SessionMoves

LEMMA TakeInsertGood ==
  ASSUME Inv, NEW i \in inserts, TakeInsert(i)
  PROVE  Good
<1>1. Served
  BY Untouched DEF TakeInsert, Inv
<1>2. PICK s \in Session : s = i.page
  BY DEF Inv, InsertionOk, Insertion
<1>3. PICK p, B, c, k, a, d : /\ p = page[s] /\ B = before[s] /\ c = pc[s] /\ k = pick[s]
                              /\ a = reply[s] /\ d = read[s]
  OBVIOUS
<1>4. /\ p \in Page /\ B \in SUBSET Text /\ k \in Pick /\ Fits(p, B)' /\ QueueOk(p, c, a, B)'
      /\ AnswerOk(d)' /\ Becomes(page, page, s, p) /\ Becomes(before, before, s, B)
      /\ Becomes(pc', pc, s, c) /\ Becomes(pick', pick, s, k) /\ Becomes(reply', reply, s, a)
      /\ Becomes(read, read, s, d)
  BY <1>1, <1>3, Standing DEF TakeInsert
<1>5. Counted' /\ late' = late /\ inserts' \subseteq inserts
  BY DEF TakeInsert, counters, Inv, Counted
<1>6. CASE UNCHANGED <<page, before, read>>
  <2>1. /\ Becomes(page', page, s, p) /\ Becomes(before', before, s, B) /\ before[s] \subseteq B
        /\ Becomes(read', read, s, d)
    BY <1>3, <1>4, <1>6
  <2> QED
    BY <1>1, <1>4, <1>5, <2>1, SessionMoves
<1>7. CASE c = "idle" /\ DropRead(s) /\ Show(s, Accepted(s, i.answer))
  <2>1. PICK b : b = i.answer
    OBVIOUS
  <2>2. AnswerOk(b) /\ AnswerShape(b)
    BY <2>1 DEF Inv, InsertionOk, AnswerOk
  <2>3. PICK q, C : q = Accepted(s, b) /\ C = before[s] \cup {q.text}
    OBVIOUS
  <2>4. Took(s, b, q)
    BY <2>2, <2>3, AcceptedIs
  <2>5. Fits(q, C)' /\ C \in SUBSET Text /\ q \in Page /\ before[s] \subseteq C
    BY <1>1, <2>2, <2>3, <2>4, TakenOver
  <2>6. Becomes(page', page, s, q) /\ Becomes(before', before, s, C)
    BY <1>7, <2>1, <2>3 DEF Show, Becomes
  <2>7. QueueOk(q, c, a, C)'
    BY <1>4, <1>7 DEF QueueOk
  <2>8. PICK e : e = IF d = Silent THEN d ELSE Dropped
    OBVIOUS
  <2>9. AnswerOk(e)' /\ Becomes(read', read, s, e)
    <3>1. AnswerOk(Dropped)'
      BY <1>1, BlankOk DEF Served, Dropped
    <3> QED
      BY <1>3, <1>4, <1>7, <2>8, <3>1 DEF DropRead, Becomes
  <2> QED
    BY <1>1, <1>4, <1>5, <2>5, <2>6, <2>7, <2>9, SessionMoves
<1> QED
  BY <1>2, <1>3, <1>6, <1>7 DEF TakeInsert, Busy

LEMMA DeleteOrRestoreGood ==
  ASSUME Inv, NEW x \in Excerpt, DeleteOrRestore(x)
  PROVE  Good
<1>1. Served
  BY ToggleServes DEF DeleteOrRestore
<1>2. PICK s \in Session : TRUE
  OBVIOUS
<1>3. PICK p, B, c, k, a, d : /\ p = page[s] /\ B = before[s] /\ c = pc[s] /\ k = pick[s]
                              /\ a = reply[s] /\ d = read[s]
  OBVIOUS
<1>4. /\ p \in Page /\ B \in SUBSET Text /\ k \in Pick /\ Fits(p, B)' /\ QueueOk(p, c, a, B)'
      /\ AnswerOk(d)' /\ Becomes(page', page, s, p) /\ Becomes(before', before, s, B)
      /\ Becomes(pc', pc, s, c) /\ Becomes(pick', pick, s, k) /\ Becomes(reply', reply, s, a)
      /\ Becomes(read', read, s, d)
  BY <1>1, <1>3, Standing DEF DeleteOrRestore
<1>5. Counted' /\ late' = late /\ inserts' = inserts /\ before[s] \subseteq B
  BY <1>3 DEF onTheWay, DeleteOrRestore, Inv, Counted
<1> QED
  BY <1>1, <1>4, <1>5, SessionMoves

(* What drops a read leaves silence or the mark of the dropped one. *)
LEMMA DropReadIs ==
  ASSUME Inv, Served, NEW s \in Session, DropRead(s)
  PROVE  \E d : AnswerOk(d)' /\ Becomes(read', read, s, d)
<1>1. PICK d : d = read[s]
  OBVIOUS
<1>2. PICK e : e = IF d = Silent THEN d ELSE Dropped
  OBVIOUS
<1>3. AnswerOk(Dropped)' /\ AnswerOk(Silent)'
  BY BlankOk DEF Served, Dropped, Silent
<1> QED
  BY <1>1, <1>2, <1>3 DEF DropRead, Becomes

LEMMA FlushGood ==
  ASSUME Inv, NEW s \in Session, Flush(s)
  PROVE  Good
<1>1. Served
  BY Untouched DEF Flush, Inv
<1>2. PICK p, B, c, k, a, r : /\ p = page[s] /\ B = before[s] /\ c = pc[s] /\ k = pick[s]
                              /\ a = reply[s] /\ r = read[s]
  OBVIOUS
<1>3. /\ p \in Page /\ B \in SUBSET Text /\ k \in Pick /\ Fits(p, B)' /\ QueueOk(p, c, a, B)'
      /\ AnswerOk(a)' /\ Becomes(page, page, s, p) /\ Becomes(before', before, s, B)
      /\ Becomes(pick', pick, s, k) /\ Becomes(reply', reply, s, a)
  BY <1>1, <1>2, Standing DEF Flush
<1>4. PICK d : AnswerOk(d)' /\ Becomes(read', read, s, d)
  BY <1>1, DropReadIs DEF Flush
<1>5. Counted' /\ late' = late /\ inserts' = inserts /\ before[s] \subseteq B
  BY <1>2 DEF onTheWay, Flush, counters, Inv, Counted
<1>6. a = Silent
  BY <1>2, PageOf DEF Flush, Busy, SessionOk, QueueOk
<1>7. CASE Goto(s, "check") /\ UNCHANGED page
  <2>1. Becomes(page', page, s, p) /\ Becomes(pc', pc, s, "check")
    BY <1>3, <1>7 DEF Goto, Becomes
  <2>2. QueueOk(p, "check", a, B)'
    BY <1>3 DEF QueueOk, Pc, Reads
  <2> QED
    BY <1>1, <1>3, <1>4, <1>5, <2>1, <2>2, SessionMoves
<1>8. CASE Goto(s, "save") /\ page' = [page EXCEPT ![s] = ToSave(s)]
  <2>1. PICK q : q = [p EXCEPT !.unsure = {p.text}]
    OBVIOUS
  <2>2. /\ q \in Page /\ q.text = p.text /\ q.base = p.base /\ q.confirmed = p.confirmed
        /\ q.unsure = {p.text} /\ q.open = p.open /\ q.rev = p.rev /\ q.shut = p.shut
    BY <1>3, <2>1 DEF Page
  <2>3. Becomes(page', page, s, q) /\ Becomes(pc', pc, s, "save")
    BY <1>2, <1>8, <2>1 DEF Goto, ToSave, Becomes
  <2>4. Fits(q, B)'
    BY <1>3, <2>2 DEF Fits, Shows
  <2>5. QueueOk(q, "save", a, B)'
    BY <1>3, <1>6, <2>2 DEF QueueOk, Pc, Silent, Blank
  <2> QED
    BY <1>1, <1>3, <1>4, <1>5, <2>2, <2>3, <2>4, <2>5, SessionMoves
<1> QED
  BY <1>7, <1>8 DEF Flush

LEMMA RetryGood ==
  ASSUME Inv, NEW s \in Session, Retry(s)
  PROVE  Good
<1>1. Served
  BY Untouched DEF Retry, Inv
<1>2. PICK p, B, c, k, a, r : /\ p = page[s] /\ B = before[s] /\ c = pc[s] /\ k = pick[s]
                              /\ a = reply[s] /\ r = read[s]
  OBVIOUS
<1>3. /\ p \in Page /\ B \in SUBSET Text /\ k \in Pick /\ Fits(p, B)' /\ QueueOk(p, c, a, B)'
      /\ AnswerOk(a)' /\ Becomes(before', before, s, B)
      /\ Becomes(pick', pick, s, k) /\ Becomes(reply', reply, s, a)
  BY <1>1, <1>2, Standing DEF Retry
<1>4. PICK d : AnswerOk(d)' /\ Becomes(read', read, s, d)
  BY <1>1, DropReadIs DEF Retry
<1>5. Counted' /\ late' = late /\ inserts' = inserts /\ before[s] \subseteq B
  BY <1>2 DEF onTheWay, Retry, Inv, Counted
<1>6. PICK q : q = [p EXCEPT !.unsure = {p.confirmed}]
  OBVIOUS
<1>7. /\ q \in Page /\ q.text = p.text /\ q.base = p.base /\ q.confirmed = p.confirmed
      /\ q.unsure = {p.confirmed} /\ q.open = p.open /\ q.rev = p.rev /\ q.shut = p.shut
  BY <1>3, <1>6 DEF Page
<1>8. Becomes(page', page, s, q) /\ Becomes(pc', pc, s, "check")
  BY <1>2, <1>6 DEF Retry, Goto, Becomes
<1>9. Fits(q, B)' /\ QueueOk(q, "check", a, B)'
  <2>1. Fits(q, B)'
    BY <1>3, <1>7 DEF Fits, Shows
  <2>2. QueueOk(q, "check", a, B)'
    BY <1>3 DEF QueueOk, Pc, Reads
  <2> QED
    BY <2>1, <2>2
<1> QED
  BY <1>1, <1>3, <1>4, <1>5, <1>7, <1>8, <1>9, SessionMoves

LEMMA NoPickIs == NoPick \in Pick
BY DEF NoPick, Pick, Text

LEMMA ChooseGood ==
  ASSUME Inv, NEW s \in Session, NEW choice \in {"current", "draft"}, NEW id \in Nat,
         NEW rev \in Nat, NEW t \in Text, Choose(s, choice, id, rev, t)
  PROVE  Good
<1>1. Served
  BY Untouched DEF Choose, Inv
<1>2. PICK p, B, c, k, a, r : /\ p = page[s] /\ B = before[s] /\ c = pc[s] /\ k = pick[s]
                              /\ a = reply[s] /\ r = read[s]
  OBVIOUS
<1>3. /\ p \in Page /\ B \in SUBSET Text /\ Fits(p, B)' /\ QueueOk(p, c, a, B)'
      /\ AnswerOk(a)' /\ Becomes(before', before, s, B) /\ Becomes(reply', reply, s, a)
  BY <1>1, <1>2, Standing DEF Choose
<1>4. PICK d : AnswerOk(d)' /\ Becomes(read', read, s, d)
  BY <1>1, DropReadIs DEF Choose
<1>5. Counted' /\ late' = late /\ inserts' = inserts /\ before[s] \subseteq B
  BY <1>2 DEF onTheWay, Choose, Inv, Counted
<1>6. PICK q, j : /\ q = [p EXCEPT !.shut = TRUE, !.conflict = [id |-> id, rev |-> rev]]
                  /\ j = [choice |-> choice, text |-> t, id |-> id, rev |-> rev, typed |-> FALSE]
  OBVIOUS
<1>7. /\ q \in Page /\ q.text = p.text /\ q.base = p.base /\ q.confirmed = p.confirmed
      /\ q.unsure = p.unsure /\ q.open = p.open /\ q.shut
  <2>1. [id |-> id, rev |-> rev] \in [id : Nat, rev : Nat]
    OBVIOUS
  <2> QED
    BY <1>3, <1>6, <2>1 DEF Page
<1>8. j \in Pick
  BY <1>6 DEF Pick
<1>9. PICK l : l = IF id = 0 THEN "keep" ELSE "decide"
  OBVIOUS
<1>10. /\ Becomes(page', page, s, q) /\ Becomes(pc', pc, s, l) /\ Becomes(pick', pick, s, j)
  BY <1>2, <1>6, <1>9 DEF Choose, Goto, Becomes
<1>11. Fits(q, B)'
  BY <1>3, <1>7 DEF Fits, Shows
<1>12. QueueOk(q, l, a, B)'
  BY <1>3, <1>9 DEF QueueOk, Pc
<1> QED
  BY <1>1, <1>3, <1>4, <1>5, <1>7, <1>8, <1>10, <1>11, <1>12, SessionMoves

LEMMA DecideGood ==
  ASSUME Inv, NEW s \in Session, Decide(s)
  PROVE  Good
<1>1. /\ page[s] \in Page /\ page[s].open \subseteq DOMAIN conflicts
      /\ conflicts \in Seq(Draft)
  BY PageOf DEF Fits, Inv, ServerInv
<1>2. PICK choice \in {"current", "draft"} :
        \/ Choose(s, choice, page[s].conflict.id, page[s].conflict.rev, page[s].text)
        \/ \E id \in page[s].open :
             Choose(s, choice, id, page[s].rev,
                    IF page[s].text = page[s].confirmed THEN conflicts[id].text ELSE page[s].text)
  BY DEF Decide
<1>3. CASE Choose(s, choice, page[s].conflict.id, page[s].conflict.rev, page[s].text)
  <2>1. /\ page[s].conflict.id \in Nat /\ page[s].conflict.rev \in Nat /\ page[s].text \in Text
    BY <1>1 DEF Page
  <2> QED
    BY <1>3, <2>1, ChooseGood
<1>4. ASSUME NEW id \in page[s].open,
             Choose(s, choice, id, page[s].rev,
                    IF page[s].text = page[s].confirmed THEN conflicts[id].text ELSE page[s].text)
      PROVE  Good
  <2>1. /\ id \in Nat /\ page[s].rev \in Nat /\ page[s].text \in Text
    BY <1>1 DEF Page
  <2>2. conflicts[id].text \in Text
    <3>1. conflicts \in [1..Len(conflicts) -> Draft] /\ id \in 1..Len(conflicts)
      BY <1>1, LenProperties
    <3> QED
      BY <3>1 DEF Draft
  <2>3. PICK t \in Text : t = IF page[s].text = page[s].confirmed THEN conflicts[id].text
                              ELSE page[s].text
    BY <2>1, <2>2
  <2>4. Choose(s, choice, id, page[s].rev, t)
    BY <1>4, <2>3
  <2> QED
    BY <2>1, <2>4, ChooseGood
<1> QED
  BY <1>2, <1>3, <1>4

(***************************************************************************)
(* A request carries the base of its page.                                 *)
(***************************************************************************)
LEMMA RequestIs ==
  ASSUME Inv, NEW s \in Session, pc[s] \notin Reads \cup {"idle"}
  PROVE  /\ RequestOk(Request(s)) /\ Request(s).page = s
         /\ pc[s] = "save" => Request(s).kind = "save" /\ Request(s).text \in before[s]
<1> DEFINE r == Request(s)
<1>1. /\ page[s] \in Page /\ pick[s] \in Pick /\ pc[s] \in {"save", "keep", "decide"}
      /\ Current(page[s].base, page[s].confirmed)
      /\ page[s].confirmed \in before[s] /\ page[s].unsure \subseteq before[s]
      /\ page[s].base \in Nat
      /\ pc[s] = "save" => page[s].unsure # {}
      /\ before[s] \subseteq Text
  BY PageOf DEF SessionOk, QueueOk, Fits, Pc, Page
<1>2. CASE pc[s] = "decide"
  <2>1. /\ pick[s].id \in Nat /\ pick[s].rev \in Nat /\ pick[s].text \in Text
        /\ pick[s].choice \in {"current", "draft"}
    BY <1>1 DEF Pick
  <2>2. r = [kind |-> "decide", page |-> s, id |-> pick[s].id, choice |-> pick[s].choice,
             rev |-> pick[s].rev, text |-> pick[s].text]
    BY <1>2 DEF Request
  <2> HIDE DEF r
  <2> QED
    BY <1>2, <2>1, <2>2 DEF RequestOk, WriteRequest, r
<1>3. CASE pc[s] \in {"save", "keep"}
  <2>1. PICK t : t = IF pc[s] = "keep" THEN pick[s].text ELSE CHOOSE u \in page[s].unsure : TRUE
    OBVIOUS
  <2>2. t \in Text /\ (pc[s] = "save" => t \in before[s])
    <3>1. CASE pc[s] = "keep"
      BY <1>1, <2>1, <3>1 DEF Pick
    <3>2. CASE pc[s] = "save"
      <4>1. (CHOOSE u \in page[s].unsure : TRUE) \in page[s].unsure
        BY <1>1, <3>2
      <4> QED
        BY <1>1, <2>1, <3>2, <4>1
    <3> QED
      BY <1>3, <3>1, <3>2
  <2>3. r = [kind |-> "save", page |-> s, id |-> 0, choice |-> "none", rev |-> page[s].base,
             text |-> t]
    BY <1>3, <2>1 DEF Request
  <2>4. r.kind = "save" /\ r.page = s /\ r.rev = page[s].base /\ r.text = t /\ r \in WriteRequest
    BY <1>1, <2>2, <2>3 DEF WriteRequest
  <2> HIDE DEF r
  <2>5. RequestOk(r)
    BY <1>1, <2>4 DEF RequestOk, Current
  <2> QED
    BY <2>2, <2>4, <2>5 DEF r
<1> QED
  BY <1>1, <1>2, <1>3

LEMMA SavedIs ==
  ASSUME Inv, NEW r, RequestOk(r), r.kind = "save", Serve(r), Code(r) = "ok"
  PROVE  note'.text = r.text
<1>1. r.page \in Session /\ r.text \in Text /\ SaveNote(r.page, r.text, r.rev)
  BY DEF RequestOk, WriteRequest, Serve
<1>2. r.rev = note.rev \/ (note.rev # 0 /\ r.text = note.text)
  BY DEF Code, SaveCode
<1>3. CASE note.rev # 0 /\ r.text = note.text
  BY <1>1, <1>3 DEF SaveNote
<1>4. CASE ~(note.rev # 0 /\ r.text = note.text)
  <2>1. Put(r.page, r.text)
    BY <1>1, <1>2, <1>4 DEF SaveNote
  <2> QED
    BY <1>1, <2>1, PutIs DEF Inv
<1> QED
  BY <1>3, <1>4

LEMMA HandleGood ==
  ASSUME Inv, NEW s \in Session, Handle(s)
  PROVE  Good
<1>1. PICK p, B, c, k, o, d : /\ p = page[s] /\ B = before[s] /\ c = pc[s] /\ k = pick[s]
                              /\ o = reply[s] /\ d = read[s]
  OBVIOUS
<1>2. Counted' /\ late' = late /\ inserts' = inserts /\ before[s] \subseteq B /\ reply \in [Session -> Reply]
  BY <1>1 DEF onTheWay, Handle, counters, Inv, Counted, Typed
<1>3. CASE c \in Reads
  <2>1. Served /\ note' = note /\ conflicts' = conflicts
    BY <1>1, <1>3, Untouched DEF Handle, Inv, serverVars
  <2>2. /\ p \in Page /\ B \in SUBSET Text /\ k \in Pick /\ Fits(p, B)' /\ QueueOk(p, c, o, B)'
        /\ Becomes(page', page, s, p) /\ Becomes(before', before, s, B)
        /\ Becomes(pc', pc, s, c) /\ Becomes(pick', pick, s, k)
        /\ AnswerOk(d)' /\ Becomes(read', read, s, d)
    BY <1>1, <2>1, Standing DEF Handle
  <2>3. PICK a : a = Answer("ok", note', conflicts')
    OBVIOUS
  <2>4. AnswerOk(a)'
    BY <2>1, <2>3, AnswerIs DEF Served
  <2>5. Becomes(reply', reply, s, a)
    BY <1>1, <1>3, <2>1, <2>3 DEF Handle, Becomes
  <2>6. QueueOk(p, c, a, B)'
    BY <1>3, <2>2, <2>4 DEF QueueOk, Reads
  <2> QED
    BY <1>2, <2>1, <2>2, <2>4, <2>5, <2>6, SessionMoves
<1>4. CASE c \notin Reads
  <2>1. c \notin Reads \cup {"idle"} /\ Serve(Request(s))
    BY <1>1, <1>4 DEF Handle, Busy
  <2>2. PICK r : r = Request(s)
    OBVIOUS
  <2>3. RequestOk(r) /\ Serve(r) /\ (c = "save" => r.kind = "save" /\ r.text \in B)
    BY <1>1, <2>1, <2>2, RequestIs
  <2>4. Served
    BY <2>3, ServeServes
  <2>5. /\ p \in Page /\ B \in SUBSET Text /\ k \in Pick /\ Fits(p, B)' /\ QueueOk(p, c, o, B)'
        /\ Becomes(page', page, s, p) /\ Becomes(before', before, s, B)
        /\ Becomes(pc', pc, s, c) /\ Becomes(pick', pick, s, k)
        /\ AnswerOk(d)' /\ Becomes(read', read, s, d)
    BY <1>1, <2>4, Standing DEF Handle
  <2>6. PICK x \in {"ok", "conflict"} : x = Code(r)
    BY DEF Code, SaveCode
  <2>7. PICK a : a = Answer(x, note', conflicts')
    OBVIOUS
  <2>8. AnswerOk(a)' /\ a.text = note'.text
    BY <2>4, <2>7, AnswerIs DEF Served
  <2>9. Becomes(reply', reply, s, a)
    BY <1>1, <1>4, <2>2, <2>6, <2>7 DEF Handle, Becomes
  <2>10. a.code = x
    BY <2>7 DEF Answer
  <2>11. c = "save" /\ a.code = "ok" => a.text \in B
    BY <2>3, <2>6, <2>8, <2>10, SavedIs
  <2>12. QueueOk(p, c, a, B)'
    BY <2>1, <2>5, <2>8, <2>11 DEF QueueOk
  <2> QED
    BY <1>2, <2>4, <2>5, <2>8, <2>9, <2>12, SessionMoves
<1> QED
  BY <1>3, <1>4

LEMMA LimitGood ==
  ASSUME Inv, NEW s \in Session, Limit(s)
  PROVE  Good
<1>1. Served
  BY Untouched DEF Limit, Inv
<1>2. PICK p, B, c, k, o, d : /\ p = page[s] /\ B = before[s] /\ c = pc[s] /\ k = pick[s]
                              /\ o = reply[s] /\ d = read[s]
  OBVIOUS
<1>3. /\ p \in Page /\ B \in SUBSET Text /\ k \in Pick /\ Fits(p, B)' /\ QueueOk(p, c, o, B)'
      /\ Becomes(page', page, s, p) /\ Becomes(before', before, s, B)
      /\ Becomes(pc', pc, s, c) /\ Becomes(pick', pick, s, k)
      /\ AnswerOk(d)' /\ Becomes(read', read, s, d)
  BY <1>1, <1>2, Standing DEF Limit
<1>4. PICK a : a = Blank("limited")
  OBVIOUS
<1>5. AnswerOk(a)' /\ Becomes(reply', reply, s, a) /\ a.code = "limited"
  BY <1>1, <1>4, BlankOk DEF Served, Limit, Becomes, Blank
<1>6. QueueOk(p, c, a, B)'
  BY <1>2, <1>3, <1>5 DEF QueueOk, Limit
<1>7. Counted' /\ late' = late /\ inserts' = inserts /\ before[s] \subseteq B
  BY <1>2 DEF onTheWay, Limit, Inv, Counted
<1> QED
  BY <1>1, <1>3, <1>5, <1>6, <1>7, SessionMoves

LEMMA FailGood ==
  ASSUME Inv, NEW s \in Session, Fail(s)
  PROVE  Good
<1>1. Served
  BY Untouched DEF Fail, Inv
<1>2. PICK p, B, c, k, o, d : /\ p = page[s] /\ B = before[s] /\ c = pc[s] /\ k = pick[s]
                              /\ o = reply[s] /\ d = read[s]
  OBVIOUS
<1>3. /\ p \in Page /\ B \in SUBSET Text /\ Fits(p, B)' /\ QueueOk(p, c, o, B)'
      /\ Becomes(page', page, s, p) /\ Becomes(before', before, s, B)
      /\ AnswerOk(d)' /\ Becomes(read', read, s, d)
  BY <1>1, <1>2, Standing DEF Fail
<1>4. PICK l : l = IF c \in {"save", "check"} THEN "recheck" ELSE "idle"
  OBVIOUS
<1>5. /\ Becomes(pc', pc, s, l) /\ Becomes(pick', pick, s, NoPick) /\ Becomes(reply', reply, s, Silent)
  BY <1>2, <1>4 DEF Fail, Goto, Forget, Silence, Becomes
<1>6. AnswerOk(Silent)'
  BY <1>1, BlankOk DEF Served, Silent
<1>7. QueueOk(p, l, Silent, B)'
  BY <1>3, <1>4, <1>6 DEF QueueOk, Pc, Reads
<1>8. Counted' /\ inserts' = inserts /\ before[s] \subseteq B
  BY <1>2 DEF Fail, Inv, Counted
<1>9. ASSUME NEW r \in late' \ late PROVE RequestOk(r)'
  <2>1. r = Request(s) /\ c \notin Reads \cup {"idle"}
    BY <1>2, <1>9 DEF Fail, Busy
  <2>2. RequestOk(r)
    BY <1>2, <2>1, RequestIs
  <2> QED
    BY <1>1, <2>2, RequestStays DEF Inv, Served, Fail
<1> QED
  BY <1>1, <1>3, <1>5, <1>6, <1>7, <1>8, <1>9, NoPickIs, SessionMoves

LEMMA ArriveLateGood ==
  ASSUME Inv, NEW r \in late, ArriveLate(r)
  PROVE  Good
<1>1. Served
  BY ServeServes DEF ArriveLate, Inv
<1>2. PICK s \in Session : TRUE
  OBVIOUS
<1>3. PICK p, B, c, k, a, d : /\ p = page[s] /\ B = before[s] /\ c = pc[s] /\ k = pick[s]
                              /\ a = reply[s] /\ d = read[s]
  OBVIOUS
<1>4. /\ p \in Page /\ B \in SUBSET Text /\ k \in Pick /\ Fits(p, B)' /\ QueueOk(p, c, a, B)'
      /\ AnswerOk(d)' /\ Becomes(page', page, s, p) /\ Becomes(before', before, s, B)
      /\ Becomes(pc', pc, s, c) /\ Becomes(pick', pick, s, k) /\ Becomes(reply', reply, s, a)
      /\ Becomes(read', read, s, d)
  BY <1>1, <1>3, Standing DEF ArriveLate
<1>5. Counted' /\ late' \ late = {} /\ inserts' = inserts /\ before[s] \subseteq B
  BY <1>3 DEF ArriveLate, counters, Inv, Counted
<1> QED
  BY <1>1, <1>4, <1>5, SessionMoves

(***************************************************************************)
(* The answers.                                                            *)
(***************************************************************************)
Turns(s, q, B) ==
  /\ q \in Page /\ B \in SUBSET Text /\ before[s] \subseteq B
  /\ Becomes(page', page, s, q) /\ Becomes(before', before, s, B)
  /\ Fits(q, B)'

Arrives(s) ==
  /\ reply[s] # Silent /\ Silence(s)
  /\ UNCHANGED <<serverVars, read, onTheWay, counters>>

LEMMA ArrivesIs ==
  ASSUME Inv, NEW s \in Session, Arrives(s)
  PROVE  Served /\ AnswerOk(reply[s]) /\ AnswerShape(reply[s])
BY Untouched, PageOf DEF Arrives, Inv, AnswerOk

LEMMA Delivered ==
  ASSUME Inv, NEW s \in Session, Arrives(s), NEW q, NEW B, Turns(s, q, B),
         NEW l \in Pc, Becomes(pc', pc, s, l), l = "save" => q.unsure # {},
         NEW k \in Pick, Becomes(pick', pick, s, k)
  PROVE  Good
<1>1. Served
  BY ArrivesIs
<1>2. PICK d, c, a, p, C, m : /\ d = read[s] /\ c = pc[s] /\ a = reply[s] /\ p = page[s]
                              /\ C = before[s] /\ m = pick[s]
  OBVIOUS
<1>3. AnswerOk(d)' /\ Becomes(read', read, s, d)
  BY <1>1, <1>2, Standing DEF Arrives
<1>4. AnswerOk(Silent)' /\ Becomes(reply', reply, s, Silent)
  BY <1>1, BlankOk DEF Served, Silent, Arrives, Silence, Becomes
<1>5. QueueOk(q, l, Silent, B)'
  BY <1>4 DEF QueueOk, Silent, Blank
<1>6. Counted' /\ late' = late /\ inserts' = inserts
  BY DEF onTheWay, Arrives, counters, Inv, Counted
<1> QED
  BY <1>1, <1>3, <1>4, <1>5, <1>6, SessionMoves DEF Turns

LEMMA StaysThere ==
  ASSUME Inv, Served, NEW s \in Session, UNCHANGED <<page, before>>
  PROVE  \E q, B : Turns(s, q, B)
<1>1. PICK d, c, a, p, B, k : /\ d = read[s] /\ c = pc[s] /\ a = reply[s] /\ p = page[s]
                              /\ B = before[s] /\ k = pick[s]
  OBVIOUS
<1>2. /\ p \in Page /\ B \in SUBSET Text /\ Fits(p, B)'
      /\ Becomes(page', page, s, p) /\ Becomes(before', before, s, B)
  BY <1>1, Standing
<1>3. before[s] \subseteq B
  BY <1>1
<1> QED
  BY <1>2, <1>3 DEF Turns

LEMMA ShownTurns ==
  ASSUME Inv, Served, NEW s \in Session, NEW a, AnswerOk(a), NEW q, Took(s, a, q), Show(s, q)
  PROVE  \E B : Turns(s, q, B)
<1>1. PICK B : B = before[s] \cup {q.text}
  OBVIOUS
<1>2. Fits(q, B)' /\ B \in SUBSET Text /\ q \in Page /\ before[s] \subseteq B
  BY <1>1, TakenOver
<1>3. Becomes(page', page, s, q) /\ Becomes(before', before, s, B)
  BY <1>1 DEF Show, Becomes
<1> QED
  BY <1>2, <1>3 DEF Turns

LEMMA HoldsIs ==
  ASSUME Inv, NEW s \in Session, NEW a, Holds(s, a)
  PROVE  a.text \in before[s]
BY PageOf DEF Holds, Fits

LEMMA ReconciledTurns ==
  ASSUME Inv, Served, NEW s \in Session, NEW a, AnswerOk(a), Reconciled(s, a)
  PROVE  \E q, B : Turns(s, q, B)
<1>1. AnswerShape(a)
  BY DEF AnswerOk
<1>2. CASE Holds(s, a) /\ Show(s, Confirmed(s, a, FALSE))
  BY <1>1, <1>2, HoldsIs, TakesOver, ShownTurns
<1>3. CASE Show(s, InConflict(s, a))
  BY <1>1, <1>3, TakesOver, ShownTurns
<1>4. CASE UNCHANGED <<page, before>>
  BY <1>4, StaysThere
<1> QED
  BY <1>2, <1>3, <1>4 DEF Reconciled

(* The text of a page is sent again. *)
LEMMA SentAgain ==
  ASSUME Inv, NEW s \in Session, NEW a, AnswerShape(a),
         NEW q, q = page[s] \/ (a.text \in before[s] /\ q = Confirmed(s, a, FALSE)),
         NEW r, r = [q EXCEPT !.unsure = {page[s].text}]
  PROVE  Took(s, a, r) /\ r.unsure # {}
<1>1. Fits(page[s], before[s]) /\ page[s] \in Page
  BY PageOf
<1>2. /\ q \in Page /\ q.open \subseteq DOMAIN conflicts /\ q.text = page[s].text /\ Shows(q)
      /\ \/ q.base = a.rev /\ q.confirmed = a.text /\ a.text \in before[s]
         \/ q.base = page[s].base /\ q.confirmed = page[s].confirmed
  <2>1. CASE q = page[s]
    BY <1>1, <2>1 DEF Fits
  <2>2. CASE a.text \in before[s] /\ q = Confirmed(s, a, FALSE)
    <3>1. FALSE \in BOOLEAN
      OBVIOUS
    <3> DEFINE w == Confirmed(s, a, FALSE)
    <3>2. /\ w \in Page /\ w.base = a.rev /\ w.confirmed = a.text
          /\ w.text = (IF FALSE THEN a.text ELSE page[s].text)
          /\ w.unsure = {} /\ w.open \subseteq DOMAIN conflicts /\ w.rev = a.rev
      BY <3>1, ConfirmedIs, Zenon
    <3> QED
      BY <2>2, <3>2 DEF Shows
  <2> QED
    BY <2>1, <2>2
<1>3. page[s].text \in Text
  BY <1>1 DEF Page
<1>4. /\ r \in Page /\ r.open = q.open /\ r.text = q.text /\ r.base = q.base
      /\ r.confirmed = q.confirmed /\ r.unsure = {page[s].text}
      /\ r.rev = q.rev /\ r.shut = q.shut
  BY <1>2, <1>3 DEF Page
<1> QED
  BY <1>1, <1>2, <1>4 DEF Took, Fits, Shows

LEMMA PickStays ==
  ASSUME Inv, NEW s \in Session, UNCHANGED pick
  PROVE  \E k \in Pick : Becomes(pick', pick, s, k)
<1>1. pick[s] \in Pick /\ Becomes(pick, pick, s, pick[s])
  BY PageOf, Itself DEF Inv, Typed
<1> QED
  BY <1>1

LEMMA CheckedGood ==
  ASSUME Inv, NEW s \in Session, Arrives(s), Checked(s, reply[s])
  PROVE  Good
<1>1. PICK a : a = reply[s]
  OBVIOUS
<1>2. Served /\ AnswerOk(a) /\ AnswerShape(a) /\ Checked(s, a)
  BY <1>1, ArrivesIs
<1>3. PICK k \in Pick : Becomes(pick', pick, s, k)
  BY PickStays DEF Checked
<1>4. CASE Reconciled(s, a) /\ Goto(s, "idle")
  <2>1. PICK q, B : Turns(s, q, B)
    BY <1>2, <1>4, ReconciledTurns
  <2>2. Becomes(pc', pc, s, "idle") /\ "idle" \in Pc
    BY <1>4 DEF Goto, Becomes, Pc
  <2> QED
    BY <1>3, <2>1, <2>2, Delivered
<1>5. ASSUME NEW q, q = page[s] \/ (a.text \in before[s] /\ q = Confirmed(s, a, FALSE)),
             Show(s, [q EXCEPT !.unsure = {page[s].text}]), Goto(s, "save")
      PROVE  Good
  <2>1. PICK r : r = [q EXCEPT !.unsure = {page[s].text}]
    OBVIOUS
  <2>2. Took(s, a, r) /\ r.unsure # {}
    BY <1>2, <1>5, <2>1, SentAgain
  <2>3. PICK B : Turns(s, r, B)
    BY <1>2, <1>5, <2>1, <2>2, ShownTurns
  <2>4. Becomes(pc', pc, s, "save") /\ "save" \in Pc
    BY <1>5 DEF Goto, Becomes, Pc
  <2> QED
    BY <1>3, <2>2, <2>3, <2>4, Delivered
<1>6. CASE ~(Reconciled(s, a) /\ Goto(s, "idle"))
  <2>1. PICK q : q = IF Holds(s, a) THEN Confirmed(s, a, FALSE) ELSE page[s]
    OBVIOUS
  <2>2. Show(s, [q EXCEPT !.unsure = {page[s].text}]) /\ Goto(s, "save")
    BY <1>2, <1>6, <2>1 DEF Checked
  <2>3. q = page[s] \/ (a.text \in before[s] /\ q = Confirmed(s, a, FALSE))
    BY <2>1, HoldsIs
  <2> QED
    BY <1>5, <2>2, <2>3
<1> QED
  BY <1>4, <1>6

LEMMA RecheckedGood ==
  ASSUME Inv, NEW s \in Session, Arrives(s), Rechecked(s, reply[s])
  PROVE  Good
<1>1. PICK q, B : Turns(s, q, B)
  BY ArrivesIs, ReconciledTurns DEF Rechecked
<1>2. PICK k \in Pick : Becomes(pick', pick, s, k)
  BY PickStays DEF Rechecked
<1>3. Becomes(pc', pc, s, "idle") /\ "idle" \in Pc
  BY DEF Rechecked, Goto, Becomes, Pc
<1> QED
  BY <1>1, <1>2, <1>3, Delivered

(* Saving is thawed, or frozen: the texts of the page stay. *)
LEMMA SameTexts ==
  ASSUME Inv, Served, NEW s \in Session, UNCHANGED before,
         NEW q \in Page, page' = [page EXCEPT ![s] = q],
         q.text = page[s].text, q.base = page[s].base, q.confirmed = page[s].confirmed,
         q.unsure \subseteq page[s].unsure, q.open = page[s].open, q.rev = page[s].rev,
         q.shut \/ q.shut = page[s].shut
  PROVE  \E B : Turns(s, q, B)
<1>1. PICK d, c, a, p, B, k : /\ d = read[s] /\ c = pc[s] /\ a = reply[s] /\ p = page[s]
                              /\ B = before[s] /\ k = pick[s]
  OBVIOUS
<1>2. Fits(p, B)' /\ B \in SUBSET Text /\ Becomes(before', before, s, B)
  BY <1>1, Standing
<1>3. /\ q.text = p.text /\ q.base = p.base /\ q.confirmed = p.confirmed
      /\ q.unsure \subseteq p.unsure /\ q.open = p.open /\ q.rev = p.rev
      /\ q.shut \/ q.shut = p.shut
  BY <1>1
<1>4. Fits(q, B)'
  BY <1>2, <1>3 DEF Fits, Shows
<1>5. Becomes(page', page, s, q) /\ before[s] \subseteq B
  BY <1>1 DEF Becomes
<1> QED
  BY <1>2, <1>4, <1>5 DEF Turns

LEMMA SavedGood ==
  ASSUME Inv, NEW s \in Session, Arrives(s), Saved(s, reply[s])
  PROVE  Good
<1>1. PICK a, p : a = reply[s] /\ p = page[s]
  OBVIOUS
<1>2. Served /\ AnswerOk(a) /\ AnswerShape(a) /\ p \in Page
  BY <1>1, ArrivesIs, PageOf
<1>3. PICK k \in Pick : Becomes(pick', pick, s, k)
  BY PickStays DEF Saved
<1>4. CASE a.code = "ok" /\ Show(s, Confirmed(s, a, FALSE)) /\ Goto(s, "idle")
  <2>1. a.text \in before[s]
    BY <1>1, <1>4, PageOf DEF Saved, SessionOk, QueueOk
  <2>2. PICK q, B : Turns(s, q, B)
    BY <1>2, <1>4, <2>1, TakesOver, ShownTurns
  <2>3. Becomes(pc', pc, s, "idle") /\ "idle" \in Pc
    BY <1>4 DEF Goto, Becomes, Pc
  <2> QED
    BY <1>3, <2>2, <2>3, Delivered
<1>5. CASE /\ page' = [page EXCEPT ![s] = [@ EXCEPT !.unsure = {}]]
           /\ Goto(s, "idle") /\ UNCHANGED before
  <2>1. PICK q : q = [p EXCEPT !.unsure = {}]
    OBVIOUS
  <2>2. /\ q \in Page /\ q.text = p.text /\ q.base = p.base /\ q.confirmed = p.confirmed
        /\ q.unsure \subseteq p.unsure /\ q.open = p.open /\ q.rev = p.rev /\ q.shut = p.shut
    BY <1>2, <2>1 DEF Page
  <2>3. page' = [page EXCEPT ![s] = q]
    BY <1>1, <1>5, <2>1
  <2>4. PICK B : Turns(s, q, B)
    BY <1>1, <1>2, <1>5, <2>2, <2>3, SameTexts
  <2>5. Becomes(pc', pc, s, "idle") /\ "idle" \in Pc
    BY <1>5 DEF Goto, Becomes, Pc
  <2> QED
    BY <1>3, <2>4, <2>5, Delivered
<1>6. CASE /\ page' = [page EXCEPT ![s] = [@ EXCEPT !.shut = TRUE, !.conflict = NoConflict]]
           /\ Goto(s, "look") /\ UNCHANGED before
  <2>1. PICK q : q = [p EXCEPT !.shut = TRUE, !.conflict = NoConflict]
    OBVIOUS
  <2>2. /\ q \in Page /\ q.text = p.text /\ q.base = p.base /\ q.confirmed = p.confirmed
        /\ q.unsure \subseteq p.unsure /\ q.open = p.open /\ q.rev = p.rev /\ q.shut
    <3>1. NoConflict \in [id : Nat, rev : Nat]
      BY DEF NoConflict
    <3> QED
      BY <1>2, <2>1, <3>1 DEF Page
  <2>3. page' = [page EXCEPT ![s] = q]
    BY <1>1, <1>6, <2>1
  <2>4. PICK B : Turns(s, q, B)
    BY <1>1, <1>2, <1>6, <2>2, <2>3, SameTexts
  <2>5. Becomes(pc', pc, s, "look") /\ "look" \in Pc
    BY <1>6 DEF Goto, Becomes, Pc, Reads
  <2> QED
    BY <1>3, <2>4, <2>5, Delivered
<1> QED
  BY <1>1, <1>4, <1>5, <1>6 DEF Saved

LEMMA LookedGood ==
  ASSUME Inv, NEW s \in Session, Arrives(s), Looked(s, reply[s])
  PROVE  Good
<1>1. PICK q, B : Turns(s, q, B)
  BY ArrivesIs, TakesOver, ShownTurns DEF Looked
<1>2. Becomes(pick', pick, s, NoPick)
  BY DEF Looked, Forget, Becomes
<1>3. Becomes(pc', pc, s, "idle") /\ "idle" \in Pc
  BY DEF Looked, Goto, Becomes, Pc
<1> QED
  BY <1>1, <1>2, <1>3, NoPickIs, Delivered

LEMMA KeptGood ==
  ASSUME Inv, NEW s \in Session, Arrives(s), Kept(s, reply[s])
  PROVE  Good
<1>1. PICK q, B : Turns(s, q, B)
  BY ArrivesIs, StaysThere DEF Kept
<1>2. PICK l \in {"idle", "fresh"} : Becomes(pc', pc, s, l)
  BY DEF Kept, Goto, Becomes
<1>3. PICK k \in Pick : Becomes(pick', pick, s, k)
  <2>1. CASE UNCHANGED pick
    BY <2>1, PickStays
  <2>2. CASE Forget(s)
    BY <2>2, NoPickIs DEF Forget, Becomes
  <2> QED
    BY <2>1, <2>2 DEF Kept
<1>4. l \in Pc /\ l # "save"
  BY DEF Pc, Reads
<1> QED
  BY <1>1, <1>2, <1>3, <1>4, Delivered

LEMMA RefreshedGood ==
  ASSUME Inv, NEW s \in Session, Arrives(s), Refreshed(s, reply[s])
  PROVE  Good
<1>1. PICK a, m : a = reply[s] /\ m = pick[s]
  OBVIOUS
<1>2. Served /\ AnswerOk(a) /\ AnswerShape(a) /\ m \in Pick
  BY <1>1, ArrivesIs, PageOf
<1> DEFINE same == {i \in a.open : conflicts[i].text = pick[s].text}
<1>3. CASE Show(s, InConflict(s, a)) /\ Goto(s, "idle") /\ Forget(s)
  <2>1. PICK q, B : Turns(s, q, B)
    BY <1>2, <1>3, TakesOver, ShownTurns
  <2>2. Becomes(pick', pick, s, NoPick)
    BY <1>3 DEF Forget, Becomes
  <2>3. Becomes(pc', pc, s, "idle") /\ "idle" \in Pc
    BY <1>3 DEF Goto, Becomes, Pc
  <2> QED
    BY <2>1, <2>2, <2>3, NoPickIs, Delivered
<1>4. CASE /\ same # {}
           /\ pick' = [pick EXCEPT ![s] = [@ EXCEPT !.id = CHOOSE i \in same : TRUE]]
           /\ Goto(s, "decide") /\ UNCHANGED <<page, before>>
  <2>1. PICK q, B : Turns(s, q, B)
    BY <1>2, <1>4, StaysThere
  <2>2. PICK n : n = CHOOSE i \in same : TRUE
    OBVIOUS
  <2>3. n \in same
    BY <1>4, <2>2
  <2>4. n \in Nat
    BY <1>2, <2>3 DEF AnswerShape, Reply
  <2>5. PICK k : k = [m EXCEPT !.id = n]
    OBVIOUS
  <2>6. k \in Pick
    BY <1>2, <2>4, <2>5 DEF Pick
  <2>7. Becomes(pick', pick, s, k)
    BY <1>1, <1>4, <2>2, <2>5 DEF Becomes
  <2>8. Becomes(pc', pc, s, "decide") /\ "decide" \in Pc
    BY <1>4 DEF Goto, Becomes, Pc
  <2> QED
    BY <2>1, <2>6, <2>7, <2>8, Delivered
<1> QED
  BY <1>1, <1>3, <1>4 DEF Refreshed

LEMMA DecisionMadeGood ==
  ASSUME Inv, NEW s \in Session, Arrives(s), DecisionMade(s, reply[s])
  PROVE  Good
<1>1. PICK a, r : a = reply[s] /\ r = ~pick[s].typed
  OBVIOUS
<1>2. Served /\ AnswerOk(a) /\ AnswerShape(a)
  BY <1>1, ArrivesIs
<1>3. Becomes(pick', pick, s, NoPick)
  BY DEF DecisionMade, Forget, Becomes
<1>4. CASE /\ page' = [page EXCEPT ![s] = Confirmed(s, a, ~pick[s].typed)]
           /\ before' = [before EXCEPT ![s] = @ \cup {a.text, page'[s].text}]
           /\ Goto(s, "idle")
  <2>1. (~pick[s].typed) \in BOOLEAN
    <3>1. pick[s] \in Pick
      BY PageOf
    <3>2. pick[s].typed \in BOOLEAN
      BY <3>1 DEF Pick
    <3>3. \A y \in BOOLEAN : (~y) \in BOOLEAN
      OBVIOUS
    <3> QED
      BY <3>2, <3>3, Zenon
  <2> DEFINE w == Confirmed(s, a, ~pick[s].typed)
  <2>2. /\ w \in Page /\ w.base = a.rev /\ w.confirmed = a.text
        /\ w.unsure = {} /\ w.open \subseteq DOMAIN conflicts /\ w.rev = a.rev
    BY <1>2, <2>1, ConfirmedIs, Zenon
  <2>3. PICK q, B : q = w /\ B = before[s] \cup {a.text, q.text}
    OBVIOUS
  <2>4. page \in [Session -> Page] /\ page'[s] = q
    BY <1>4, <2>3 DEF Inv, Typed
  <2>5. Becomes(page', page, s, q) /\ Becomes(before', before, s, B)
    BY <1>4, <2>3, <2>4 DEF Becomes
  <2>6. /\ q \in Page /\ q.base = a.rev /\ q.confirmed = a.text
        /\ q.unsure = {} /\ q.open \subseteq DOMAIN conflicts /\ q.rev = a.rev
    BY <2>2, <2>3
  <2>7. Current(q.base, q.confirmed)'
    BY <1>2, <2>6, CurrentStays DEF AnswerOk, Inv, Served
  <2>8. q.open \subseteq DOMAIN conflicts'
    BY <1>2, <2>6 DEF Served, Moves
  <2>9. Fits(q, B)'
    BY <2>3, <2>6, <2>7, <2>8 DEF Fits, Shows
  <2>10. B \in SUBSET Text /\ before[s] \subseteq B
    BY <1>2, <2>3, <2>6, PageOf DEF Page, AnswerShape, Reply
  <2>11. Turns(s, q, B)
    BY <2>5, <2>6, <2>9, <2>10 DEF Turns
  <2>12. Becomes(pc', pc, s, "idle") /\ "idle" \in Pc
    BY <1>4 DEF Goto, Becomes, Pc
  <2> QED
    BY <1>3, <2>11, <2>12, NoPickIs, Delivered
<1>5. CASE (Goto(s, "idle") \/ Goto(s, "review")) /\ UNCHANGED <<page, before>>
  <2>1. PICK q, B : Turns(s, q, B)
    BY <1>2, <1>5, StaysThere
  <2>2. PICK l \in {"idle", "review"} : Becomes(pc', pc, s, l)
    BY <1>5 DEF Goto, Becomes
  <2>3. l \in Pc /\ l # "save"
    BY DEF Pc, Reads
  <2> QED
    BY <1>3, <2>1, <2>2, <2>3, NoPickIs, Delivered
<1> QED
  BY <1>1, <1>4, <1>5 DEF DecisionMade

LEMMA DeliverGood ==
  ASSUME Inv, NEW s \in Session, Deliver(s)
  PROVE  Good
<1>1. Arrives(s)
  BY DEF Deliver, Arrives
<1> QED
  BY <1>1, CheckedGood, RecheckedGood, SavedGood, LookedGood, KeptGood, RefreshedGood,
     DecisionMadeGood DEF Deliver

(***************************************************************************)
(* The theorems.                                                           *)
(***************************************************************************)
LEMMA InitHolds == Init => Inv
<1> SUFFICES ASSUME Init PROVE Inv
  OBVIOUS
<1>1. {} \in Text /\ {{}} \in SUBSET Text
  BY DEF Text
<1>2. PICK u \in Session : note = [text |-> {}, rev |-> 0, by |-> u]
  BY DEF Init, ServerInit
<1>3. conflicts = <<>> /\ conflicts \in Seq(Draft) /\ entries = {} /\ deleted = {}
  BY DEF Init, ServerInit
<1>4. ServerInv
  BY <1>1, <1>2, <1>3 DEF ServerInv
<1>5. AnswerOk(Silent) /\ Silent \in Reply
  BY <1>1, <1>2 DEF AnswerOk, AnswerShape, Current, Silent, Blank, Reply
<1>6. NewPage \in Page
  BY <1>1 DEF NewPage, Page, NoConflict
<1>7. Typed
  BY <1>1, <1>5, <1>6, NoPickIs DEF Init, Typed, Pc
<1>8. Counted
  BY DEF Init, Counted
<1>9. ASSUME NEW s \in Session PROVE SessionOk(s)
  <2>1. page[s] = NewPage /\ pc[s] = "idle" /\ reply[s] = Silent /\ read[s] = Silent
        /\ before[s] = {{}}
    BY DEF Init
  <2>2. PageOk(s, NewPage)
    BY <1>2, <1>6, <2>1 DEF PageOk, Shows, NewPage, Current
  <2>3. QueueOk(NewPage, "idle", Silent, {{}})
    BY <1>5 DEF QueueOk, Pc
  <2> QED
    BY <1>5, <2>1, <2>2, <2>3 DEF SessionOk
<1>10. late = {} /\ inserts = {}
  BY DEF Init
<1> QED
  BY <1>4, <1>7, <1>8, <1>9, <1>10 DEF Inv

LEMMA StepGood == Inv /\ Next => Good
<1> SUFFICES ASSUME Inv, Next PROVE Good
  OBVIOUS
<1>1. ASSUME NEW s \in Session,
             \/ Load(s) \/ AnswerRead(s) \/ EndRead(s)
             \/ Edit(s) \/ Flush(s) \/ Retry(s) \/ Decide(s)
             \/ Discard(s)
             \/ \E x \in Source : Insert(s, x)
             \/ Handle(s) \/ Limit(s) \/ Deliver(s) \/ Fail(s)
      PROVE  Good
  BY <1>1, LoadGood, AnswerReadGood, EndReadGood, EditGood, FlushGood, RetryGood, DecideGood,
     DiscardGood, InsertGood, HandleGood, LimitGood, DeliverGood, FailGood
<1>2. ASSUME NEW x \in Excerpt, DeleteOrRestore(x) PROVE Good
  BY <1>2, DeleteOrRestoreGood
<1>3. ASSUME NEW r \in late, ArriveLate(r) PROVE Good
  BY <1>3, ArriveLateGood
<1>4. ASSUME NEW i \in inserts, AnswerInsert(i) \/ TakeInsert(i) PROVE Good
  BY <1>4, AnswerInsertGood, TakeInsertGood
<1> QED
  BY <1>1, <1>2, <1>3, <1>4 DEF Next

LEMMA NothingHolds == Inv /\ UNCHANGED vars => Inv'
<1> SUFFICES ASSUME Inv, UNCHANGED vars PROVE Inv'
  OBVIOUS
<1>1. /\ note' = note /\ conflicts' = conflicts /\ entries' = entries /\ deleted' = deleted
      /\ page' = page /\ pc' = pc /\ pick' = pick /\ reply' = reply /\ read' = read
      /\ late' = late /\ inserts' = inserts /\ before' = before
      /\ edits' = edits /\ failures' = failures /\ decisions' = decisions
  BY DEF vars, serverVars, clientVars
<1> QED
  BY <1>1 DEF Inv, ServerInv, Typed, Counted, SessionOk, PageOk, QueueOk, AnswerOk, AnswerShape,
              Current, RequestOk, Shows, InsertionOk

LEMMA Always == Spec => []Inv
<1>1. Inv /\ [Next]_vars => Inv'
  BY StepGood, NothingHolds DEF Good
<1> QED
  BY InitHolds, <1>1, PTL DEF Spec

LEMMA InvTyped == Inv => TypeOK
<1> SUFFICES ASSUME Inv PROVE TypeOK
  OBVIOUS
<1>1. ServerTypeOK
  BY DEF Inv, ServerInv, ServerTypeOK, Draft
<1>2. \A r \in late : r.page \in Session /\ r.kind \in {"save", "decide"}
  BY DEF Inv, RequestOk, WriteRequest
<1>3. inserts \subseteq Insertion
  BY DEF Inv, InsertionOk
<1> QED
  BY <1>1, <1>2, <1>3 DEF Inv, Typed, Counted, TypeOK

(* The state of the server, of the pages and of the requests on their way keeps
   its types: a page never names a draft or a revision of the wrong shape. *)
THEOREM TypeCorrect == Spec => []TypeOK
BY Always, InvTyped, PTL

(* A page whose base is the current revision takes the current text for
   confirmed, whatever answers came late, were lost or overtaken: its next save
   replaces nothing it does not know (confirm, accept and openConflict of the
   note session). *)
THEOREM ConfirmedIsCurrent == Spec => []BaseIsConfirmed
<1>1. Inv => BaseIsConfirmed
  BY DEF Inv, SessionOk, PageOk, Current, BaseIsConfirmed
<1> QED
  BY <1>1, Always, PTL

LEMMA InitShared == Init => Shared!Init
<1> SUFFICES ASSUME Init PROVE Shared!Init
  OBVIOUS
<1>1. PICK u \in Session : note = [text |-> {}, rev |-> 0, by |-> u]
  BY DEF Init, ServerInit
<1>2. note.text = {} /\ note.by \in Session
  BY <1>1
<1>3. {conflicts[i].text : i \in DOMAIN conflicts} = {}
  BY DEF Init, ServerInit
<1>4. before = [s \in Session |-> {{}}]
  BY DEF Init
<1> QED
  BY <1>2, <1>3, <1>4 DEF Shared!Init

LEMMA StepShared == Inv /\ Good => Shared!Next
<1> SUFFICES ASSUME Inv, Good PROVE Shared!Next
  OBVIOUS
<1>1. Shared!Look
  <2>1. before' \in [Session -> SUBSET Text]
    BY DEF Good, Inv, Typed
  <2> QED
    BY <2>1 DEF Good, Grows, Shared!Look
<1>2. CASE Keeps
  <2>1. Shared!SetAside
    BY <1>2 DEF Keeps, Aside, Shared!SetAside
  <2> QED
    BY <1>1, <2>1 DEF Shared!Next
<1>3. ASSUME NEW w \in Session, Writes(w) PROVE Shared!Next
  <2>1. Shared!Write(w)
    BY <1>3 DEF Writes, Aside, Shared!Write
  <2> QED
    BY <1>1, <2>1 DEF Shared!Next
<1> QED
  BY <1>2, <1>3 DEF Good, Served

(* The pages and the server implement SharedNote: a version of the note is
   replaced only by a page that had it in its editor or whose user chose it, by
   a version that contains it, or after the server kept it as a draft; no draft
   is ever dropped (save_note, resolve_conflict, insert_excerpt, save_answer). *)
THEOREM SharedNoteKept == Spec => NothingUnseenReplaced
<1>1. Inv /\ [Next]_vars => [Shared!Next]_(Shared!vars)
  <2>1. CASE Next
    BY <2>1, StepGood, StepShared
  <2>2. CASE UNCHANGED vars
    BY <2>2 DEF vars, serverVars, clientVars, Shared!vars
  <2> QED
    BY <2>1, <2>2
<1>2. Init /\ []Inv /\ [][Next]_vars => Shared!Init /\ [][Shared!Next]_(Shared!vars)
  BY <1>1, InitShared, PTL
<1> QED
  BY <1>2, Always DEF Spec, NothingUnseenReplaced, Shared!Spec
===============================================================================
