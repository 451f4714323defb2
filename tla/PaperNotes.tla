------------------------------ MODULE PaperNotes ------------------------------
(***************************************************************************)
(* The main note of one paper on the server, the drafts that are kept when *)
(* two writers diverge, and the blocks that the reading page inserts (an   *)
(* excerpt of an annotation, a saved answer).  Each handler is one write   *)
(* transaction.  A text is a set: of pieces somebody typed and of sources  *)
(* whose block, with its invisible marker, is in the text.                 *)
(***************************************************************************)
EXTENDS Naturals, Sequences

CONSTANTS
  Session,   (* the pages (NoteSession objects) that write the note        *)
  Piece,     (* what is typed                                              *)
  Source,    (* what is inserted: annotations and answers                  *)
  Excerpt    (* the sources that are annotations                           *)

ASSUME PaperNotesAssumption == Excerpt \subseteq Source /\ Session # {}

VARIABLES
  note,       (* reading_notes: text, revision (0: no row yet) and writer   *)
  conflicts,  (* reading_note_conflicts: a text, and whether it is undecided *)
  entries,    (* reading_note_entries: the sources with provenance          *)
  deleted     (* annotations that are deleted                               *)

serverVars == <<note, conflicts, entries, deleted>>

Text == SUBSET (Piece \cup Source)

ServerTypeOK ==
  /\ note \in [text : Text, rev : Nat, by : Session]
  /\ conflicts \in Seq([text : Text, open : BOOLEAN])
  /\ entries \subseteq Source
  /\ deleted \subseteq Excerpt

ServerInit ==
  /\ \E s \in Session : note = [text |-> {}, rev |-> 0, by |-> s]
  /\ conflicts = <<>>
  /\ entries = {}
  /\ deleted = {}

(* What a handler answers with: its code and the note.  A GET and the decision
   of a conflict list the undecided drafts too; "as known" elsewhere. *)
Open(c) == {i \in DOMAIN c : c[i].open}
Answer(code, n, c) == [code |-> code, text |-> n.text, rev |-> n.rev, open |-> Open(c)]

Put(s, t) == note' = [text |-> t, rev |-> note.rev + 1, by |-> s]
Keep(t) == conflicts' = Append(conflicts, [text |-> t, open |-> TRUE])

-------------------------------------------------------------------------------
(* PUT note: save_note.  Text that is there already is no conflict; a draft with
   another base is kept, and the request refused. *)
SaveNote(s, t, base) ==
  /\ \/ /\ note.rev # 0 /\ t = note.text
        /\ UNCHANGED <<note, conflicts>>
     \/ /\ ~(note.rev # 0 /\ t = note.text)
        /\ IF base # note.rev THEN Keep(t) /\ UNCHANGED note
                              ELSE Put(s, t) /\ UNCHANGED conflicts
  /\ UNCHANGED <<entries, deleted>>

SaveCodeOfRetry(t, base) ==
  IF base = note.rev THEN "ok"
  ELSE IF note.rev # 0 /\ t = note.text THEN "duplicate" ELSE "conflict"

SaveCode(t, base) ==
  IF base = note.rev \/ (note.rev # 0 /\ t = note.text) THEN "ok" ELSE "conflict"

(* POST conflicts/<id>: resolve_conflict.  A decision about a version that is no
   longer current keeps the current one as a draft and is refused; choosing the
   draft keeps the version it replaces. *)
Decided(c, id) == [c EXCEPT ![id] = [text |-> @.text, open |-> FALSE]]

ResolveConflict(s, id, choice, rev, t) ==
  /\ IF rev # note.rev THEN Keep(note.text) /\ UNCHANGED note
     ELSE IF choice = "current"
     THEN conflicts' = Decided(conflicts, id) /\ UNCHANGED note
     ELSE /\ Put(s, t)
          /\ conflicts' = Decided(IF note.rev # 0 /\ note.text # t
                                  THEN Append(conflicts, [text |-> note.text, open |-> TRUE])
                                  ELSE conflicts, id)
  /\ UNCHANGED <<entries, deleted>>

(* POST excerpts and answers: insert_excerpt checks the annotation and the
   revision, save_answer appends to whatever the note is by now. *)
MayInsert(x, rev) == x \in Excerpt => x \notin deleted /\ rev = note.rev

InsertBlock(s, x) ==
  /\ IF x \in note.text THEN UNCHANGED note ELSE Put(s, note.text \cup {x})
  /\ entries' = entries \cup {x}
  /\ UNCHANGED <<conflicts, deleted>>

(* mutate_annotation, as far as the note sees it: deleted and restored. *)
ToggleAnnotation(x) ==
  /\ deleted' = IF x \in deleted THEN deleted \ {x} ELSE deleted \cup {x}
  /\ UNCHANGED <<note, conflicts, entries>>

===============================================================================
