------------------------------ MODULE SharedNote ------------------------------
(***************************************************************************)
(* What the main note of a paper promises to the people, or the pages of   *)
(* one person, that write it: a version is replaced only by a writer who   *)
(* had it before them, by a version that contains it, or after it has been *)
(* set aside; and what was set aside stays.                                *)
(***************************************************************************)
CONSTANTS
  Writer,   (* who writes                                                  *)
  Text      (* the texts, as sets of what they contain                     *)

VARIABLES
  text,     (* the current version                                         *)
  author,   (* who wrote it                                                *)
  aside,    (* the versions and drafts that were set aside                 *)
  before    (* the versions that each writer has had before them           *)

vars == <<text, author, aside, before>>

Init ==
  /\ text = {}
  /\ author \in Writer
  /\ aside = {}
  /\ before = [w \in Writer |-> {{}}]

(* A writer may be shown any text, at any time. *)
Look ==
  /\ before' \in [Writer -> SUBSET Text]
  /\ \A w \in Writer : before[w] \subseteq before'[w]

SetAside ==
  /\ aside \subseteq aside'
  /\ UNCHANGED <<text, author>>

Write(w) ==
  /\ text' \in Text
  /\ author' = w
  /\ \/ text \in before[w] /\ aside' = aside
     \/ text \subseteq text' /\ aside' = aside
     \/ aside' = aside \cup {text}

Next == Look /\ (SetAside \/ \E w \in Writer : Write(w))

Spec == Init /\ [][Next]_vars

===============================================================================
