---------------------------- MODULE MCNoteSessions ----------------------------
(* Instances of NoteSessions for TLC. *)
EXTENDS NoteSessions, TLC

PagesAlike == Permutations(Session)

===============================================================================
