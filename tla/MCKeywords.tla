------------------------------- MODULE MCKeywords -------------------------------
(* Instances of Keywords for TLC. *)
EXTENDS Keywords, TLC

TagsAlike == Permutations(Tag)

===============================================================================
