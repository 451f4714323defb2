--------------------------- MODULE MCTranslationJobs ---------------------------
(* Instances of TranslationJobs for TLC. *)
EXTENDS TranslationJobs, TLC

(* The monitors are threads alike: no action tells one from the other. *)
AnyOrder == Permutations(Monitor)

===============================================================================
