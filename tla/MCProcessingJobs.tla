--------------------------- MODULE MCProcessingJobs ---------------------------
(* Finite instances of ProcessingJobs: one account with one or two jobs, and
   two accounts with a job each. *)
EXTENDS ProcessingJobs, TLC

CONSTANTS j1, j2, o1, o2

OneAccount == [j \in Job |-> o1]

TwoAccounts == j1 :> o1 @@ j2 :> o2

===============================================================================
