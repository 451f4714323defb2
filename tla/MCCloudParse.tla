----------------------------- MODULE MCCloudParse -----------------------------
(* One account with one parsing job; a second job shares nothing with it but
   the account, which ProcessingJobs covers. *)
EXTENDS CloudParse, TLC

CONSTANTS j1, o1

OneAccount == j1 :> o1

===============================================================================
