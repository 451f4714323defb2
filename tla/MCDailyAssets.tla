---------------------------- MODULE MCDailyAssets -----------------------------
(* A finite instance of DailyAssets: two accounts with one paper each. *)
EXTENDS DailyAssets, TLC

CONSTANTS a, b

TwoAccounts == a :> 1 @@ b :> 2
===============================================================================
