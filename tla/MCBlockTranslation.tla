-------------------------- MODULE MCBlockTranslation --------------------------
(* A translation job of the whole paper and a re-translation of the first
   block in the same result; one of the two is resumed. *)
EXTENDS BlockTranslation, TLC

CONSTANTS whole, again

ScopeOfRuns == whole :> Blocks @@ again :> {1}

===============================================================================
