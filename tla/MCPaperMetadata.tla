---------------------------- MODULE MCPaperMetadata ----------------------------
(* Instances of PaperMetadata for TLC. *)
EXTENDS PaperMetadata

===============================================================================
