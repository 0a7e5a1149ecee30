---------------------------- MODULE MCPargBatch ----------------------------
(* Instance of PargBatch: every text of up to five characters, every option *)
(* combination parseOptions accepts.                                        *)
EXTENDS PargBatch
=============================================================================
