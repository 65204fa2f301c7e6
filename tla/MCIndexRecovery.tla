--------------------------- MODULE MCIndexRecovery ---------------------------
(* IndexRecovery over the fork tree and the indexers of MCIndexStage.       *)
EXTENDS IndexRecovery, MCIndexStage
=============================================================================
