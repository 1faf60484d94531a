------------------------ MODULE MCCommunityRebuild ------------------------
(* The graph of version 1 has two communities, one batch; that of version  *)
(* 2, and whatever is read across the change, three: two batches.          *)
EXTENDS CommunityRebuild, TLC

CONSTANTS s1, w1, w2

Partition(entities, relations) == 0 .. (IF relations > 2 THEN 2 ELSE relations)

=============================================================================
