-------------------------- MODULE MCIngestionWorker --------------------------
(* Model values for IngestionWorker: two pollers in one process and one in *)
(* another, or one in each.                                                *)
EXTENDS IngestionWorker, TLC

CONSTANTS p1, p2, p3, w1, w2

TwoAndOne == (p1 :> w1) @@ (p2 :> w1) @@ (p3 :> w2)

OneEach == (p1 :> w1) @@ (p3 :> w2)

OneProcess == (p1 :> w1) @@ (p2 :> w1)
=============================================================================
