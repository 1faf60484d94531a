----------------------------- MODULE MCEnrichment -----------------------------
(* Symmetry for Enrichment: its pollers are interchangeable.               *)
EXTENDS Enrichment, TLC

Symmetry == Permutations(Pollers)
=============================================================================
