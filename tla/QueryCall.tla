----------------------------- MODULE QueryCall -----------------------------
(***************************************************************************)
(* What one query promises its caller: it ends once, either with an error  *)
(* or with at most limit rows, all of them of the catalogue.               *)
(***************************************************************************)
EXTENDS Naturals, Sequences

CONSTANTS Catalogue, Limit
VARIABLES status, answer

cvars == <<status, answer>>

Init == status = "running" /\ answer = <<>>

Answer ==
    /\ status = "running" /\ status' = "answered"
    /\ answer' \in Seq(Catalogue) /\ Len(answer') <= Limit

Fail == status = "running" /\ status' = "failed" /\ UNCHANGED answer

Spec == Init /\ [][Answer \/ Fail]_cvars
=============================================================================
