----------------------------- MODULE BatchProgress -----------------------------
(***************************************************************************)
(* The counters of one row of ingestion_batches and the transaction        *)
(* update_batch_progress that advances them                                *)
(* (supabase/migrations/20260213000001_batch_tracking.sql).                *)
(***************************************************************************)
EXTENDS Naturals

Closed == {"completed", "failed", "partial"}

BatchRow == [completed : Nat, failed : Nat, status : {"pending", "processing"} \cup Closed]

NewBatch == [completed |-> 0, failed |-> 0, status |-> "pending"]

(* Mutants: the batch closes one file early, or one file late. *)
ClosesEarly(completed, failed, total) ==
    IF completed + failed + 1 >= total /\ total > 0 THEN "completed" ELSE "processing"

ClosesLate(completed, failed, total) ==
    IF completed + failed > total /\ total > 0 THEN "completed" ELSE "processing"

(* The status a batch of `total` files has with these counters. *)
BatchStatus(completed, failed, total) ==
    IF ~(completed + failed >= total /\ total > 0) THEN "processing"
    ELSE IF failed = 0 THEN "completed"
    ELSE IF completed = 0 THEN "failed"
    ELSE "partial"

(* Mutant: a success is not counted. *)
SuccessUncounted(row, total, success) ==
    LET failed == IF success THEN row.failed ELSE row.failed + 1
    IN  [completed |-> row.completed, failed |-> failed,
         status |-> BatchStatus(row.completed, failed, total)]

(* The row update_batch_progress leaves behind. *)
Progressed(row, total, success) ==
    LET completed == IF success THEN row.completed + 1 ELSE row.completed
        failed    == IF success THEN row.failed ELSE row.failed + 1
    IN  [completed |-> completed, failed |-> failed,
         status |-> BatchStatus(completed, failed, total)]

=============================================================================
