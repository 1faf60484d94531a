------------------------------- MODULE JobQueue -------------------------------
(***************************************************************************)
(* The rows of one job type in the job_queue table (the enqueue trigger is *)
(* that of ingest_document): the statements that the migrations            *)
(* (fetch_next_job, the enqueue trigger) and SupabaseJobStore run against  *)
(* it.  Each statement is one transaction of Postgres, hence one step; a   *)
(* row is identified by its rank in created_at order.                      *)
(***************************************************************************)
EXTENDS Naturals

CONSTANTS
    MaxJobs,   \* bound: rows the table can ever hold
    Docs,      \* source documents
    NoDoc      \* document of a row not inserted yet

ASSUME JobQueueAssumption ==
    /\ MaxJobs \in Nat \ {0}
    /\ NoDoc \notin Docs

VARIABLE jobs  \* the table

JobIds == 1 .. MaxJobs

Active   == {"pending", "processing"}
Terminal == {"completed", "failed"}

(* fresh: updated_at is younger than the staleness cutoff.  It is read     *)
(* only while a row is processing.                                         *)
Row == [status : {"absent"} \cup Active \cup Terminal, doc : Docs \cup {NoDoc}, fresh : BOOLEAN]

NoRow == [status |-> "absent", doc |-> NoDoc, fresh |-> TRUE]

JobsTypeOK ==
    /\ jobs \in [JobIds -> Row]
    /\ \A j \in JobIds : jobs[j].status # "absent" => jobs[j].doc \in Docs

JobsInit == jobs = [j \in JobIds |-> NoRow]

WithStatus(statuses) == {j \in JobIds : jobs[j].status \in statuses}

ActiveJobs(d) == {j \in WithStatus(Active) : jobs[j].doc = d}

(* The first of a set of rows in created_at order, as a set of at most one. *)
Oldest(rows) == {j \in rows : \A k \in rows : j <= k}

-----------------------------------------------------------------------------
(* Mutant: the check sees pending jobs only. *)
TriggerIgnoresProcessing(d) ==
    IF \E j \in WithStatus({"pending"}) : jobs[j].doc = d
    THEN UNCHANGED jobs
    ELSE \E j \in Oldest(WithStatus({"absent"})) :
           jobs' = [jobs EXCEPT ![j] = [status |-> "pending", doc |-> d, fresh |-> TRUE]]

(* enqueue_ingest_job_from_source_documents, fired by a row of             *)
(* source_documents written with status 'queued': nothing is inserted      *)
(* while a job of the document is active.                                  *)
TriggerEnqueue(d) ==
    \/ /\ ActiveJobs(d) # {}
       /\ UNCHANGED jobs
    \/ /\ ActiveJobs(d) = {}
       /\ \E j \in Oldest(WithStatus({"absent"})) :
            jobs' = [jobs EXCEPT ![j] = [status |-> "pending", doc |-> d, fresh |-> TRUE]]

(* fetch_next_job: the oldest pending row becomes processing. *)
FetchNextJob(j) ==
    /\ j \in Oldest(WithStatus({"pending"}))
    /\ jobs' = [jobs EXCEPT ![j].status = "processing", ![j].fresh = TRUE]

(* mark_job_final: an update by id alone, whatever the row's status is. *)
MarkJobFinal(j, status) ==
    jobs' = [jobs EXCEPT ![j].status = status, ![j].fresh = TRUE]

(* Mutant: the update is by id alone. *)
RequeueWhateverStatus(j) == jobs' = [jobs EXCEPT ![j].status = "pending", ![j].fresh = TRUE]

(* requeue_job_for_retry: guarded by status = 'processing'. *)
RequeueJobForRetry(j) ==
    jobs' = IF jobs[j].status = "processing"
            THEN [jobs EXCEPT ![j].status = "pending", ![j].fresh = TRUE]
            ELSE jobs

(* Mutants: the cutoff is forgotten, or never reached. *)
AllProcessingJobs == WithStatus({"processing"})

NoStaleJobs == {}

(* maybe_requeue_stale_processing_jobs: every stale processing row at once. *)
StaleJobs == {j \in WithStatus({"processing"}) : ~jobs[j].fresh}

RequeueStaleJobs ==
    /\ StaleJobs # {}
    /\ jobs' = [j \in JobIds |-> IF j \in StaleJobs
                                 THEN [jobs[j] EXCEPT !.status = "pending", !.fresh = TRUE]
                                 ELSE jobs[j]]

(* One beat of _job_heartbeat_loop: touches updated_at if still processing. *)
Beat(j) ==
    /\ j \in StaleJobs
    /\ jobs' = [jobs EXCEPT ![j].fresh = TRUE]

(* updated_at falls behind the cutoff. *)
GrowStale(j) ==
    /\ j \in WithStatus({"processing"}) \ StaleJobs
    /\ jobs' = [jobs EXCEPT ![j].fresh = FALSE]

=============================================================================
