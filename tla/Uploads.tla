------------------------------- MODULE Uploads -------------------------------
(***************************************************************************)
(* Uploads of files through the API: into a batch (BatchOrchestrator and   *)
(* IngestionBatchService.add_file_to_batch), and on their own              *)
(* (create_document, IngestionTrigger, TaxonomyRepository), with the       *)
(* backpressure check, the idempotency checks of both, the sealing of the  *)
(* batch, retries of documents by hand, and the worker that settles what   *)
(* was uploaded and reports it.                                            *)
(*                                                                         *)
(* Every check of the API is made in one call to the database and acted    *)
(* upon in a later one.  A step ends at each call; a collection is read    *)
(* and re-opened in one step, since re-opening what is open is no change.  *)
(***************************************************************************)
EXTENDS BatchProgress, FiniteSets

CONSTANTS
    Callers,      \* API requests that may run at the same time
    DocIds,       \* bound: the documents that can ever be registered
    NoDoc,
    Files,        \* file names; a repeated call names the same file
    NoFile,
    Paths,        \* the kinds of upload that are made
    TotalFiles,   \* total_files of the batch
    MAX_PENDING,  \* INGESTION_MAX_PENDING_PER_TENANT, 0 for no limit
    AutoSeal,     \* auto_seal of the batch
    Seals,        \* whether the batch may be sealed by hand
    Deletes,      \* whether documents may be deleted by hand
    Stores,       \* stores of idempotent answers: one, with Redis, for all
    NoStore,      \* API processes, or else one in the memory of each
    MaxRetried,   \* bound: documents retried by hand
    MaxFaults     \* bound: database calls that fail

(* Into the batch, or on its own, with an Idempotency-Key or without. *)
AllPaths == {"batch", "keyed", "plain"}

ASSUME UploadsAssumption ==
    /\ IsFiniteSet(Callers) /\ IsFiniteSet(DocIds)
    /\ NoDoc \notin DocIds /\ NoFile \notin Files /\ NoStore \notin Stores
    /\ Paths \subseteq AllPaths
    /\ TotalFiles \in Nat \ {0}
    /\ MAX_PENDING \in Nat
    /\ AutoSeal \in BOOLEAN /\ Seals \in BOOLEAN /\ Deletes \in BOOLEAN
    /\ MaxRetried \in Nat /\ MaxFaults \in Nat

VARIABLES
    docs,        \* source_documents
    stored,      \* documents whose file is there for the worker to read
    answers,     \* the keys a store has an answer for; a key names its file
    made,        \* history: documents registered since a key's answer last lapsed
    batch,       \* the row of ingestion_batches
    collection,  \* status of the batch's collection
    run,         \* the job of each document that is active, and how far it is
    retried,     \* history: documents retried by hand
    pc, req, doc, \* each call: where it is, what it uploads, the row it made
    previous,    \* previous versions a call has still to delete
    sealing,     \* where seal_batch is, and the counts it has read
    faults

callVars == <<pc, req, doc, previous>>
keyVars  == <<answers, made>>
workVars == <<run, retried>>
vars     == <<docs, stored, keyVars, batch, collection, workVars, callVars, sealing, faults>>

DocStatus == {"absent", "queued", "processing", "processed", "failed", "deleted"}

DocRow == [status : DocStatus, file : Files \cup {NoFile}, path : AllPaths \cup {"none"}]

Live(d) == docs[d].status \notin {"absent", "deleted"}

(* The rows of the batch, which is what batch_id selects. *)
BatchDocs == {d \in DocIds : Live(d) /\ docs[d].path = "batch"}

(* count_pending_documents. *)
Pending == {d \in DocIds : docs[d].status \in {"queued", "processing"}}

Places == {"idle", "context", "pressure", "reopen", "check", "store", "insert", "mark",
           "lookup", "previous", "purge", "answer"}

Request == [file : Files \cup {NoFile}, path : AllPaths \cup {"none"},
            store : Stores \cup {NoStore}]

NoRequest == [file |-> NoFile, path |-> "none", store |-> NoStore]

NotSealing == [at |-> "idle", completed |-> 0, failed |-> 0]

TypeOK ==
    /\ docs \in [DocIds -> DocRow]
    /\ stored \in SUBSET DocIds
    /\ answers \in SUBSET (Stores \X Files)
    /\ made \in [Stores \X Files -> Nat]
    /\ batch \in BatchRow
    /\ collection \in {"open", "sealed"}
    /\ run \in [DocIds -> {"none", "pending", "running", "success", "failure"}]
    /\ retried \in SUBSET DocIds
    /\ pc \in [Callers -> Places]
    /\ req \in [Callers -> Request]
    /\ doc \in [Callers -> DocIds \cup {NoDoc}]
    /\ previous \in [Callers -> SUBSET DocIds]
    /\ sealing \in [at : {"idle", "count", "write"}, completed : Nat, failed : Nat]
    /\ faults \in 0 .. MaxFaults

(* create_batch has just returned. *)
Init ==
    /\ docs = [d \in DocIds |-> [status |-> "absent", file |-> NoFile, path |-> "none"]]
    /\ stored = {}
    /\ answers = {}
    /\ made = [k \in Stores \X Files |-> 0]
    /\ batch = NewBatch
    /\ collection = "open"
    /\ run = [d \in DocIds |-> "none"]
    /\ retried = {}
    /\ pc = [c \in Callers |-> "idle"]
    /\ req = [c \in Callers |-> NoRequest]
    /\ doc = [c \in Callers |-> NoDoc]
    /\ previous = [c \in Callers |-> {}]
    /\ sealing = NotSealing
    /\ faults = 0

At(c, place) == pc[c] = place

Goto(c, place) == pc' = [pc EXCEPT ![c] = place] /\ UNCHANGED <<req, doc, previous>>

(* The call is answered. *)
Return(c) ==
    /\ pc' = [pc EXCEPT ![c] = "idle"]
    /\ req' = [req EXCEPT ![c] = NoRequest]
    /\ doc' = [doc EXCEPT ![c] = NoDoc]
    /\ previous' = [previous EXCEPT ![c] = {}]

(* A new uuid. *)
Fresh(d) == docs[d].status = "absent" /\ \A c \in Callers : doc[c] # d

-----------------------------------------------------------------------------
(* What the two ways of uploading share.                                   *)

Begin(c) ==
    /\ At(c, "idle")
    /\ \E f \in Files, path \in Paths, s \in Stores :
         /\ req' = [req EXCEPT ![c] = [file |-> f, path |-> path,
                                       store |-> IF path = "keyed" THEN s ELSE NoStore]]
         /\ pc' = [pc EXCEPT ![c] = CASE path = "batch" -> "context"
                                      [] path = "keyed" -> "lookup"
                                      [] path = "plain" -> "pressure"]
    /\ UNCHANGED <<docs, stored, keyVars, batch, collection, workVars, doc, previous, sealing, faults>>

(* Mutant: the limit is compared with > instead of >=. *)
SaturatedLate == MAX_PENDING > 0 /\ Cardinality(Pending) > MAX_PENDING

(* The pending documents have reached the limit of enforce_limit. *)
Saturated == MAX_PENDING > 0 /\ Cardinality(Pending) >= MAX_PENDING

(* enforce_limit, before anything is read for the upload itself. *)
EnforceLimit(c) ==
    /\ At(c, "pressure")
    /\ IF Saturated
       THEN Return(c)
       ELSE Goto(c, IF req[c].path = "batch" THEN "reopen" ELSE "previous")
    /\ UNCHANGED <<docs, stored, keyVars, batch, collection, workVars, sealing, faults>>

(* A call to the database or to the storage fails, and the request with    *)
(* it.  Once the document of a plain upload is registered, the file it     *)
(* names is removed all the same when what follows in                      *)
(* trigger_manual_ingestion fails.                                         *)
Fail(c) ==
    /\ ~At(c, "idle")
    /\ faults < MaxFaults
    /\ faults' = faults + 1
    /\ Return(c)
    /\ \/ UNCHANGED stored
       \/ At(c, "answer") /\ stored' = stored \ {doc[c]}
    /\ UNCHANGED <<docs, keyVars, batch, collection, workVars, sealing>>

-----------------------------------------------------------------------------
(* A file of the batch.                                                    *)

(* get_batch_upload_context re-opens a sealed collection; it is called by  *)
(* the orchestrator for the tenant, and again for the checks.              *)
ReopenCollection(c, from, next) ==
    /\ At(c, from)
    /\ collection' = "open"
    /\ Goto(c, next)
    /\ UNCHANGED <<docs, stored, keyVars, batch, workVars, sealing, faults>>

Context(c) == ReopenCollection(c, "context", "pressure")

Reopen(c) == ReopenCollection(c, "reopen", "check")

(* Mutant: a file is taken for the same only while it waits. *)
WaitingSame(c) ==
    {d \in BatchDocs : docs[d].file = req[c].file /\ docs[d].status = "queued"}

(* The documents of the batch that bear the name of the uploaded file. *)
Same(c) == {d \in BatchDocs : docs[d].file = req[c].file}

(* Mutant: one file more than total_files. *)
FullLate == Cardinality(BatchDocs) > TotalFiles

Full == Cardinality(BatchDocs) >= TotalFiles

(* The documents are read; a file already there is answered as idempotent, *)
(* and a full batch takes no other.                                        *)
Check(c) ==
    /\ At(c, "check")
    /\ \/ (Same(c) # {} \/ Full) /\ Return(c)
       \/ /\ Same(c) = {} /\ ~Full
          /\ \E d \in DocIds : Fresh(d) /\ doc' = [doc EXCEPT ![c] = d]
          /\ pc' = [pc EXCEPT ![c] = "store"]
          /\ UNCHANGED <<req, previous>>
    /\ UNCHANGED <<docs, stored, keyVars, batch, collection, workVars, sealing, faults>>

(* upload_to_storage. *)
Store(c) ==
    /\ At(c, "store")
    /\ stored' = stored \cup {doc[c]}
    /\ Goto(c, "insert")
    /\ UNCHANGED <<docs, keyVars, batch, collection, workVars, sealing, faults>>

(* A row set to queued gets a job, unless one of its document is active. *)
Enqueue(d) == run' = [run EXCEPT ![d] = IF @ = "none" THEN "pending" ELSE @]

Registered(c) == [status |-> "queued", file |-> req[c].file, path |-> req[c].path]

(* queue_source_document_for_batch inserts the row ... *)
Insert(c) ==
    /\ At(c, "insert")
    /\ docs' = [docs EXCEPT ![doc[c]] = Registered(c)]
    /\ Enqueue(doc[c])
    /\ Goto(c, "mark")
    /\ UNCHANGED <<stored, keyVars, batch, collection, retried, sealing, faults>>

(* ... and then, whatever happened since, sets the batch to processing. *)
MarkProcessing(c) ==
    /\ At(c, "mark")
    /\ batch' = [batch EXCEPT !.status = "processing"]
    /\ Return(c)
    /\ UNCHANGED <<docs, stored, keyVars, collection, workVars, sealing, faults>>

-----------------------------------------------------------------------------
(* A document on its own.                                                  *)

KeyOf(c) == <<req[c].store, req[c].file>>

(* _lookup_idempotent_response: the stored answer is replayed. *)
Lookup(c) ==
    /\ At(c, "lookup")
    /\ IF KeyOf(c) \in answers THEN Return(c) ELSE Goto(c, "pressure")
    /\ UNCHANGED <<docs, stored, keyVars, batch, collection, workVars, sealing, faults>>

(* Mutant: versions that were processed are kept. *)
WaitingVersions(f) == {d \in Pending : docs[d].file = f}

(* The rows _cleanup_previous_versions selects, by the file name alone. *)
Versions(f) == {d \in DocIds : Live(d) /\ docs[d].file = f}

(* A failure of the select is swallowed, and nothing is cleaned up. *)
FindPrevious(c) ==
    /\ At(c, "previous")
    /\ \/ /\ previous' = [previous EXCEPT ![c] = Versions(req[c].file)]
          /\ UNCHANGED faults
       \/ /\ faults < MaxFaults
          /\ faults' = faults + 1
          /\ UNCHANGED previous
    /\ pc' = [pc EXCEPT ![c] = "purge"]
    /\ UNCHANGED <<docs, stored, keyVars, batch, collection, workVars, req, doc, sealing>>

(* One of them is deleted; here too a failure is swallowed. *)
DeletePrevious(c) ==
    /\ At(c, "purge")
    /\ \E d \in previous[c] :
         /\ previous' = [previous EXCEPT ![c] = @ \ {d}]
         /\ \/ docs' = [docs EXCEPT ![d].status = "deleted"] /\ UNCHANGED faults
            \/ faults < MaxFaults /\ faults' = faults + 1 /\ UNCHANGED docs
    /\ UNCHANGED <<stored, keyVars, batch, collection, workVars, pc, req, doc, sealing>>

(* register_document; the file was saved before the call. *)
Register(c) ==
    /\ At(c, "purge")
    /\ previous[c] = {}
    /\ \E d \in DocIds :
         /\ Fresh(d)
         /\ docs' = [docs EXCEPT ![d] = Registered(c)]
         /\ stored' = stored \cup {d}
         /\ doc' = [doc EXCEPT ![c] = d]
         /\ Enqueue(d)
    /\ made' = IF req[c].path = "keyed" THEN [made EXCEPT ![KeyOf(c)] = @ + 1] ELSE made
    /\ pc' = [pc EXCEPT ![c] = "answer"]
    /\ UNCHANGED <<answers, batch, collection, retried, req, previous, sealing, faults>>

(* Mutant: the answer is not kept. *)
AnswerForgotten(c) ==
    /\ At(c, "answer")
    /\ Return(c)
    /\ UNCHANGED <<docs, stored, keyVars, batch, collection, workVars, sealing, faults>>

(* The queue is read for the answer, which is then stored under its key. *)
Answer(c) ==
    /\ At(c, "answer")
    /\ answers' = IF req[c].path = "keyed" THEN answers \cup {KeyOf(c)} ELSE answers
    /\ Return(c)
    /\ UNCHANGED <<docs, stored, made, batch, collection, workVars, sealing, faults>>

(* An answer is kept for 600 s, and in the memory of a process until that  *)
(* ends.                                                                   *)
Lapse(s, f) ==
    /\ <<s, f>> \in answers
    /\ answers' = answers \ {<<s, f>>}
    /\ made' = [made EXCEPT ![<<s, f>>] = 0]
    /\ UNCHANGED <<docs, stored, batch, collection, workVars, callVars, sealing, faults>>

(* retry_ingestion writes the row back as queued, whatever its status is   *)
(* and however many documents are pending.  Its read before that decides   *)
(* only that the row is there; a step stands for several such calls in a   *)
(* row, which differ in retry_count alone.                                 *)
Requeue(d) ==
    /\ Live(d)
    /\ d \notin retried /\ Cardinality(retried) < MaxRetried
    /\ docs' = [docs EXCEPT ![d].status = "queued"]
    /\ retried' = retried \cup {d}
    /\ Enqueue(d)
    /\ UNCHANGED <<stored, keyVars, batch, collection, callVars, sealing, faults>>

(* delete_document; storage keeps the file. *)
Delete(d) ==
    /\ Deletes
    /\ Live(d)
    /\ docs' = [docs EXCEPT ![d].status = "deleted"]
    /\ UNCHANGED <<stored, keyVars, batch, collection, workVars, callVars, sealing, faults>>

-----------------------------------------------------------------------------
(* The worker, of which module IngestionWorker gives the detail.           *)

(* Only a document of a batch has something to report. *)
Ended(d, result) ==
    run' = [run EXCEPT ![d] = IF docs[d].path = "batch" THEN result ELSE "none"]

(* The job is fetched.  A document whose retries are used up is refused by *)
(* the policy, and a deleted one has nothing to run.                       *)
StartRun(d) ==
    /\ run[d] = "pending"
    /\ \/ /\ docs[d].status = "queued"
          /\ docs' = [docs EXCEPT ![d].status = "processing"]
          /\ run' = [run EXCEPT ![d] = "running"]
       \/ /\ docs[d].status = "queued" /\ d \in retried
          /\ Ended(d, "success")
          /\ UNCHANGED docs
       \/ /\ docs[d].status = "deleted"
          /\ run' = [run EXCEPT ![d] = "none"]
          /\ UNCHANGED docs
    /\ UNCHANGED <<stored, keyVars, batch, collection, retried, callVars, sealing, faults>>

(* handle_success or handle_error, both a success for the batch, write the *)
(* row whatever its status is; a row deleted under the run makes it a      *)
(* failure.                                                                *)
EndRun(d) ==
    /\ run[d] = "running"
    /\ \/ /\ Live(d)
          /\ \E status \in {"processed", "failed"} : docs' = [docs EXCEPT ![d].status = status]
          /\ Ended(d, "success")
       \/ /\ docs[d].status = "deleted"
          /\ Ended(d, "failure")
          /\ UNCHANGED docs
    /\ UNCHANGED <<stored, keyVars, batch, collection, retried, callVars, sealing, faults>>

(* update_batch_progress. *)
Report(d) ==
    /\ run[d] \in {"success", "failure"}
    /\ run' = [run EXCEPT ![d] = "none"]
    /\ batch' = Progressed(batch, TotalFiles, run[d] = "success")
    /\ collection' = IF AutoSeal /\ batch'.status = "completed" THEN "sealed" ELSE collection
    /\ UNCHANGED <<docs, stored, keyVars, retried, callVars, sealing, faults>>

-----------------------------------------------------------------------------
(* seal_batch.                                                             *)

SealCollection ==
    /\ Seals
    /\ sealing.at = "idle"
    /\ collection' = "sealed"
    /\ sealing' = [sealing EXCEPT !.at = "count"]
    /\ UNCHANGED <<docs, stored, keyVars, batch, workVars, callVars, faults>>

CountStatuses ==
    LET With(status) == Cardinality({d \in BatchDocs : docs[d].status = status})
    IN  /\ sealing.at = "count"
        /\ sealing' = [at |-> "write", completed |-> With("processed"), failed |-> With("failed")]
        /\ UNCHANGED <<docs, stored, keyVars, batch, collection, workVars, callVars, faults>>

(* The counters are overwritten, whatever was reported since the count. *)
OverwriteCounters ==
    /\ sealing.at = "write"
    /\ batch' = [completed |-> sealing.completed, failed |-> sealing.failed,
                 status |-> BatchStatus(sealing.completed, sealing.failed, TotalFiles)]
    /\ sealing' = NotSealing
    /\ UNCHANGED <<docs, stored, keyVars, collection, workVars, callVars, faults>>

-----------------------------------------------------------------------------
Upload(c) ==
    \/ Begin(c) \/ EnforceLimit(c) \/ Fail(c)
    \/ Context(c) \/ Reopen(c) \/ Check(c) \/ Store(c) \/ Insert(c) \/ MarkProcessing(c)
    \/ Lookup(c) \/ FindPrevious(c) \/ DeletePrevious(c) \/ Register(c) \/ Answer(c)

Work(d) == StartRun(d) \/ EndRun(d) \/ Report(d)

Seal == SealCollection \/ CountStatuses \/ OverwriteCounters

Next ==
    \/ \E c \in Callers : Upload(c)
    \/ \E d \in DocIds : Work(d) \/ Requeue(d) \/ Delete(d)
    \/ \E s \in Stores, f \in Files : Lapse(s, f)
    \/ Seal

Spec == Init /\ [][Next]_vars

-----------------------------------------------------------------------------
(* The limits of the API are checked before they are used up, so that      *)
(* concurrent calls may pass them.  What holds is that each call past its  *)
(* check takes the place of one caller: the overshoot is at most one per   *)
(* further caller, and with a single caller the limits are exact.          *)

CallsAt(places, path) == {c \in Callers : pc[c] \in places /\ req[c].path = path}

(* Files of the batch, and uploads that will add one. *)
BatchLimitOvershoot ==
    Cardinality(BatchDocs) + Cardinality(CallsAt({"store", "insert"}, "batch"))
      < TotalFiles + Cardinality(Callers)

(* Documents of the batch of one name, and uploads that will add one. *)
SameFileOvershoot ==
    \A f \in Files :
        Cardinality({d \in BatchDocs : docs[d].file = f})
          + Cardinality({c \in CallsAt({"store", "insert"}, "batch") : req[c].file = f})
        <= Cardinality(Callers)

(* Pending documents of the tenant but those retried by hand, which is not *)
(* held to the limit, and uploads that may add one.                        *)
PendingOvershoot ==
    MAX_PENDING > 0 =>
        Cardinality(Pending \ retried)
          + Cardinality({c \in Callers : pc[c] \in {"reopen", "check", "store", "insert",
                                                    "previous", "purge"}})
        < MAX_PENDING + Cardinality(Callers)

(* Versions of a document uploaded on its own: each call deletes all that  *)
(* it finds, so each caller leaves one at most, but for swallowed faults.  *)
VersionsOvershoot ==
    \A f \in Files :
        Cardinality({d \in DocIds : Live(d) /\ docs[d].file = f /\ docs[d].path # "batch"})
          <= Cardinality(Callers) + faults

(* Documents registered under one Idempotency-Key, by requests to one      *)
(* store, while its answer is kept: a second one takes a concurrent call,  *)
(* or a call that failed after the registration.  (What another process    *)
(* without Redis, or a repeat after the answer lapsed, registers comes on  *)
(* top.)                                                                   *)
KeyedOvershoot ==
    \A s \in Stores, f \in Files : made[<<s, f>>] <= Cardinality(Callers) + faults

=============================================================================
