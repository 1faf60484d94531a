------------------------ MODULE IngestionWorker_proofs ------------------------
(***************************************************************************)
(* Theorems about IngestionWorker, for every number of workers, pollers,   *)
(* documents and rows, in three parts: whatever fails; while the           *)
(* heartbeats get through; and up to the first fault.                      *)
(*                                                                         *)
(* Part 1, for every kind of fault: type correctness, one active job per   *)
(* document, jobs that ended stay ended, and the exactness of the document *)
(* locks of each process.                                                  *)
(*                                                                         *)
(* JobsMove says what a step may do to the job table; every statement of   *)
(* JobQueue is shown to be such a move, and the properties of the table    *)
(* follow from that alone.                                                 *)
(***************************************************************************)
EXTENDS IngestionWorker, FiniteSetTheorems, TLAPS

(* What a step may do to the job table. *)
JobsMove ==
    /\ JobsTypeOK'
    /\ \A j \in JobIds :
         jobs[j].status # "absent"
           => jobs'[j].status # "absent" /\ jobs'[j].doc = jobs[j].doc
    /\ \A j \in JobIds : jobs[j].status \in Terminal => jobs'[j].status \in Terminal
    /\ \A j \in JobIds :
         jobs'[j].status \in Active =>
           \/ jobs[j].status \in Active
           \/ /\ jobs[j].status = "absent"
              /\ ActiveJobs(jobs'[j].doc) = {}
              /\ \A k \in JobIds \ {j} : jobs'[k] = jobs[k]

-----------------------------------------------------------------------------
(* The statements of JobQueue are moves.                                   *)

LEMMA StutterMoves ==
    ASSUME JobsTypeOK, UNCHANGED jobs
    PROVE  JobsMove
BY DEF JobsTypeOK, JobsMove

LEMMA TriggerMoves ==
    ASSUME JobsTypeOK, NEW d \in Docs, TriggerEnqueue(d)
    PROVE  JobsMove
<1>1. CASE UNCHANGED jobs
  BY <1>1, StutterMoves
<1>2. CASE /\ ActiveJobs(d) = {}
           /\ \E j \in Oldest(WithStatus({"absent"})) :
                jobs' = [jobs EXCEPT ![j] = [status |-> "pending", doc |-> d, fresh |-> TRUE]]
  <2>1. PICK j \in JobIds :
          /\ jobs[j].status = "absent"
          /\ jobs' = [jobs EXCEPT ![j] = [status |-> "pending", doc |-> d, fresh |-> TRUE]]
    BY <1>2 DEF Oldest, WithStatus
  <2>2. JobsTypeOK'
    BY <2>1 DEF JobsTypeOK, Row, Active
  <2> QED BY <1>2, <2>1, <2>2 DEF JobsMove, JobsTypeOK, Active, Terminal
<1> QED BY <1>1, <1>2 DEF TriggerEnqueue

LEMMA FetchMoves ==
    ASSUME JobsTypeOK, NEW j \in JobIds, FetchNextJob(j)
    PROVE  JobsMove /\ jobs'[j].status = "processing"
BY DEF JobsTypeOK, Row, JobsMove, FetchNextJob, Oldest, WithStatus, Active, Terminal

LEMMA FinalMoves ==
    ASSUME JobsTypeOK, NEW j \in JobIds, jobs[j].status # "absent",
           NEW status \in Terminal, MarkJobFinal(j, status)
    PROVE  JobsMove
BY DEF JobsTypeOK, Row, JobsMove, MarkJobFinal, Active, Terminal

LEMMA RequeueMoves ==
    ASSUME JobsTypeOK, NEW j \in JobIds, RequeueJobForRetry(j)
    PROVE  JobsMove
<1>1. CASE jobs[j].status = "processing"
  BY <1>1 DEF JobsTypeOK, Row, JobsMove, RequeueJobForRetry, Active, Terminal
<1>2. CASE jobs[j].status # "processing"
  BY <1>2, StutterMoves DEF RequeueJobForRetry
<1> QED BY <1>1, <1>2

LEMMA StaleMoves ==
    ASSUME JobsTypeOK, RequeueStaleJobs
    PROVE  JobsMove
<1> DEFINE Requeued(j) == [jobs[j] EXCEPT !.status = "pending", !.fresh = TRUE]
<1>1. ASSUME NEW j \in JobIds
      PROVE  /\ Requeued(j) \in Row /\ Requeued(j).doc = jobs[j].doc
             /\ Requeued(j).status = "pending"
  BY DEF JobsTypeOK, Row, Active
<1>2. ASSUME NEW j \in StaleJobs
      PROVE  jobs[j].status \in Active \ Terminal /\ jobs[j].status # "absent"
  BY DEF StaleJobs, WithStatus, Active, Terminal
<1>3. jobs' = [j \in JobIds |-> IF j \in StaleJobs THEN Requeued(j) ELSE jobs[j]]
  BY DEF RequeueStaleJobs
<1> HIDE DEF Requeued
<1> QED BY <1>1, <1>2, <1>3 DEF JobsTypeOK, JobsMove

LEMMA FreshnessMoves ==
    ASSUME JobsTypeOK, NEW j \in JobIds, NEW b \in BOOLEAN,
           jobs[j].status = "processing", jobs' = [jobs EXCEPT ![j].fresh = b]
    PROVE  JobsMove
BY DEF JobsTypeOK, Row, JobsMove, Active, Terminal

-----------------------------------------------------------------------------
(* The inductive invariant.                                                *)

(* A poller that is busy has a row in hand. *)
HeldRows ==
    \A p \in Pollers :
        pc[p] \in Busy => job[p] \in JobIds /\ jobs[job[p]].status # "absent"

(* Nothing is saved before save_chunks, and less than everything during it. *)
SavedInStep ==
    \A p \in Pollers :
        /\ pc[p] \in {"idle", "load", "slot", "waiting", "start", "wipe"} => saved[p] = 0
        /\ pc[p] = "persist" => saved[p] < ChunkInserts

IInv == TypeOK /\ HeldRows /\ SavedInStep

USE WorkerAssumption, JobQueueAssumption

LEMMA InitHolds == Init => IInv
<1> SUFFICES ASSUME Init PROVE IInv
  OBVIOUS
<1>1. JobsTypeOK
  BY DEF Init, JobsInit, JobsTypeOK, NoRow, Row
<1>2. docs \in [Docs -> DocRow] /\ rec \in [Pollers -> DocRow]
  BY DEF Init, DocRow, DocStatus, Unread
<1>3. batch \in BatchRow /\ sealed \in BOOLEAN
  BY DEF Init, BatchRow, NewBatch
<1>4. /\ chunks \in [Docs -> Nat]
      /\ enrichment \in SUBSET Docs
      /\ up \in SUBSET Workers
      /\ locks \in [Workers -> SUBSET Docs]
      /\ retryReads \in SUBSET (Docs \X Nat)
      /\ marking \in SUBSET BatchDocs /\ deleting \in SUBSET Docs /\ purged \in SUBSET Docs
  BY DEF Init
<1>5. /\ pc \in [Pollers -> {"idle"} \cup Busy]
      /\ job \in [Pollers -> JobIds \cup {NoJob}]
      /\ saved \in [Pollers -> 0 .. ChunkInserts]
      /\ faults \in 0 .. MaxFaults
      /\ requests \in 0 .. MaxRequests
  BY DEF Init
<1>6. HeldRows /\ SavedInStep
  BY DEF Init, HeldRows, SavedInStep, Busy, Locking, InSlot, Pipeline
<1> QED BY <1>1, <1>2, <1>3, <1>4, <1>5, <1>6 DEF IInv, TypeOK

(* The row of a busy poller and the document it is for. *)
LEMMA HeldDoc ==
    ASSUME IInv, NEW p \in Pollers, pc[p] \in Busy
    PROVE  /\ job[p] \in JobIds
           /\ jobs[job[p]].status # "absent"
           /\ Doc(p) \in Docs
BY DEF IInv, TypeOK, JobsTypeOK, HeldRows, Doc

(* Every step is a move of the job table. *)
LEMMA NextMoves ==
    ASSUME IInv, [Next]_vars
    PROVE  JobsMove
<1>0. JobsTypeOK
  BY DEF IInv, TypeOK
<1>1. CASE UNCHANGED jobs
  BY <1>0, <1>1, StutterMoves
<1>2. ASSUME NEW d \in Docs, Register(d) \/ \E n \in 0 .. MaxRequests : RetryWrite(d, n)
      PROVE  JobsMove
  BY <1>0, <1>2, TriggerMoves, StutterMoves DEF Register, RetryWrite
<1>3. ASSUME NEW p \in Pollers, RequeueStale(p) PROVE JobsMove
  BY <1>0, <1>3, StaleMoves DEF RequeueStale
<1>4. ASSUME NEW p \in Pollers, Fetch(p) \/ FetchLost(p) PROVE JobsMove
  BY <1>0, <1>4, FetchMoves DEF Fetch, FetchLost
<1>5. ASSUME NEW p \in Pollers, Complete(p) \/ MarkFailed(p) PROVE JobsMove
  <2>1. pc[p] \in Busy
    BY <1>5 DEF Complete, MarkFailed, Busy
  <2>2. \/ UNCHANGED jobs
        \/ \E status \in Terminal : MarkJobFinal(job[p], status)
    BY <1>5 DEF Complete, MarkFailed, Terminal
  <2> QED BY <1>0, <2>1, <2>2, HeldDoc, FinalMoves, StutterMoves
<1>6. ASSUME NEW p \in Pollers, Heartbeat(p) PROVE JobsMove
  BY <1>0, <1>6, FreshnessMoves DEF Heartbeat, Beat, StaleJobs, WithStatus
<1>7. ASSUME NEW p \in Pollers, LoadTransient(p) PROVE JobsMove
  <2>1. pc[p] \in Busy
    BY <1>7 DEF LoadTransient, Busy
  <2> QED BY <1>0, <1>7, <2>1, HeldDoc, RequeueMoves DEF LoadTransient
<1>8. ASSUME NEW j \in JobIds, Expire(j) PROVE JobsMove
  BY <1>0, <1>8, FreshnessMoves DEF Expire, GrowStale, StaleJobs, WithStatus
<1>9. CASE Next
  <2>1. CASE Api
    BY <1>1, <1>2, <2>1 DEF Api, RetryRead, MarkBatch, DeleteBegin, PurgeChunks, DeleteRow
  <2>2. ASSUME NEW p \in Pollers, Poll(p) PROVE JobsMove
    BY <1>3, <1>4, <1>5, <1>6, <2>2 DEF Poll
  <2>3. ASSUME NEW p \in Pollers, Handle(p) PROVE JobsMove
    BY <1>1, <1>7, <2>3
    DEF Handle, Load, LoadFails, TryLock, EnterSlot, Start, WipeChunks, PersistChunks,
        EnqueueEnrichment, HandleSuccess, PipelineFails, HandleError, ProgressOk, ProgressFail
  <2>4. ASSUME NEW w \in Workers, Crash(w) \/ Restart(w) PROVE JobsMove
    BY <1>1, <2>4 DEF Crash, Restart
  <2> QED BY <1>8, <1>9, <2>1, <2>2, <2>3, <2>4 DEF Next
<1> QED BY <1>1, <1>9 DEF vars
-----------------------------------------------------------------------------
(* A batch row stays a batch row. *)
LEMMA BatchTypes ==
    ASSUME batch \in BatchRow, NEW success \in BOOLEAN, NEW total \in Nat
    PROVE  Progressed(batch, total, success) \in BatchRow
BY DEF BatchRow, Progressed, BatchStatus, Closed

LEMMA ProgressTypes ==
    ASSUME IInv, NEW p \in Pollers, NEW success \in BOOLEAN, Progress(p, success)
    PROVE  batch' \in BatchRow /\ sealed' \in BOOLEAN /\ faults' \in 0 .. MaxFaults
<1>1. Cardinality(BatchDocs) \in Nat
  BY FS_CardinalityType
<1>2. batch' \in BatchRow
  BY <1>1, BatchTypes DEF IInv, TypeOK, Progress
<1>3. sealed' \in BOOLEAN
  BY Zenon DEF IInv, TypeOK, Progress
<1>4. faults' \in 0 .. MaxFaults
  BY DEF IInv, TypeOK, Progress, Fault
<1> QED BY <1>2, <1>3, <1>4

(* A process that ends leaves the types alone. *)
LEMMA DownTypes ==
    ASSUME IInv, NEW w \in Workers, Down(w)
    PROVE  /\ up' \in SUBSET Workers
           /\ locks' \in [Workers -> SUBSET Docs]
           /\ pc' \in [Pollers -> {"idle"} \cup Busy]
           /\ job' \in [Pollers -> JobIds \cup {NoJob}]
           /\ rec' \in [Pollers -> DocRow]
           /\ saved' \in [Pollers -> 0 .. ChunkInserts]
BY DEF IInv, TypeOK, Down, Unread, DocRow, DocStatus

LEMMA TypeStep ==
    ASSUME IInv, [Next]_vars
    PROVE  TypeOK'
<1>0. JobsTypeOK'
  BY NextMoves DEF JobsMove
<1> USE <1>0 DEF IInv, TypeOK
<1>1. ASSUME NEW d \in Docs, Register(d) PROVE TypeOK'
  BY <1>1 DEF Register, workerVars, deleteVars, DocRow, DocStatus
<1>2. ASSUME NEW d \in Docs, RetryRead(d) PROVE TypeOK'
  BY <1>2 DEF RetryRead, Request, worldVars, workerVars, deleteVars, DocRow
<1>3. ASSUME NEW d \in Docs, NEW n \in 0 .. MaxRequests, RetryWrite(d, n) PROVE TypeOK'
  <2>1. docs' \in [Docs -> DocRow]
    BY <1>3 DEF RetryWrite, DocRow, DocStatus
  <2> QED BY <1>3, <2>1 DEF RetryWrite, workerVars, deleteVars
<1>4. ASSUME NEW d \in Docs, MarkBatch(d) \/ DeleteBegin(d) \/ PurgeChunks(d) \/ DeleteRow(d)
      PROVE  TypeOK'
  <2>1. CASE MarkBatch(d)
    <3>1. batch' \in BatchRow
      BY <2>1 DEF MarkBatch, BatchRow
    <3> QED BY <2>1, <3>1 DEF MarkBatch, workerVars, deleteVars
  <2>2. CASE DeleteBegin(d)
    BY <2>2 DEF DeleteBegin, Request, worldVars, workerVars
  <2>3. CASE PurgeChunks(d)
    BY <2>3 DEF PurgeChunks, workerVars
  <2>4. CASE DeleteRow(d)
    BY <2>4 DEF DeleteRow, workerVars, DocRow, DocStatus
  <2> QED BY <1>4, <2>1, <2>2, <2>3, <2>4
<1>5. ASSUME NEW p \in Pollers, RequeueStale(p) \/ FetchLost(p) \/ Heartbeat(p) PROVE TypeOK'
  BY <1>5 DEF RequeueStale, FetchLost, Heartbeat, Fault, worldVars, workerVars, apiVars, deleteVars
<1>6. ASSUME NEW p \in Pollers, Fetch(p) PROVE TypeOK'
  BY <1>6 DEF Fetch, Goto, Busy, worldVars, apiVars, deleteVars
<1>7. ASSUME NEW p \in Pollers, Complete(p) \/ MarkFailed(p) PROVE TypeOK'
  <2>1. \/ Rest(p) /\ UNCHANGED <<up, locks>>
        \/ Goto(p, "markFailed") /\ UNCHANGED <<up, locks, job, rec, saved>>
    BY <1>7 DEF Complete, MarkFailed
  <2>2. faults' \in 0 .. MaxFaults
    BY <1>7 DEF Complete, MarkFailed, Fault
  <2>3. UNCHANGED <<docs, chunks, enrichment, batch, sealed, apiVars>>
    BY <1>7 DEF Complete, MarkFailed, worldVars, apiVars, deleteVars
  <2>4. /\ pc' \in [Pollers -> {"idle"} \cup Busy]
        /\ job' \in [Pollers -> JobIds \cup {NoJob}]
        /\ rec' \in [Pollers -> DocRow]
        /\ saved' \in [Pollers -> 0 .. ChunkInserts]
    <3>1. CASE Rest(p)
      BY <3>1 DEF Rest, Goto, Unread, DocRow, DocStatus
    <3>2. CASE Goto(p, "markFailed") /\ UNCHANGED <<job, rec, saved>>
      BY <3>2 DEF Goto, Busy
    <3> QED BY <2>1, <3>1, <3>2
  <2>5. up' \in SUBSET Workers /\ locks' \in [Workers -> SUBSET Docs]
    BY <2>1
  <2> QED BY <2>2, <2>3, <2>4, <2>5 DEF apiVars, deleteVars
<1>8. ASSUME NEW w \in Workers, Crash(w) \/ Restart(w) PROVE TypeOK'
  BY <1>8, DownTypes DEF Crash, Restart, Fault, worldVars, apiVars, deleteVars
<1>9. ASSUME NEW j \in JobIds, Expire(j) PROVE TypeOK'
  BY <1>9 DEF Expire, Fault, worldVars, workerVars, apiVars, deleteVars
<1>10. ASSUME NEW p \in Pollers, Load(p) \/ LoadFails(p) PROVE TypeOK'
  <2>1. Doc(p) \in Docs
    BY <1>10, HeldDoc DEF Load, LoadFails, Busy
  <2> QED BY <1>10, <2>1 DEF Load, LoadFails, Goto, Fault, Busy, Locking, worldVars, apiVars, deleteVars
<1>11. ASSUME NEW p \in Pollers, LoadTransient(p) PROVE TypeOK'
  BY <1>11, DownTypes DEF LoadTransient, Fault, worldVars, apiVars, deleteVars
<1>12. ASSUME NEW p \in Pollers, TryLock(p) PROVE TypeOK'
  <2>1. Doc(p) \in Docs
    BY <1>12, HeldDoc DEF TryLock, Busy
  <2>2. pc' \in [Pollers -> {"idle"} \cup Busy]
    BY <1>12 DEF TryLock, Goto, Busy, Locking
  <2>3. locks' \in [Workers -> SUBSET Docs]
    BY <1>12, <2>1 DEF TryLock
  <2>4. UNCHANGED <<jobs, worldVars, up, job, rec, saved, apiVars, faults>>
    BY <1>12 DEF TryLock
  <2> QED BY <2>2, <2>3, <2>4 DEF worldVars, apiVars, deleteVars
<1>13. ASSUME NEW p \in Pollers, EnterSlot(p) \/ PipelineFails(p) PROVE TypeOK'
  BY <1>13 DEF EnterSlot, PipelineFails, Goto, Busy, Locking, InSlot, Pipeline, worldVars, apiVars, deleteVars
<1>14. ASSUME NEW p \in Pollers,
              Start(p) \/ HandleSuccess(p) \/ HandleError(p)
       PROVE  TypeOK'
  <2>1. Doc(p) \in Docs
    BY <1>14, HeldDoc DEF Start, HandleSuccess, HandleError, Busy, Locking, InSlot, Pipeline
  <2>2. docs' \in [Docs -> DocRow]
    BY <1>14, <2>1 DEF Start, HandleSuccess, HandleError, DocRow, DocStatus
  <2>3. pc' \in [Pollers -> {"idle"} \cup Busy]
    BY <1>14 DEF Start, HandleSuccess, HandleError, Goto, Busy, Locking, InSlot, Pipeline
  <2>4. faults' \in 0 .. MaxFaults
    BY <1>14 DEF Start, HandleSuccess, HandleError, Fault
  <2> QED BY <1>14, <2>2, <2>3, <2>4 DEF Start, HandleSuccess, HandleError, apiVars, deleteVars
<1>15. ASSUME NEW p \in Pollers, WipeChunks(p) \/ EnqueueEnrichment(p) PROVE TypeOK'
  <2>1. Doc(p) \in Docs
    BY <1>15, HeldDoc DEF WipeChunks, EnqueueEnrichment, Busy, Locking, InSlot, Pipeline
  <2> QED BY <1>15, <2>1 DEF WipeChunks, EnqueueEnrichment, Goto, Busy, Locking, InSlot,
             Pipeline, apiVars, deleteVars
<1>16. ASSUME NEW p \in Pollers, PersistChunks(p) PROVE TypeOK'
  <2>1. Doc(p) \in Docs /\ saved[p] < ChunkInserts
    BY <1>16, HeldDoc DEF PersistChunks, Busy, Locking, InSlot, Pipeline, SavedInStep
  <2> QED BY <1>16, <2>1 DEF PersistChunks, Goto, Busy, Locking, InSlot, Pipeline, apiVars, deleteVars
<1>17. ASSUME NEW p \in Pollers, ProgressOk(p) \/ ProgressFail(p) PROVE TypeOK'
  <2>1. batch' \in BatchRow /\ sealed' \in BOOLEAN /\ faults' \in 0 .. MaxFaults
    BY <1>17, ProgressTypes DEF ProgressOk, ProgressFail
  <2>2. pc' \in [Pollers -> {"idle"} \cup Busy]
    BY <1>17 DEF ProgressOk, ProgressFail, Goto, Busy
  <2>3. locks' \in [Workers -> SUBSET Docs]
    <3>1. Unlock(p)
      BY <1>17 DEF ProgressOk, ProgressFail
    <3>2. locks \in [Workers -> SUBSET Docs] /\ WorkerOf[p] \in Workers
      OBVIOUS
    <3>3. locks[WorkerOf[p]] \ {Doc(p)} \in SUBSET Docs
      BY <3>2
    <3> QED BY <3>1, <3>2, <3>3 DEF Unlock
  <2> QED BY <1>17, <2>1, <2>2, <2>3 DEF ProgressOk, ProgressFail, apiVars, deleteVars
<1>18. CASE UNCHANGED vars
  BY <1>18 DEF vars, worldVars, workerVars, apiVars, deleteVars
<1> QED BY <1>1, <1>2, <1>3, <1>4, <1>5, <1>6, <1>7, <1>8, <1>9, <1>10, <1>11, <1>12, <1>13,
           <1>14, <1>15, <1>16, <1>17, <1>18 DEF Next, Api, Poll, Handle
-----------------------------------------------------------------------------
(* A poller that moves on within its job, or takes no step, keeps its row; *)
(* one that comes to rest, or dies, holds none.                            *)
LEMMA HeldStep ==
    ASSUME IInv, [Next]_vars
    PROVE  HeldRows'
<1>0. TypeOK /\ HeldRows /\ JobsMove
  BY NextMoves DEF IInv
<1>1. ASSUME UNCHANGED <<pc, job>> PROVE HeldRows'
  BY <1>0, <1>1 DEF JobsMove, HeldRows
<1>2. ASSUME NEW p \in Pollers, pc[p] \in Busy, UNCHANGED job,
             NEW place \in Busy, Goto(p, place)
      PROVE  HeldRows'
  BY <1>0, <1>2 DEF JobsMove, HeldRows, TypeOK, Goto
<1>3. ASSUME NEW p \in Pollers, Rest(p) PROVE HeldRows'
  BY <1>0, <1>3 DEF JobsMove, HeldRows, TypeOK, Rest, Goto, Busy, Locking, InSlot, Pipeline
<1>4. ASSUME NEW w \in Workers, Down(w) PROVE HeldRows'
  BY <1>0, <1>4 DEF JobsMove, HeldRows, TypeOK, Down, Busy, Locking, InSlot, Pipeline
<1>5. ASSUME NEW p \in Pollers, Fetch(p) PROVE HeldRows'
  <2>1. PICK j \in JobIds : FetchNextJob(j) /\ job' = [job EXCEPT ![p] = j]
    BY <1>5 DEF Fetch
  <2>2. jobs'[j].status = "processing"
    BY <1>0, <2>1, FetchMoves DEF TypeOK
  <2> QED BY <1>0, <1>5, <2>1, <2>2 DEF Fetch, Goto, HeldRows, TypeOK, JobsMove
<1>6. ASSUME NEW p \in Pollers, Complete(p) \/ MarkFailed(p) PROVE HeldRows'
  BY <1>2, <1>3, <1>6 DEF Complete, MarkFailed, Busy
<1>7. ASSUME NEW p \in Pollers, Handle(p) PROVE HeldRows'
  <2>1. CASE LoadTransient(p)
    <3>1. WorkerOf[p] \in Workers
      OBVIOUS
    <3> QED BY <1>4, <2>1, <3>1 DEF LoadTransient
  <2>2. CASE ~LoadTransient(p)
    <3>1. pc[p] \in Busy /\ UNCHANGED job
      BY <1>7, <2>2
      DEF Handle, Load, LoadFails, TryLock, EnterSlot, Start, WipeChunks, PersistChunks,
          EnqueueEnrichment, HandleSuccess, PipelineFails, HandleError, ProgressOk,
          ProgressFail, Busy, Locking, InSlot, Pipeline
    <3>2. \E place \in Busy : Goto(p, place)
      BY <1>7, <2>2
      DEF Handle, Load, LoadFails, TryLock, EnterSlot, Start, WipeChunks, PersistChunks,
          EnqueueEnrichment, HandleSuccess, PipelineFails, HandleError, ProgressOk,
          ProgressFail, Busy, Locking, InSlot, Pipeline
    <3> QED BY <1>2, <3>1, <3>2
  <2> QED BY <2>1, <2>2
<1>8. CASE Next
  <2>1. CASE Api \/ \E j \in JobIds : Expire(j)
    BY <1>1, <2>1 DEF Api, Register, RetryRead, RetryWrite, MarkBatch, DeleteBegin, PurgeChunks, DeleteRow, Expire, workerVars
  <2>2. ASSUME NEW p \in Pollers, Poll(p) PROVE HeldRows'
    BY <1>1, <1>5, <1>6, <2>2 DEF Poll, RequeueStale, FetchLost, Heartbeat, workerVars
  <2>3. ASSUME NEW w \in Workers, Crash(w) \/ Restart(w) PROVE HeldRows'
    BY <1>1, <1>4, <2>3 DEF Crash, Restart
  <2> QED BY <1>7, <1>8, <2>1, <2>2, <2>3 DEF Next
<1> QED BY <1>1, <1>8 DEF vars, workerVars

(* save_chunks starts from nothing and stops at the last insert. *)
LEMMA SavedStep ==
    ASSUME IInv, [Next]_vars
    PROVE  SavedInStep'
<1> DEFINE Early == {"idle", "load", "slot", "waiting", "start", "wipe"}
<1>0. TypeOK /\ SavedInStep
  BY DEF IInv
<1>1. ASSUME UNCHANGED <<pc, saved>> PROVE SavedInStep'
  BY <1>0, <1>1 DEF SavedInStep
<1>2. ASSUME NEW p \in Pollers, UNCHANGED saved, NEW place, Goto(p, place),
             place \notin Early /\ place # "persist"
      PROVE  SavedInStep'
  BY <1>0, <1>2 DEF SavedInStep, TypeOK, Goto
<1>3. ASSUME NEW p \in Pollers, UNCHANGED saved, NEW place, Goto(p, place),
             pc[p] \in Early
      PROVE  SavedInStep'
  BY <1>0, <1>3 DEF SavedInStep, TypeOK, Goto
<1>4. ASSUME NEW p \in Pollers, Rest(p) PROVE SavedInStep'
  BY <1>0, <1>4 DEF SavedInStep, TypeOK, Rest, Goto
<1>5. ASSUME NEW w \in Workers, Down(w) PROVE SavedInStep'
  BY <1>0, <1>5 DEF SavedInStep, TypeOK, Down
<1>6. ASSUME NEW p \in Pollers, PersistChunks(p) PROVE SavedInStep'
  BY <1>0, <1>6 DEF SavedInStep, TypeOK, PersistChunks, Goto, LastInsert
<1>7. ASSUME NEW p \in Pollers, Complete(p) \/ MarkFailed(p) \/ Fetch(p) PROVE SavedInStep'
  BY <1>2, <1>3, <1>4, <1>7 DEF Complete, MarkFailed, Fetch
<1>8. ASSUME NEW p \in Pollers, Handle(p) PROVE SavedInStep'
  <2>1. CASE LoadTransient(p)
    <3>1. WorkerOf[p] \in Workers
      OBVIOUS
    <3> QED BY <1>5, <2>1, <3>1 DEF LoadTransient
  <2>2. CASE \/ Load(p) \/ LoadFails(p) \/ TryLock(p) \/ EnterSlot(p)
             \/ Start(p) \/ WipeChunks(p)
    BY <1>3, <2>2 DEF Load, LoadFails, TryLock, EnterSlot, Start, WipeChunks
  <2>3. CASE \/ EnqueueEnrichment(p) \/ HandleSuccess(p) \/ PipelineFails(p)
             \/ HandleError(p) \/ ProgressOk(p) \/ ProgressFail(p)
    BY <1>2, <2>3 DEF EnqueueEnrichment, HandleSuccess, PipelineFails, HandleError,
                      ProgressOk, ProgressFail
  <2> QED BY <1>6, <1>8, <2>1, <2>2, <2>3 DEF Handle
<1>9. CASE Next
  <2>1. CASE Api \/ \E j \in JobIds : Expire(j)
    BY <1>1, <2>1 DEF Api, Register, RetryRead, RetryWrite, MarkBatch, DeleteBegin, PurgeChunks, DeleteRow, Expire, workerVars
  <2>2. ASSUME NEW p \in Pollers, Poll(p) PROVE SavedInStep'
    BY <1>1, <1>7, <2>2 DEF Poll, RequeueStale, FetchLost, Heartbeat, workerVars
  <2>3. ASSUME NEW w \in Workers, Crash(w) \/ Restart(w) PROVE SavedInStep'
    BY <1>1, <1>5, <2>3 DEF Crash, Restart
  <2> QED BY <1>8, <1>9, <2>1, <2>2, <2>3 DEF Next
<1> QED BY <1>1, <1>9 DEF vars, workerVars

THEOREM Invariance == Spec => []IInv
<1>1. IInv /\ [Next]_vars => IInv'
  BY TypeStep, HeldStep, SavedStep DEF IInv
<1> QED BY InitHolds, <1>1, PTL DEF Spec

-----------------------------------------------------------------------------
(* Every variable has its type, whatever the faults. *)
THEOREM TypeCorrect == Spec => []TypeOK
BY Invariance, PTL DEF IInv

(* A job that ended never runs again: neither a stale requeue, nor the     *)
(* requeue after a lookup error, nor a retry brings it back.               *)
THEOREM EndedJobsStayEnded == Spec => TerminalJobsStayTerminal
<1>1. IInv /\ [Next]_vars
        => [\A j \in JobIds : jobs[j].status \in Terminal => jobs'[j].status \in Terminal]_vars
  BY NextMoves DEF JobsMove
<1> QED BY Invariance, <1>1, PTL DEF Spec, TerminalJobsStayTerminal

(* Two active jobs of a document are one. *)
OneActive == \A d \in Docs : \A j, k \in ActiveJobs(d) : j = k

LEMMA OneActiveHolds == Spec => []OneActive
<1>1. Init => OneActive
  BY DEF Init, JobsInit, NoRow, OneActive, ActiveJobs, WithStatus, Active
<1>2. IInv /\ OneActive /\ [Next]_vars => OneActive'
  <2> SUFFICES ASSUME IInv, OneActive, JobsMove, NEW d \in Docs,
                      NEW j \in ActiveJobs(d)', NEW k \in ActiveJobs(d)'
               PROVE  j = k
    BY NextMoves DEF OneActive
  <2>1. /\ j \in JobIds /\ jobs'[j].status \in Active /\ jobs'[j].doc = d
        /\ k \in JobIds /\ jobs'[k].status \in Active /\ jobs'[k].doc = d
    BY DEF ActiveJobs, WithStatus
  <2>2. CASE jobs[j].status \in Active /\ jobs[k].status \in Active
    BY <2>1, <2>2 DEF JobsMove, OneActive, ActiveJobs, WithStatus, Active
  <2>3. ASSUME jobs[j].status \notin Active, j # k PROVE FALSE
    BY <2>1, <2>3 DEF JobsMove, ActiveJobs, WithStatus
  <2>4. ASSUME jobs[k].status \notin Active, j # k PROVE FALSE
    BY <2>1, <2>4 DEF JobsMove, ActiveJobs, WithStatus
  <2> QED BY <2>2, <2>3, <2>4
<1> QED BY Invariance, <1>1, <1>2, PTL DEF Spec

(* A document has at most one active job, through every retry, requeue,    *)
(* crash and late final mark: what the trigger's check is for.             *)
THEOREM AtMostOneActiveJob == Spec => []SingleActiveJob
<1>1. OneActive => SingleActiveJob
  <2> SUFFICES ASSUME OneActive, NEW d \in Docs PROVE Cardinality(ActiveJobs(d)) <= 1
    BY DEF SingleActiveJob
  <2>1. CASE ActiveJobs(d) = {}
    BY <2>1, FS_EmptySet
  <2>2. ASSUME NEW j \in ActiveJobs(d) PROVE Cardinality(ActiveJobs(d)) <= 1
    <3>1. ActiveJobs(d) = {j}
      BY <2>2 DEF OneActive
    <3>2. Cardinality({j}) = 1
      BY FS_Singleton
    <3> QED BY <3>1, <3>2
  <2> QED BY <2>1, <2>2
<1> QED BY OneActiveHolds, <1>1, PTL

-----------------------------------------------------------------------------
(* The pollers of a process whose document is in its lock set. *)
Inside(w) == {p \in Pollers : WorkerOf[p] = w /\ pc[p] \in Locking}

(* A step keeps the lock sets exact when it leaves them alone and no       *)
(* poller crosses the border of Locking, ...                               *)
LEMMA LocksKept ==
    ASSUME IInv, LocksExact, JobsMove, UNCHANGED locks,
           \A q \in Pollers : pc'[q] \in Locking <=> pc[q] \in Locking,
           \A q \in Pollers : pc[q] \in Locking => job'[q] = job[q]
    PROVE  LocksExact'
<1>1. \A q \in Pollers : pc[q] \in Locking => Doc(q)' = Doc(q)
  BY DEF IInv, HeldRows, JobsMove, Doc, Busy
<1>2. \A w \in Workers : Inside(w)' = Inside(w)
  BY DEF Inside
<1> SUFFICES ASSUME NEW w \in Workers
             PROVE  /\ locks'[w] = {Doc(q)' : q \in Inside(w)'}
                    /\ \A q, r \in Inside(w)' : Doc(q)' = Doc(r)' => q = r
  BY Zenon DEF LocksExact, Inside
<1>3. /\ locks[w] = {Doc(q) : q \in Inside(w)}
      /\ \A q, r \in Inside(w) : Doc(q) = Doc(r) => q = r
  BY DEF LocksExact, Inside
<1>4. \A q \in Inside(w) : Doc(q)' = Doc(q)
  BY <1>1 DEF Inside
<1> QED BY <1>2, <1>3, <1>4

(* ... as does a poller that takes or gives back its document's lock.      *)
LEMMA LocksTaken ==
    ASSUME IInv, LocksExact, JobsMove, NEW p \in Pollers, TryLock(p)
    PROVE  LocksExact'
<1> DEFINE w == WorkerOf[p]
<1>0. pc[p] = "slot" /\ UNCHANGED <<jobs, job>> /\ w \in Workers
  BY DEF TryLock
<1>1. CASE Doc(p) \in locks[w]
  BY <1>0, <1>1, LocksKept DEF IInv, TypeOK, TryLock, Goto, Locking, InSlot, Pipeline
<1>2. CASE Doc(p) \notin locks[w]
  <2>1. \A q \in Pollers : Doc(q)' = Doc(q)
    BY <1>0 DEF Doc
  <2>2. \A q \in Pollers : pc'[q] \in Locking <=> q = p \/ pc[q] \in Locking
    BY <1>0, <1>2 DEF IInv, TypeOK, TryLock, Goto, Locking
  <2>3. \A v \in Workers : locks'[v] = IF v = w THEN locks[v] \cup {Doc(p)} ELSE locks[v]
    BY <1>0, <1>2 DEF IInv, TypeOK, TryLock
  <2> SUFFICES ASSUME NEW v \in Workers
               PROVE  /\ locks'[v] = {Doc(q)' : q \in Inside(v)'}
                      /\ \A q, r \in Inside(v)' : Doc(q)' = Doc(r)' => q = r
    BY Zenon DEF LocksExact, Inside
  <2>4. Inside(v)' = IF v = w THEN Inside(v) \cup {p} ELSE Inside(v)
    BY <2>2 DEF Inside
  <2>5. /\ locks[v] = {Doc(q) : q \in Inside(v)}
        /\ \A q, r \in Inside(v) : Doc(q) = Doc(r) => q = r
    BY DEF LocksExact, Inside
  <2>6. Inside(v) \subseteq Pollers
    BY DEF Inside
  <2>7. locks'[v] = {Doc(q)' : q \in Inside(v)'}
    <3>1. \A S : S \subseteq Pollers => {Doc(q)' : q \in S} = {Doc(q) : q \in S}
      BY <2>1
    <3>2. {Doc(q) : q \in Inside(v) \cup {p}} = {Doc(q) : q \in Inside(v)} \cup {Doc(p)}
      OBVIOUS
    <3>3. {Doc(q)' : q \in Inside(v)'} = {Doc(q) : q \in Inside(v)'}
      BY <2>4, <2>6, <3>1
    <3> QED BY <2>3, <2>4, <2>5, <3>2, <3>3
  <2>8. \A q, r \in Inside(v)' : Doc(q)' = Doc(r)' => q = r
    BY <1>2, <2>1, <2>4, <2>5, <2>6
  <2> QED BY <2>7, <2>8
<1> QED BY <1>1, <1>2

LEMMA LocksReleased ==
    ASSUME IInv, LocksExact, NEW p \in Pollers, pc[p] \in Locking, Unlock(p),
           UNCHANGED <<jobs, job>>, NEW place, place \notin Locking, Goto(p, place)
    PROVE  LocksExact'
<1> DEFINE w == WorkerOf[p]
<1>1. \A q \in Pollers : Doc(q)' = Doc(q)
  BY DEF Doc
<1>2. \A q \in Pollers : pc'[q] \in Locking <=> q # p /\ pc[q] \in Locking
  BY DEF IInv, TypeOK, Goto
<1>3. \A v \in Workers : locks'[v] = IF v = w THEN locks[v] \ {Doc(p)} ELSE locks[v]
  BY DEF IInv, TypeOK, Unlock
<1> SUFFICES ASSUME NEW v \in Workers
             PROVE  /\ locks'[v] = {Doc(q)' : q \in Inside(v)'}
                    /\ \A q, r \in Inside(v)' : Doc(q)' = Doc(r)' => q = r
  BY Zenon DEF LocksExact, Inside
<1>4. Inside(v)' = IF v = w THEN Inside(v) \ {p} ELSE Inside(v)
  BY <1>2 DEF Inside
<1>5. /\ locks[v] = {Doc(q) : q \in Inside(v)}
      /\ \A q, r \in Inside(v) : Doc(q) = Doc(r) => q = r
  BY DEF LocksExact, Inside
<1>6. Inside(v) \subseteq Pollers /\ (v = w => p \in Inside(v))
  BY DEF Inside
<1>7. locks'[v] = {Doc(q)' : q \in Inside(v)'}
  <2>1. \A S : S \subseteq Pollers => {Doc(q)' : q \in S} = {Doc(q) : q \in S}
    BY <1>1
  <2>2. CASE v = w
    <3>1. {Doc(q) : q \in Inside(v) \ {p}} = {Doc(q) : q \in Inside(v)} \ {Doc(p)}
      BY <1>5, <1>6, <2>2
    <3> QED BY <1>3, <1>4, <1>5, <1>6, <2>1, <2>2, <3>1
  <2>3. CASE v # w
    BY <1>3, <1>4, <1>5, <1>6, <2>1, <2>3
  <2> QED BY <2>2, <2>3
<1>8. \A q, r \in Inside(v)' : Doc(q)' = Doc(r)' => q = r
  BY <1>1, <1>4, <1>5, <1>6
<1> QED BY <1>7, <1>8

(* A process that ends drops all its locks at once. *)
LEMMA LocksDropped ==
    ASSUME IInv, LocksExact, JobsMove, NEW w \in Workers, Down(w)
    PROVE  LocksExact'
<1>1. \A q \in Pollers : pc'[q] \in Locking <=> WorkerOf[q] # w /\ pc[q] \in Locking
  BY DEF IInv, TypeOK, Down, Locking, InSlot, Pipeline
<1>2. \A q \in Pollers : pc'[q] \in Locking => Doc(q)' = Doc(q)
  BY <1>1 DEF IInv, TypeOK, HeldRows, JobsMove, Down, Doc, Busy
<1>3. \A v \in Workers : locks'[v] = IF v = w THEN {} ELSE locks[v]
  BY DEF IInv, TypeOK, Down
<1>4. \A v \in Workers : Inside(v)' = IF v = w THEN {} ELSE Inside(v)
  BY <1>1 DEF Inside
<1> SUFFICES ASSUME NEW v \in Workers
             PROVE  /\ locks'[v] = {Doc(q)' : q \in Inside(v)'}
                    /\ \A q, r \in Inside(v)' : Doc(q)' = Doc(r)' => q = r
  BY Zenon DEF LocksExact, Inside
<1>5. /\ locks[v] = {Doc(q) : q \in Inside(v)}
      /\ \A q, r \in Inside(v) : Doc(q) = Doc(r) => q = r
  BY DEF LocksExact, Inside
<1>6. \A q \in Inside(v)' : Doc(q)' = Doc(q)
  BY <1>2 DEF Inside
<1> QED BY <1>3, <1>4, <1>5, <1>6

LEMMA LocksStep ==
    ASSUME IInv, LocksExact, [Next]_vars
    PROVE  LocksExact'
<1>0. TypeOK /\ JobsMove
  BY NextMoves DEF IInv
<1>1. ASSUME UNCHANGED <<pc, job, locks>> PROVE LocksExact'
  BY <1>0, <1>1, LocksKept
<1>2. ASSUME NEW p \in Pollers, UNCHANGED <<job, locks>>, NEW place, Goto(p, place),
             pc[p] \in Locking <=> place \in Locking
      PROVE  LocksExact'
  BY <1>0, <1>2, LocksKept DEF TypeOK, Goto
<1>3. ASSUME NEW p \in Pollers, Rest(p), UNCHANGED locks, pc[p] \notin Locking
      PROVE  LocksExact'
  BY <1>0, <1>3, LocksKept DEF TypeOK, Rest, Goto, Locking, InSlot, Pipeline
<1>4. ASSUME NEW p \in Pollers, Fetch(p) PROVE LocksExact'
  BY <1>0, <1>4, LocksKept DEF TypeOK, Fetch, Goto, Locking, InSlot, Pipeline
<1>5. ASSUME NEW p \in Pollers, Complete(p) \/ MarkFailed(p) PROVE LocksExact'
  BY <1>2, <1>3, <1>5 DEF Complete, MarkFailed, Locking, InSlot, Pipeline
<1>6. ASSUME NEW p \in Pollers, Handle(p) PROVE LocksExact'
  <2>1. CASE LoadTransient(p)
    <3>1. WorkerOf[p] \in Workers
      OBVIOUS
    <3> QED BY <1>0, <2>1, <3>1, LocksDropped DEF LoadTransient
  <2>2. CASE \/ Load(p) \/ LoadFails(p) \/ EnterSlot(p) \/ Start(p) \/ WipeChunks(p)
             \/ PersistChunks(p) \/ EnqueueEnrichment(p)
    BY <1>2, <2>2 DEF Load, LoadFails, EnterSlot, Start, WipeChunks, PersistChunks,
                      EnqueueEnrichment, Locking, InSlot, Pipeline
  <2>3. CASE HandleSuccess(p) \/ PipelineFails(p) \/ HandleError(p)
    BY <1>2, <2>3 DEF HandleSuccess, PipelineFails, HandleError, Locking, InSlot, Pipeline
  <2>4. CASE ProgressOk(p) \/ ProgressFail(p)
    BY <2>4, LocksReleased DEF ProgressOk, ProgressFail, Locking, InSlot, Pipeline
  <2> QED BY <1>0, <1>6, <2>1, <2>2, <2>3, <2>4, LocksTaken DEF Handle
<1>7. CASE Next
  <2>1. CASE Api \/ \E j \in JobIds : Expire(j)
    BY <1>1, <2>1 DEF Api, Register, RetryRead, RetryWrite, MarkBatch, DeleteBegin, PurgeChunks, DeleteRow, Expire, workerVars
  <2>2. ASSUME NEW p \in Pollers, Poll(p) PROVE LocksExact'
    BY <1>1, <1>4, <1>5, <2>2 DEF Poll, RequeueStale, FetchLost, Heartbeat, workerVars
  <2>3. ASSUME NEW w \in Workers, Crash(w) \/ Restart(w) PROVE LocksExact'
    BY <1>0, <1>1, <2>3, LocksDropped DEF Crash, Restart
  <2> QED BY <1>6, <1>7, <2>1, <2>2, <2>3 DEF Next
<1> QED BY <1>1, <1>7 DEF vars, workerVars

(* The document locks of a process are those of the pollers it has inside  *)
(* tenant_slot, each held once, whichever way the handler is left and      *)
(* whatever happens to the heartbeats.                                     *)
THEOREM DocumentLocksExact == Spec => []LocksExact
<1>1. Init => LocksExact
  BY DEF Init, LocksExact, Locking, InSlot, Pipeline
<1> QED BY Invariance, <1>1, LocksStep, PTL DEF Spec


-----------------------------------------------------------------------------
(***************************************************************************)
(* Part 2, when the heartbeats of live processes get through (no "lapse"): *)
(* a job has one holder, a document one poller that works on it, over any  *)
(* number of processes, and a document that is marked processed has        *)
(* exactly the chunks of one run.                                          *)
(*                                                                         *)
(* Claimed is what the heartbeat is for: the row of a poller that works    *)
(* stays processing and fresh, so no requeue can take it.  Chunks follow a *)
(* run from the deletion on, and rest on nobody else working on the same   *)
(* document.                                                               *)
(***************************************************************************)

NoLapse == "lapse" \notin Faults

HoldsJob(p) == job[p] # NoJob

Claimed ==
    /\ \A p \in Pollers : pc[p] = "idle" => ~HoldsJob(p)
    /\ \A p \in Pollers : HoldsJob(p) =>
         /\ jobs[job[p]].status \in {"processing", "completed", "failed"}
         /\ jobs[job[p]].fresh = TRUE
    /\ \A p \in Pollers : pc[p] \in Busy \ {"markFailed"} => jobs[job[p]].status = "processing"
    /\ \A p, q \in Pollers : job[p] = job[q] /\ HoldsJob(p) => p = q

USE DEF NoJob

LEMMA InitClaimed == Init => Claimed
BY DEF Init, Claimed, HoldsJob, Busy, Locking, InSlot, Pipeline

-----------------------------------------------------------------------------
(* What the statements of JobQueue do to the rows.                         *)

LEMMA TriggerRows ==
    ASSUME JobsTypeOK, NEW d \in Docs, TriggerEnqueue(d)
    PROVE  \A j \in JobIds : jobs[j].status # "absent" => jobs'[j] = jobs[j]
<1>1. CASE UNCHANGED jobs
  BY <1>1
<1>2. CASE \E j \in Oldest(WithStatus({"absent"})) :
             jobs' = [jobs EXCEPT ![j] = [status |-> "pending", doc |-> d, fresh |-> TRUE]]
  BY <1>2 DEF Oldest, WithStatus, JobsTypeOK
<1> QED BY <1>1, <1>2 DEF TriggerEnqueue

LEMMA FetchRows ==
    ASSUME JobsTypeOK, NEW j \in JobIds, FetchNextJob(j)
    PROVE  /\ jobs[j].status = "pending"
           /\ jobs'[j].status = "processing"
           /\ jobs'[j].fresh = TRUE
           /\ \A k \in JobIds \ {j} : jobs'[k] = jobs[k]
BY DEF JobsTypeOK, FetchNextJob, Oldest, WithStatus, Row

LEMMA FinalRows ==
    ASSUME JobsTypeOK, NEW j \in JobIds, NEW status, MarkJobFinal(j, status)
    PROVE  /\ jobs'[j].status = status
           /\ jobs'[j].fresh = TRUE
           /\ \A k \in JobIds \ {j} : jobs'[k] = jobs[k]
BY DEF JobsTypeOK, MarkJobFinal, Row

LEMMA RetryRows ==
    ASSUME JobsTypeOK, NEW j \in JobIds, RequeueJobForRetry(j)
    PROVE  \A k \in JobIds \ {j} : jobs'[k] = jobs[k]
BY DEF JobsTypeOK, RequeueJobForRetry, Row

LEMMA StaleRows ==
    ASSUME JobsTypeOK, RequeueStaleJobs, NEW j \in JobIds, jobs[j].fresh = TRUE
    PROVE  jobs'[j] = jobs[j]
BY DEF RequeueStaleJobs, StaleJobs

LEMMA FreshRows ==
    ASSUME JobsTypeOK, NEW j \in JobIds, NEW b \in BOOLEAN, jobs' = [jobs EXCEPT ![j].fresh = b]
    PROVE  /\ jobs'[j].status = jobs[j].status
           /\ jobs'[j].fresh = b
           /\ \A k \in JobIds \ {j} : jobs'[k] = jobs[k]
BY DEF JobsTypeOK, Row

-----------------------------------------------------------------------------
(* The holders keep their rows.                                            *)

LEMMA HeldKept ==
    ASSUME Claimed, HeldRows, UNCHANGED <<pc, job>>,
           \A p \in Pollers : HoldsJob(p) =>
             /\ jobs'[job[p]].status = jobs[job[p]].status
             /\ jobs'[job[p]].fresh = TRUE
    PROVE  Claimed'
<1>1. \A p \in Pollers : pc[p] \in Busy \ {"markFailed"} => HoldsJob(p)
  BY DEF HeldRows, HoldsJob, JobIds
<1> QED BY <1>1 DEF Claimed, HoldsJob

LEMMA DownClaimed ==
    ASSUME TypeOK, Claimed, HeldRows, NEW w \in Workers, Down(w),
           \A p \in Pollers : HoldsJob(p) /\ WorkerOf[p] # w => jobs'[job[p]] = jobs[job[p]]
    PROVE  Claimed'
<1>1. \A p \in Pollers : /\ WorkerOf[p] = w => pc'[p] = "idle" /\ job'[p] = NoJob
                         /\ WorkerOf[p] # w => pc'[p] = pc[p] /\ job'[p] = job[p]
  BY DEF Down, TypeOK
<1>2. \A p \in Pollers : pc[p] \in Busy \ {"markFailed"} => HoldsJob(p)
  BY DEF HeldRows, HoldsJob, JobIds
<1>3. "idle" \notin Busy
  BY DEF Busy, Locking, InSlot, Pipeline
<1> QED BY <1>1, <1>2, <1>3 DEF Claimed, HoldsJob

LEMMA FetchClaimed ==
    ASSUME TypeOK, Claimed, HeldRows, NEW p \in Pollers, Fetch(p)
    PROVE  Claimed'
<1>1. PICK j \in JobIds : FetchNextJob(j) /\ job' = [job EXCEPT ![p] = j]
  BY DEF Fetch
<1>2. /\ jobs[j].status = "pending" /\ jobs'[j].status = "processing" /\ jobs'[j].fresh = TRUE
      /\ \A k \in JobIds \ {j} : jobs'[k] = jobs[k]
  BY <1>1, FetchRows DEF TypeOK
<1>3. \A q \in Pollers : job[q] # j
  BY <1>1, <1>2 DEF Claimed, HoldsJob, JobIds
<1>4. /\ \A q \in Pollers \ {p} : job'[q] = job[q] /\ pc'[q] = pc[q]
      /\ job'[p] = j /\ pc'[p] = "load"
  BY <1>1 DEF TypeOK, Fetch, Goto
<1>5. \A q \in Pollers : HoldsJob(q) => jobs'[job[q]] = jobs[job[q]]
  BY <1>2, <1>3 DEF TypeOK, HoldsJob
<1>6. \A q \in Pollers : pc[q] \in Busy \ {"markFailed"} => HoldsJob(q)
  BY DEF HeldRows, HoldsJob, JobIds
<1>7. j # NoJob
  BY <1>1 DEF JobIds
<1>8. \A q \in Pollers : pc'[q] \in Busy \ {"markFailed"} => jobs'[job'[q]].status = "processing"
  BY <1>2, <1>4, <1>5, <1>6 DEF Claimed
<1>9. \A q \in Pollers : job'[q] # NoJob =>
        /\ jobs'[job'[q]].status \in {"processing", "completed", "failed"}
        /\ jobs'[job'[q]].fresh = TRUE
  BY <1>2, <1>4, <1>5 DEF Claimed, HoldsJob
<1>10. \A q, r \in Pollers : job'[q] = job'[r] /\ job'[q] # NoJob => q = r
  BY <1>3, <1>4 DEF Claimed, HoldsJob
<1> QED BY <1>4, <1>7, <1>8, <1>9, <1>10 DEF Claimed, HoldsJob

LEMMA EndClaimed ==
    ASSUME TypeOK, Claimed, HeldRows, NEW p \in Pollers, Complete(p) \/ MarkFailed(p)
    PROVE  Claimed'
<1>1. job[p] # NoJob /\ job[p] \in JobIds
  BY DEF Complete, MarkFailed, HeldRows, Busy, JobIds
<1>2. /\ \A k \in JobIds \ {job[p]} : jobs'[k] = jobs[k]
      /\ \/ jobs'[job[p]] = jobs[job[p]]
         \/ jobs'[job[p]].status \in {"completed", "failed"} /\ jobs'[job[p]].fresh = TRUE
  <2>1. \/ UNCHANGED jobs
        \/ MarkJobFinal(job[p], "completed")
        \/ MarkJobFinal(job[p], "failed")
    BY DEF Complete, MarkFailed
  <2> QED BY <1>1, <2>1, FinalRows DEF TypeOK
<1>3. /\ \A q \in Pollers \ {p} : job'[q] = job[q] /\ pc'[q] = pc[q]
      /\ \/ job'[p] = NoJob /\ pc'[p] = "idle"
         \/ job'[p] = job[p] /\ pc'[p] = "markFailed"
  <2>1. Rest(p) \/ (Goto(p, "markFailed") /\ UNCHANGED job)
    <3>1. CASE Complete(p)
      BY <3>1 DEF Complete
    <3>2. CASE MarkFailed(p)
      BY <3>2 DEF MarkFailed
    <3> QED BY <3>1, <3>2
  <2> QED BY <2>1 DEF Rest, Goto, TypeOK
<1>4. \A q \in Pollers \ {p} : HoldsJob(q) => jobs'[job[q]] = jobs[job[q]]
  BY <1>1, <1>2 DEF Claimed, HoldsJob, TypeOK
<1>5. \A q \in Pollers : pc[q] \in Busy \ {"markFailed"} => HoldsJob(q)
  BY DEF HeldRows, HoldsJob, JobIds
<1>6. \A q \in Pollers : pc'[q] = "idle" => job'[q] = NoJob
  BY <1>3 DEF Claimed, HoldsJob
<1>7. "idle" \notin Busy
  BY DEF Busy, Locking, InSlot, Pipeline
<1>8. \A q \in Pollers : pc'[q] \in Busy \ {"markFailed"} => jobs'[job'[q]].status = "processing"
  BY <1>3, <1>4, <1>5, <1>7 DEF Claimed
<1>9. \A q \in Pollers : job'[q] # NoJob =>
        /\ jobs'[job'[q]].status \in {"processing", "completed", "failed"}
        /\ jobs'[job'[q]].fresh = TRUE
  BY <1>1, <1>2, <1>3, <1>4 DEF Claimed, HoldsJob
<1>10. \A q, r \in Pollers : job'[q] = job'[r] /\ job'[q] # NoJob => q = r
  BY <1>3 DEF Claimed, HoldsJob
<1> QED BY <1>6, <1>8, <1>9, <1>10 DEF Claimed, HoldsJob

LEMMA StepClaimed ==
    ASSUME NoLapse \/ UNCHANGED faults, IInv, Claimed, [Next]_vars
    PROVE  Claimed'
<1>0. TypeOK /\ JobsTypeOK /\ HeldRows
  BY DEF IInv, TypeOK
<1>1. CASE UNCHANGED <<pc, job, jobs>>
  BY <1>0, <1>1, HeldKept DEF Claimed
<1>2. ASSUME NEW d \in Docs, Register(d) \/ \E n \in 0 .. MaxRequests : RetryWrite(d, n)
      PROVE  Claimed'
  <2>1. \A j \in JobIds : jobs[j].status # "absent" => jobs'[j] = jobs[j]
    BY <1>0, <1>2, TriggerRows DEF Register, RetryWrite
  <2>2. \A p \in Pollers : HoldsJob(p) => jobs'[job[p]] = jobs[job[p]]
    BY <1>0, <2>1 DEF Claimed, HoldsJob, TypeOK
  <2>3. UNCHANGED <<pc, job>>
    BY <1>2 DEF Register, RetryWrite, workerVars
  <2> QED BY <1>0, <2>2, <2>3, HeldKept DEF Claimed
<1>3. ASSUME NEW p \in Pollers, RequeueStale(p) PROVE Claimed'
  <2>1. \A q \in Pollers : HoldsJob(q) => jobs'[job[q]] = jobs[job[q]]
    <3> SUFFICES ASSUME NEW q \in Pollers, HoldsJob(q) PROVE jobs'[job[q]] = jobs[job[q]]
      OBVIOUS
    <3>1. job[q] \in JobIds /\ jobs[job[q]].fresh = TRUE
      BY <1>0 DEF Claimed, HoldsJob, TypeOK
    <3>2. RequeueStaleJobs
      BY <1>3 DEF RequeueStale
    <3> QED BY <1>0, <3>1, <3>2, StaleRows
  <2>2. UNCHANGED <<pc, job>>
    BY <1>3 DEF RequeueStale, workerVars
  <2> QED BY <1>0, <2>1, <2>2, HeldKept DEF Claimed
<1>4. ASSUME NEW p \in Pollers, FetchLost(p) PROVE Claimed'
  <2>1. PICK j \in JobIds : FetchNextJob(j)
    BY <1>4 DEF FetchLost
  <2>2. jobs[j].status = "pending" /\ \A k \in JobIds \ {j} : jobs'[k] = jobs[k]
    BY <1>0, <2>1, FetchRows
  <2>3. \A q \in Pollers : HoldsJob(q) => jobs'[job[q]] = jobs[job[q]]
    BY <1>0, <2>1, <2>2 DEF Claimed, HoldsJob, TypeOK
  <2>4. UNCHANGED <<pc, job>>
    BY <1>4 DEF FetchLost, workerVars
  <2> QED BY <1>0, <2>3, <2>4, HeldKept DEF Claimed
<1>5. ASSUME NEW p \in Pollers, Heartbeat(p) PROVE Claimed'
  <2>1. job[p] \in JobIds /\ jobs' = [jobs EXCEPT ![job[p]].fresh = TRUE]
    BY <1>5 DEF Heartbeat, Beat, StaleJobs, WithStatus
  <2>2. \A q \in Pollers : HoldsJob(q) =>
          jobs'[job[q]].status = jobs[job[q]].status /\ jobs'[job[q]].fresh = TRUE
    BY <1>0, <2>1, FreshRows DEF Claimed, HoldsJob, TypeOK
  <2>3. UNCHANGED <<pc, job>>
    BY <1>5 DEF Heartbeat, workerVars
  <2> QED BY <1>0, <2>2, <2>3, HeldKept
<1>6. ASSUME NEW j \in JobIds, Expire(j) PROVE Claimed'
  <2>1. jobs' = [jobs EXCEPT ![j].fresh = FALSE]
    BY <1>6 DEF Expire, GrowStale
  <2>2. \A q \in Pollers : job[q] # j
    BY <1>0, <1>6 DEF Expire, Holders, Fault, NoLapse, TypeOK
  <2>3. \A q \in Pollers : HoldsJob(q) => jobs'[job[q]] = jobs[job[q]]
    BY <1>0, <2>1, <2>2, FreshRows DEF HoldsJob, TypeOK
  <2>4. UNCHANGED <<pc, job>>
    BY <1>6 DEF Expire, workerVars
  <2> QED BY <1>0, <2>3, <2>4, HeldKept DEF Claimed
<1>7. ASSUME NEW w \in Workers, Crash(w) PROVE Claimed'
  BY <1>0, <1>7, DownClaimed DEF Crash
<1>8. ASSUME NEW p \in Pollers, LoadTransient(p) PROVE Claimed'
  <2>1. job[p] \in JobIds /\ HoldsJob(p)
    BY <1>8, HeldDoc DEF LoadTransient, Busy, HoldsJob, JobIds
  <2>2. \A k \in JobIds \ {job[p]} : jobs'[k] = jobs[k]
    BY <1>0, <1>8, <2>1, RetryRows DEF LoadTransient
  <2>3. \A q \in Pollers : HoldsJob(q) /\ WorkerOf[q] # WorkerOf[p] => jobs'[job[q]] = jobs[job[q]]
    BY <1>0, <2>1, <2>2 DEF Claimed, HoldsJob, TypeOK
  <2>4. WorkerOf[p] \in Workers
    BY WorkerAssumption
  <2> QED BY <1>0, <1>8, <2>3, <2>4, DownClaimed DEF LoadTransient
<1>9. ASSUME NEW p \in Pollers, NEW place \in Busy, pc[p] \in Busy \ {"markFailed"},
             Goto(p, place), UNCHANGED <<jobs, job>>
      PROVE  Claimed'
  <2>1. "idle" \notin Busy
    BY DEF Busy, Locking, InSlot, Pipeline
  <2> QED BY <1>0, <1>9, <2>1 DEF Claimed, HoldsJob, TypeOK, Goto
<1>10. ASSUME NEW p \in Pollers, Handle(p), ~LoadTransient(p) PROVE Claimed'
  <2>1. pc[p] \in Busy \ {"markFailed"} /\ UNCHANGED <<jobs, job>>
    BY <1>10
    DEF Handle, Load, LoadFails, TryLock, EnterSlot, Start, WipeChunks, PersistChunks,
        EnqueueEnrichment, HandleSuccess, PipelineFails, HandleError, ProgressOk,
        ProgressFail, Busy, Locking, InSlot, Pipeline
  <2>2. \E place \in Busy : Goto(p, place)
    BY <1>10
    DEF Handle, Load, LoadFails, TryLock, EnterSlot, Start, WipeChunks, PersistChunks,
        EnqueueEnrichment, HandleSuccess, PipelineFails, HandleError, ProgressOk,
        ProgressFail, Busy, Locking, InSlot, Pipeline
  <2> QED BY <1>9, <2>1, <2>2
<1>11. CASE Next
  <2>1. CASE Api
    BY <1>1, <1>2, <2>1 DEF Api, RetryRead, MarkBatch, DeleteBegin, PurgeChunks, DeleteRow, workerVars
  <2>2. ASSUME NEW p \in Pollers, Poll(p) PROVE Claimed'
    BY <1>0, <1>3, <1>4, <1>5, <2>2, FetchClaimed, EndClaimed DEF Poll
  <2>3. ASSUME NEW p \in Pollers, Handle(p) PROVE Claimed'
    BY <1>8, <1>10, <2>3
  <2>4. ASSUME NEW w \in Workers, Crash(w) \/ Restart(w) PROVE Claimed'
    BY <1>1, <1>7, <2>4 DEF Restart
  <2> QED BY <1>6, <1>11, <2>1, <2>2, <2>3, <2>4 DEF Next
<1> QED BY <1>1, <1>11 DEF vars, workerVars

LEMMA ClaimedHolds ==
    ASSUME NoLapse
    PROVE  Spec => []Claimed
<1>1. IInv /\ Claimed /\ [Next]_vars => Claimed'
  BY NoLapse, StepClaimed
<1> QED BY InitClaimed, Invariance, <1>1, PTL DEF Spec

LEMMA AtMostOne ==
    ASSUME NEW S, \A a, b \in S : a = b
    PROVE  Cardinality(S) <= 1
<1>1. CASE S = {}
  BY <1>1, FS_EmptySet
<1>2. ASSUME NEW a \in S PROVE Cardinality(S) <= 1
  <2>1. S = {a}
    OBVIOUS
  <2>2. Cardinality(S) = 1
    BY <2>1, FS_Singleton
  <2> QED BY <2>2
<1> QED BY <1>1, <1>2

(* While heartbeats get through, no two live pollers of any processes hold *)
(* the same job.                                                           *)
THEOREM JobsHaveOneHolder ==
    ASSUME NoLapse
    PROVE  Spec => []ExclusiveClaim
<1>1. Claimed => ExclusiveClaim
  <2> SUFFICES ASSUME Claimed, NEW j \in JobIds PROVE Cardinality(Holders(j)) <= 1
    BY DEF ExclusiveClaim
  <2>1. \A p, q \in Holders(j) : p = q
    BY DEF Claimed, Holders, HoldsJob, JobIds
  <2> QED BY <2>1, AtMostOne
<1> QED BY ClaimedHolds, <1>1, PTL

(* The pollers that work on a document do so for its one active job.       *)
LEMMA OneProcessor ==
    ASSUME IInv, Claimed, OneActive, NEW p \in Pollers, NEW q \in Pollers,
           pc[p] \in Locking, pc[q] \in Locking, Doc(p) = Doc(q)
    PROVE  p = q
<1>1. pc[p] \in Busy \ {"markFailed"} /\ pc[q] \in Busy \ {"markFailed"}
  BY DEF Busy, Locking, InSlot, Pipeline
<1>2. job[p] \in JobIds /\ job[q] \in JobIds /\ Doc(p) \in Docs
  BY <1>1, HeldDoc
<1>3. jobs[job[p]].status = "processing" /\ jobs[job[q]].status = "processing"
  BY <1>1 DEF Claimed
<1>4. job[p] \in ActiveJobs(Doc(p)) /\ job[q] \in ActiveJobs(Doc(p))
  BY <1>2, <1>3 DEF ActiveJobs, WithStatus, Active, Doc
<1>5. job[p] = job[q] /\ job[p] # NoJob
  BY <1>2, <1>4 DEF OneActive, JobIds
<1> QED BY <1>5 DEF Claimed, HoldsJob

(* While heartbeats get through, one poller of all processes at most works *)
(* on a document: the trigger keeps its jobs apart, the claim the pollers. *)
THEOREM DocumentsHaveOneProcessor ==
    ASSUME NoLapse
    PROVE  Spec => []OneProcessorPerDoc
<1>1. IInv /\ Claimed /\ OneActive => OneProcessorPerDoc
  BY OneProcessor DEF OneProcessorPerDoc
<1> QED BY Invariance, ClaimedHolds, OneActiveHolds, <1>1, PTL

-----------------------------------------------------------------------------
(* The chunks of a document.                                               *)

(* A job is for a document that was registered. *)
Registered ==
    \A j \in JobIds : jobs[j].status # "absent" => docs[jobs[j].doc].status # "unregistered"

Writing == {"wipe", "persist", "enqueue", "success"}

(* The chunks of n inserts are there once, but for those a deletion took.  *)
OneSet(d, n) ==
    /\ chunks[d] <= n
    /\ chunks[d] < n => d \in purged

(* How far a run is with the chunks of its document. *)
RunOK(p) ==
    pc[p] \in Writing /\ Exists(Doc(p)) =>
      /\ docs[Doc(p)].status # "processed"
      /\ pc[p] = "persist" => OneSet(Doc(p), saved[p])
      /\ pc[p] \in {"enqueue", "success"} => OneSet(Doc(p), ChunkInserts)

Chunks == Registered /\ ProcessedHasChunks /\ \A p \in Pollers : RunOK(p)

All == IInv /\ Claimed /\ OneActive /\ Chunks

LEMMA InitChunks == Init => Chunks
BY DEF Init, JobsInit, NoRow, Chunks, Registered, ProcessedHasChunks, RunOK, Writing

LEMMA RegisteredStep ==
    ASSUME IInv, Registered, [Next]_vars
    PROVE  Registered'
<1>0. TypeOK /\ JobsTypeOK /\ JobsTypeOK' /\ JobsMove
  BY NextMoves DEF IInv, TypeOK, JobsMove
<1>1. ASSUME \A d \in Docs : docs[d].status # "unregistered" => docs'[d].status # "unregistered",
             \A j \in JobIds : jobs[j].status = "absent" /\ jobs'[j].status # "absent" =>
               docs'[jobs'[j].doc].status # "unregistered"
      PROVE  Registered'
  BY <1>0, <1>1 DEF Registered, JobsMove, JobsTypeOK
<1>2. ASSUME NEW d \in Docs, Register(d) \/ \E n \in 0 .. MaxRequests : RetryWrite(d, n)
      PROVE  Registered'
  <2>1. \/ UNCHANGED <<docs, jobs>>
        \/ docs'[d].status = "queued" /\ TriggerEnqueue(d) /\ \A e \in Docs \ {d} : docs'[e] = docs[e]
    <3>1. CASE Register(d)
      <4>1. docs' = [docs EXCEPT ![d].status = "queued"] /\ TriggerEnqueue(d)
        BY <3>1 DEF Register
      <4> QED BY <1>0, <4>1 DEF TypeOK, DocRow
    <3>2. ASSUME NEW n \in 0 .. MaxRequests, RetryWrite(d, n)
          PROVE  \/ UNCHANGED <<docs, jobs>>
                 \/ /\ docs'[d].status = "queued" /\ TriggerEnqueue(d)
                    /\ \A e \in Docs \ {d} : docs'[e] = docs[e]
      BY <1>0, <3>2 DEF RetryWrite, TypeOK
    <3> QED BY <1>2, <3>1, <3>2
  <2>2. CASE UNCHANGED <<docs, jobs>>
    BY <2>2 DEF Registered
  <2>3. CASE docs'[d].status = "queued" /\ TriggerEnqueue(d) /\ \A e \in Docs \ {d} : docs'[e] = docs[e]
    <3>1. \A j \in JobIds : jobs[j].status = "absent" /\ jobs'[j].status # "absent" => jobs'[j].doc = d
      BY <1>0, <2>3 DEF TriggerEnqueue, JobsTypeOK, Oldest, WithStatus
    <3> QED BY <1>1, <2>3, <3>1
  <2> QED BY <2>1, <2>2, <2>3
<1>3. ASSUME \A j \in JobIds : jobs[j].status = "absent" => jobs'[j].status = "absent",
             \A d \in Docs : docs[d].status # "unregistered" => docs'[d].status # "unregistered"
      PROVE  Registered'
  BY <1>1, <1>3
<1>4. ASSUME UNCHANGED jobs,
             \A d \in Docs : docs'[d] = docs[d] \/ docs'[d].status # "unregistered"
      PROVE  Registered'
  BY <1>3, <1>4
<1>5. ASSUME NEW p \in Pollers, Poll(p) PROVE Registered'
  <2>1. UNCHANGED docs
    BY <1>5 DEF Poll, RequeueStale, Fetch, FetchLost, Complete, MarkFailed, Heartbeat, worldVars
  <2>2. \A j \in JobIds : jobs[j].status = "absent" => jobs'[j].status = "absent"
    <3>1. CASE RequeueStale(p)
      BY <1>0, <3>1 DEF RequeueStale, RequeueStaleJobs, StaleJobs, WithStatus
    <3>2. CASE Fetch(p) \/ FetchLost(p)
      BY <1>0, <3>2, FetchRows DEF Fetch, FetchLost
    <3>3. CASE Complete(p) \/ MarkFailed(p)
      <4>1. job[p] \in JobIds /\ jobs[job[p]].status # "absent"
        BY <3>3, HeldDoc DEF Complete, MarkFailed, Busy
      <4>2. \/ UNCHANGED jobs
            \/ MarkJobFinal(job[p], "completed")
            \/ MarkJobFinal(job[p], "failed")
        BY <3>3 DEF Complete, MarkFailed
      <4> QED BY <1>0, <4>1, <4>2, FinalRows
    <3>4. CASE Heartbeat(p)
      <4>1. job[p] \in JobIds /\ jobs' = [jobs EXCEPT ![job[p]].fresh = TRUE]
        BY <3>4 DEF Heartbeat, Beat, StaleJobs, WithStatus
      <4> QED BY <1>0, <4>1, FreshRows
    <3> QED BY <1>5, <3>1, <3>2, <3>3, <3>4 DEF Poll
  <2> QED BY <1>3, <2>1, <2>2
<1>6. ASSUME NEW p \in Pollers, Handle(p) PROVE Registered'
  <2>1. CASE LoadTransient(p)
    <3>1. job[p] \in JobIds /\ jobs[job[p]].status # "absent"
      BY <2>1, HeldDoc DEF LoadTransient, Busy
    <3>2. \A j \in JobIds : jobs[j].status = "absent" => jobs'[j].status = "absent"
      BY <1>0, <2>1, <3>1, RetryRows DEF LoadTransient
    <3>3. UNCHANGED docs
      BY <2>1 DEF LoadTransient, worldVars
    <3> QED BY <1>3, <3>2, <3>3
  <2>2. CASE ~LoadTransient(p)
    <3>1. UNCHANGED jobs
      BY <1>6, <2>2
      DEF Handle, Load, LoadFails, TryLock, EnterSlot, Start, WipeChunks, PersistChunks,
          EnqueueEnrichment, HandleSuccess, PipelineFails, HandleError, ProgressOk, ProgressFail
    <3>2. \/ UNCHANGED docs
          \/ docs' = [docs EXCEPT ![Doc(p)] = [status |-> "processing", retry |-> rec[p].retry]]
          \/ docs' = [docs EXCEPT ![Doc(p)] = [status |-> "processed", retry |-> rec[p].retry]]
          \/ docs' = [docs EXCEPT ![Doc(p)] = [status |-> "failed", retry |-> rec[p].retry]]
      BY <1>6, <2>2
      DEF Handle, Load, LoadFails, TryLock, EnterSlot, Start, WipeChunks, PersistChunks,
          EnqueueEnrichment, HandleSuccess, PipelineFails, HandleError, ProgressOk, ProgressFail,
          worldVars
    <3>3. \A d \in Docs : docs'[d] = docs[d] \/ docs'[d].status # "unregistered"
      BY <1>0, <3>2 DEF TypeOK
    <3> QED BY <1>4, <3>1, <3>3
  <2> QED BY <2>1, <2>2
<1>7. ASSUME NEW d \in Docs, MarkBatch(d) \/ DeleteBegin(d) \/ PurgeChunks(d) \/ DeleteRow(d)
      PROVE  Registered'
  BY <1>0, <1>4, <1>7
  DEF MarkBatch, DeleteBegin, PurgeChunks, DeleteRow, worldVars, TypeOK, DocRow
<1>8. ASSUME NEW j \in JobIds, Expire(j) PROVE Registered'
  <2>1. jobs' = [jobs EXCEPT ![j].fresh = FALSE] /\ UNCHANGED docs
    BY <1>8 DEF Expire, GrowStale, worldVars
  <2> QED BY <1>0, <1>3, <2>1, FreshRows
<1>9. CASE UNCHANGED <<docs, jobs>>
  BY <1>9 DEF Registered
<1>10. CASE Next
  <2>1. CASE Api
    BY <1>2, <1>7, <1>9, <2>1 DEF Api, RetryRead, worldVars
  <2>2. ASSUME NEW w \in Workers, Crash(w) \/ Restart(w) PROVE Registered'
    BY <1>9, <2>2 DEF Crash, Restart, worldVars
  <2> QED BY <1>5, <1>6, <1>8, <1>10, <2>1, <2>2 DEF Next
<1> QED BY <1>9, <1>10 DEF vars, worldVars

(* The chunks of a document, and whether a deletion took some.             *)
ChunksKept(d) == chunks'[d] = chunks[d] /\ (d \in purged' <=> d \in purged)

(* A run is where it was when it and its document are.                     *)
LEMMA RunKept ==
    ASSUME IInv, JobsMove, NEW q \in Pollers, RunOK(q),
           pc'[q] \in Writing => /\ pc'[q] = pc[q] /\ job'[q] = job[q] /\ saved'[q] = saved[q]
                                /\ docs'[Doc(q)] = docs[Doc(q)] /\ ChunksKept(Doc(q))
    PROVE  RunOK(q)'
<1> SUFFICES ASSUME pc'[q] \in Writing PROVE RunOK(q)'
  BY DEF RunOK
<1>1. Doc(q)' = Doc(q)
  BY DEF IInv, HeldRows, JobsMove, Doc, Busy, Locking, InSlot, Pipeline, Writing
<1>2. Exists(Doc(q))' <=> Exists(Doc(q))
  BY <1>1 DEF Exists
<1> QED BY <1>1, <1>2 DEF RunOK, OneSet, ChunksKept

(* Only steps inside the pipeline, and the API, touch the documents.       *)
LEMMA ChunksApart ==
    ASSUME IInv, Chunks, JobsMove, UNCHANGED <<docs, chunks, purged>>,
           \A q \in Pollers : pc'[q] \in Writing =>
             pc'[q] = pc[q] /\ job'[q] = job[q] /\ saved'[q] = saved[q]
    PROVE  ProcessedHasChunks' /\ \A q \in Pollers : RunOK(q)'
<1>1. ProcessedHasChunks'
  BY DEF Chunks, ProcessedHasChunks
<1>2. ASSUME NEW q \in Pollers PROVE RunOK(q)'
  BY RunKept DEF Chunks, ChunksKept
<1> QED BY <1>1, <1>2

(* The other runs are at other documents.                                  *)
LEMMA RunsApart ==
    ASSUME All, JobsMove, NEW p \in Pollers, pc[p] \in Locking,
           \A q \in Pollers \ {p} : pc'[q] = pc[q] /\ job'[q] = job[q] /\ saved'[q] = saved[q],
           \A d \in Docs \ {Doc(p)} : docs'[d] = docs[d] /\ ChunksKept(d)
    PROVE  \A q \in Pollers \ {p} : RunOK(q)'
<1> SUFFICES ASSUME NEW q \in Pollers \ {p} PROVE RunOK(q)'
  OBVIOUS
<1>1. CASE pc[q] \in Writing
  <2>1. pc[q] \in Locking /\ pc[q] \in Busy
    BY <1>1 DEF Writing, Busy, Locking, InSlot, Pipeline
  <2>2. Doc(q) # Doc(p) /\ Doc(q) \in Docs
    BY <2>1, OneProcessor, HeldDoc DEF All
  <2> QED BY <2>2, RunKept DEF All, Chunks
<1>2. CASE pc[q] \notin Writing
  BY <1>2 DEF RunOK
<1> QED BY <1>1, <1>2

LEMMA PipelineStep ==
    ASSUME All, JobsMove, NEW p \in Pollers,
           \/ Start(p) \/ WipeChunks(p) \/ PersistChunks(p) \/ EnqueueEnrichment(p)
           \/ HandleSuccess(p) \/ HandleError(p)
    PROVE  ProcessedHasChunks' /\ \A q \in Pollers : RunOK(q)'
<1>0. TypeOK /\ IInv /\ RunOK(p) /\ ProcessedHasChunks
  BY DEF All, IInv, Chunks
<1>1. pc[p] \in Locking /\ pc[p] \in Busy
  BY DEF Start, WipeChunks, PersistChunks, EnqueueEnrichment, HandleSuccess, HandleError,
         Busy, Locking, InSlot, Pipeline
<1>2. Doc(p) \in Docs /\ Doc(p)' = Doc(p) /\ UNCHANGED job
  <2>1. Doc(p) \in Docs
    BY <1>0, <1>1, HeldDoc
  <2>2. UNCHANGED <<jobs, job>>
    BY DEF Start, WipeChunks, PersistChunks, EnqueueEnrichment, HandleSuccess, HandleError
  <2> QED BY <2>1, <2>2 DEF Doc
<1>3. \A q \in Pollers \ {p} : pc'[q] = pc[q] /\ job'[q] = job[q] /\ saved'[q] = saved[q]
  BY <1>0 DEF Start, WipeChunks, PersistChunks, EnqueueEnrichment, HandleSuccess, HandleError,
              Goto, TypeOK
<1>4. \A d \in Docs \ {Doc(p)} : docs'[d] = docs[d] /\ ChunksKept(d)
  BY <1>0 DEF Start, WipeChunks, PersistChunks, EnqueueEnrichment, HandleSuccess, HandleError,
              TypeOK, ChunksKept, apiVars, deleteVars
<1>5. \A q \in Pollers \ {p} : RunOK(q)'
  BY <1>1, <1>3, <1>4, RunsApart
<1>6. ASSUME docs'[Doc(p)].status = "processed" => OneSet(Doc(p), ChunkInserts)', RunOK(p)'
      PROVE  ProcessedHasChunks' /\ \A q \in Pollers : RunOK(q)'
  BY <1>0, <1>2, <1>4, <1>5, <1>6 DEF ProcessedHasChunks, OneSet, ChunksKept
<1>7. CASE Start(p)
  <2>1. docs'[Doc(p)].status = "processing" /\ pc'[p] = "wipe"
    BY <1>0, <1>2, <1>7 DEF Start, Goto, TypeOK
  <2> QED BY <1>2, <1>6, <2>1 DEF RunOK
<1>8. CASE WipeChunks(p)
  <2>1. /\ pc[p] = "wipe" /\ Exists(Doc(p)) /\ docs'[Doc(p)] = docs[Doc(p)]
        /\ saved'[p] = saved[p]
        /\ \/ pc'[p] = "persist" /\ chunks'[Doc(p)] = 0
           \/ pc'[p] = "wipe"
    BY <1>0, <1>2, <1>8 DEF WipeChunks, Goto, TypeOK
  <2>2. docs[Doc(p)].status # "processed" /\ saved[p] = 0
    BY <1>0, <2>1 DEF RunOK, Writing, IInv, SavedInStep
  <2> QED BY <1>2, <1>6, <2>1, <2>2 DEF RunOK, OneSet
<1>9. CASE PersistChunks(p)
  <2>1. /\ pc[p] = "persist" /\ Exists(Doc(p)) /\ docs'[Doc(p)] = docs[Doc(p)]
        /\ chunks'[Doc(p)] = chunks[Doc(p)] + 1 /\ saved'[p] = saved[p] + 1
        /\ pc'[p] = IF saved[p] + 1 = ChunkInserts THEN "enqueue" ELSE "persist"
        /\ UNCHANGED purged
    BY <1>0, <1>2, <1>9 DEF PersistChunks, LastInsert, Goto, TypeOK, apiVars, deleteVars
  <2>2. docs[Doc(p)].status # "processed" /\ OneSet(Doc(p), saved[p])
    BY <1>0, <2>1 DEF RunOK, Writing
  <2>3. chunks[Doc(p)] \in Nat /\ saved[p] \in Nat /\ ChunkInserts \in Nat
    BY <1>0, <1>2 DEF TypeOK
  <2>4. OneSet(Doc(p), saved[p])'
    BY <1>2, <2>1, <2>2, <2>3 DEF OneSet
  <2> QED BY <1>2, <1>6, <2>1, <2>2, <2>4 DEF RunOK
<1>10. CASE EnqueueEnrichment(p)
  <2>1. /\ pc[p] = "enqueue" /\ pc'[p] = "success"
        /\ docs'[Doc(p)] = docs[Doc(p)] /\ ChunksKept(Doc(p))
    BY <1>0, <1>2, <1>10 DEF EnqueueEnrichment, Goto, TypeOK, ChunksKept, apiVars, deleteVars
  <2>2. Exists(Doc(p))' <=> Exists(Doc(p))
    BY <1>2, <2>1 DEF Exists
  <2>3. RunOK(p)'
    BY <1>0, <1>2, <2>1, <2>2 DEF RunOK, Writing, OneSet, ChunksKept
  <2>4. docs'[Doc(p)].status = "processed" => OneSet(Doc(p), ChunkInserts)'
    BY <1>0, <1>2, <2>1 DEF ProcessedHasChunks, OneSet, ChunksKept
  <2> QED BY <1>6, <2>3, <2>4
<1>11. CASE HandleSuccess(p)
  <2>1. /\ pc[p] = "success" /\ pc'[p] \in {"progressOk", "error"} /\ Exists(Doc(p))
        /\ ChunksKept(Doc(p))
    BY <1>0, <1>2, <1>11 DEF HandleSuccess, Goto, TypeOK, ChunksKept, apiVars, deleteVars
  <2>2. OneSet(Doc(p), ChunkInserts)'
    BY <1>0, <1>2, <2>1 DEF RunOK, Writing, OneSet, ChunksKept
  <2>3. RunOK(p)'
    BY <2>1 DEF RunOK, Writing
  <2> QED BY <1>6, <2>1, <2>2, <2>3
<1>12. CASE HandleError(p)
  <2>1. /\ pc'[p] \in {"progressOk", "progressFail"}
        /\ docs'[Doc(p)].status = "failed" \/ docs'[Doc(p)] = docs[Doc(p)]
        /\ ChunksKept(Doc(p))
    BY <1>0, <1>2, <1>12 DEF HandleError, Goto, TypeOK, ChunksKept, apiVars, deleteVars
  <2>2. RunOK(p)'
    BY <2>1 DEF RunOK, Writing
  <2>3. docs'[Doc(p)].status = "processed" => OneSet(Doc(p), ChunkInserts)'
    BY <1>0, <1>2, <2>1 DEF ProcessedHasChunks, OneSet, ChunksKept
  <2> QED BY <1>6, <2>2, <2>3
<1> QED BY <1>7, <1>8, <1>9, <1>10, <1>11, <1>12

(* The API adds no chunk: it queues a document, takes chunks for a         *)
(* deletion, or deletes the document with them.                            *)
LEMMA ApiChunks ==
    ASSUME IInv, Chunks, JobsMove, NEW d \in Docs, UNCHANGED <<pc, job, saved>>,
           chunks'[d] \in Nat,
           \A e \in Docs \ {d} : docs'[e] = docs[e] /\ ChunksKept(e),
           \/ docs'[d].status = "queued" /\ ChunksKept(d) /\ Exists(d)
           \/ docs'[d] = docs[d] /\ chunks'[d] <= chunks[d] /\ d \in purged'
           \/ docs'[d].status = "deleted"
           \/ docs[d].status = "unregistered" /\ docs'[d].status = "queued"
    PROVE  ProcessedHasChunks' /\ \A q \in Pollers : RunOK(q)'
<1>0. chunks[d] \in Nat /\ \A q \in Pollers : saved[q] \in Nat
  BY DEF IInv, TypeOK
<1>1. ProcessedHasChunks'
  BY <1>0 DEF Chunks, ProcessedHasChunks, ChunksKept
<1>2. ASSUME NEW q \in Pollers, pc[q] \in Writing PROVE RunOK(q)'
  <2>1. pc[q] \in Busy \ {"markFailed"}
    BY <1>2 DEF Writing, Busy, Locking, InSlot, Pipeline
  <2>2. job[q] \in JobIds /\ Doc(q) \in Docs /\ jobs[job[q]].status # "absent"
    BY <2>1, HeldDoc
  <2>3. Doc(q)' = Doc(q)
    BY <2>2 DEF JobsMove, Doc
  <2>4. docs[Doc(q)].status # "unregistered"
    BY <2>2 DEF Chunks, Registered, Doc
  <2>5. CASE Doc(q) # d
    BY <1>2, <2>1, <2>2, <2>5, RunKept DEF Chunks
  <2>6. CASE Doc(q) = d
    <3>1. CASE docs'[d].status = "queued" /\ ChunksKept(d) /\ Exists(d)
      BY <1>2, <2>3, <2>6, <3>1 DEF Chunks, RunOK, OneSet, ChunksKept
    <3>3. CASE docs'[d] = docs[d] /\ chunks'[d] <= chunks[d] /\ d \in purged'
      BY <1>0, <1>2, <2>3, <2>6, <3>3 DEF Chunks, RunOK, OneSet, Exists
    <3>2. CASE docs'[d].status = "deleted"
      BY <2>3, <2>6, <3>2 DEF RunOK, Exists
    <3> QED BY <2>4, <2>6, <3>1, <3>2, <3>3
  <2> QED BY <2>5, <2>6
<1>3. ASSUME NEW q \in Pollers, pc[q] \notin Writing PROVE RunOK(q)'
  BY <1>3 DEF RunOK
<1> QED BY <1>1, <1>2, <1>3

LEMMA StepChunks ==
    ASSUME All, [Next]_vars
    PROVE  Chunks'
<1>0. TypeOK /\ TypeOK' /\ IInv /\ Chunks /\ JobsMove
  BY NextMoves, TypeStep DEF All, IInv
<1>1. Registered'
  BY <1>0, RegisteredStep DEF Chunks
<1> SUFFICES ProcessedHasChunks' /\ \A q \in Pollers : RunOK(q)'
  BY <1>1 DEF Chunks
<1>2. CASE UNCHANGED <<docs, chunks, purged, pc, job, saved>>
  BY <1>0, <1>2, ChunksApart
<1>3. ASSUME NEW d \in Docs, Register(d) \/ \E n \in 0 .. MaxRequests : RetryWrite(d, n)
      PROVE  ProcessedHasChunks' /\ \A q \in Pollers : RunOK(q)'
  <2>1. UNCHANGED <<pc, job, saved, chunks, purged>>
    BY <1>3 DEF Register, RetryWrite, workerVars, deleteVars
  <2>2. \/ UNCHANGED docs
        \/ /\ docs'[d].status = "queued" /\ \A e \in Docs \ {d} : docs'[e] = docs[e]
           /\ Exists(d) \/ docs[d].status = "unregistered"
    <3>1. CASE Register(d)
      <4>1. docs' = [docs EXCEPT ![d].status = "queued"] /\ docs[d].status = "unregistered"
        BY <3>1 DEF Register
      <4> QED BY <1>0, <4>1 DEF TypeOK, DocRow
    <3>2. ASSUME NEW n \in 0 .. MaxRequests, RetryWrite(d, n)
          PROVE  \/ UNCHANGED docs
                 \/ /\ docs'[d].status = "queued" /\ \A e \in Docs \ {d} : docs'[e] = docs[e]
                    /\ Exists(d)
      BY <1>0, <3>2 DEF RetryWrite, TypeOK
    <3> QED BY <1>3, <3>1, <3>2
  <2>3. chunks'[d] \in Nat /\ \A e \in Docs : ChunksKept(e)
    BY <1>0, <2>1 DEF TypeOK, ChunksKept
  <2> QED BY <1>0, <1>2, <2>1, <2>2, <2>3, ApiChunks
<1>4. ASSUME NEW d \in Docs, PurgeChunks(d) \/ DeleteRow(d)
      PROVE  ProcessedHasChunks' /\ \A q \in Pollers : RunOK(q)'
  <2>1. UNCHANGED <<pc, job, saved>> /\ chunks'[d] \in Nat
    BY <1>0, <1>4 DEF PurgeChunks, DeleteRow, workerVars, TypeOK
  <2>2. \A e \in Docs \ {d} : docs'[e] = docs[e] /\ ChunksKept(e)
    BY <1>0, <1>4 DEF PurgeChunks, DeleteRow, TypeOK, ChunksKept
  <2>3. CASE PurgeChunks(d)
    <3>1. docs'[d] = docs[d] /\ chunks'[d] <= chunks[d] /\ d \in purged'
      BY <1>0, <2>3 DEF PurgeChunks, TypeOK
    <3> QED BY <1>0, <2>1, <2>2, <3>1, ApiChunks
  <2>4. CASE DeleteRow(d)
    <3>1. docs'[d].status = "deleted"
      BY <1>0, <2>4 DEF DeleteRow, TypeOK, DocRow
    <3> QED BY <1>0, <2>1, <2>2, <3>1, ApiChunks
  <2> QED BY <1>4, <2>3, <2>4
<1>5. ASSUME NEW p \in Pollers, UNCHANGED <<docs, chunks, purged>>,
             \A q \in Pollers \ {p} : pc'[q] = pc[q] /\ job'[q] = job[q] /\ saved'[q] = saved[q],
             pc'[p] \notin Writing
      PROVE  ProcessedHasChunks' /\ \A q \in Pollers : RunOK(q)'
  BY <1>0, <1>5, ChunksApart
<1>6. ASSUME NEW p \in Pollers, Poll(p)
      PROVE  ProcessedHasChunks' /\ \A q \in Pollers : RunOK(q)'
  <2>1. CASE RequeueStale(p) \/ FetchLost(p) \/ Heartbeat(p)
    BY <1>2, <2>1 DEF RequeueStale, FetchLost, Heartbeat, workerVars, worldVars, apiVars, deleteVars
  <2>2. CASE Fetch(p)
    BY <1>0, <1>5, <2>2 DEF Fetch, Goto, TypeOK, worldVars, apiVars, deleteVars, Writing
  <2>3. CASE MarkFailed(p)
    BY <1>0, <1>5, <2>3 DEF MarkFailed, Rest, Goto, TypeOK, worldVars, apiVars, deleteVars, Writing
  <2>4. CASE Complete(p)
    <3>1. Rest(p) \/ (Goto(p, "markFailed") /\ UNCHANGED <<job, saved>>)
      BY <2>4 DEF Complete
    <3>2. UNCHANGED <<docs, chunks, purged>>
      BY <2>4 DEF Complete, worldVars, apiVars, deleteVars
    <3> QED BY <1>0, <1>5, <3>1, <3>2 DEF Rest, Goto, TypeOK, Writing
  <2> QED BY <1>6, <2>1, <2>2, <2>3, <2>4 DEF Poll
<1>7. ASSUME NEW w \in Workers, Down(w), UNCHANGED <<docs, chunks, purged>>
      PROVE  ProcessedHasChunks' /\ \A q \in Pollers : RunOK(q)'
  <2>1. \A q \in Pollers : pc'[q] \in Writing =>
          pc'[q] = pc[q] /\ job'[q] = job[q] /\ saved'[q] = saved[q]
    BY <1>0, <1>7 DEF Down, TypeOK, Writing
  <2> QED BY <1>0, <1>7, <2>1, ChunksApart
<1>8. ASSUME NEW p \in Pollers, PipelineFails(p)
      PROVE  ProcessedHasChunks' /\ \A q \in Pollers : RunOK(q)'
  BY <1>0, <1>5, <1>8 DEF PipelineFails, Goto, TypeOK, worldVars, apiVars, deleteVars, Writing
<1>9. ASSUME NEW p \in Pollers,
             \/ Load(p) \/ LoadFails(p) \/ TryLock(p) \/ ProgressOk(p) \/ ProgressFail(p)
      PROVE  ProcessedHasChunks' /\ \A q \in Pollers : RunOK(q)'
  <2>1. \E place \in Busy \ Writing : Goto(p, place)
    BY <1>9 DEF Load, LoadFails, TryLock, ProgressOk, ProgressFail,
                Busy, Locking, InSlot, Pipeline, Writing
  <2>2. UNCHANGED <<docs, chunks, purged, job, saved>>
    BY <1>9 DEF Load, LoadFails, TryLock, ProgressOk, ProgressFail, worldVars, apiVars, deleteVars
  <2> QED BY <1>0, <1>5, <2>1, <2>2 DEF Goto, TypeOK
<1>10. ASSUME NEW p \in Pollers, EnterSlot(p)
       PROVE  ProcessedHasChunks' /\ \A q \in Pollers : RunOK(q)'
  <2>1. \E place \in {"start", "progressOk"} : Goto(p, place)
    BY <1>10 DEF EnterSlot
  <2>2. UNCHANGED <<docs, chunks, purged, job, saved>>
    BY <1>10 DEF EnterSlot, worldVars, apiVars, deleteVars
  <2> QED BY <1>0, <1>5, <2>1, <2>2 DEF Goto, TypeOK, Writing
<1>11. ASSUME NEW p \in Pollers, Handle(p)
       PROVE  ProcessedHasChunks' /\ \A q \in Pollers : RunOK(q)'
  <2>1. CASE LoadTransient(p)
    <3>1. Down(WorkerOf[p]) /\ WorkerOf[p] \in Workers /\ UNCHANGED <<docs, chunks, purged>>
      BY <2>1, WorkerAssumption DEF LoadTransient, worldVars, apiVars, deleteVars
    <3> QED BY <1>7, <3>1
  <2>2. CASE \/ Start(p) \/ WipeChunks(p) \/ PersistChunks(p) \/ EnqueueEnrichment(p)
             \/ HandleSuccess(p) \/ HandleError(p)
    BY <1>0, <2>2, PipelineStep
  <2> QED BY <1>8, <1>9, <1>10, <1>11, <2>1, <2>2 DEF Handle
<1>12. CASE Next
  <2>1. CASE Api
    BY <1>2, <1>3, <1>4, <2>1
    DEF Api, RetryRead, MarkBatch, DeleteBegin, workerVars, worldVars, deleteVars
  <2>2. ASSUME NEW w \in Workers, Crash(w) \/ Restart(w)
        PROVE  ProcessedHasChunks' /\ \A q \in Pollers : RunOK(q)'
    BY <1>2, <1>7, <2>2 DEF Crash, Restart, worldVars, apiVars, deleteVars
  <2>3. ASSUME NEW j \in JobIds, Expire(j)
        PROVE  ProcessedHasChunks' /\ \A q \in Pollers : RunOK(q)'
    BY <1>2, <2>3 DEF Expire, workerVars, worldVars, apiVars, deleteVars
  <2> QED BY <1>6, <1>11, <1>12, <2>1, <2>2, <2>3 DEF Next
<1> QED BY <1>2, <1>12 DEF vars, worldVars, apiVars, deleteVars, workerVars

(* While heartbeats get through, a document marked processed has exactly   *)
(* the chunks of one run: neither a crash between the deletion and the     *)
(* last insert, nor a retry or a second process in the middle of a run,    *)
(* leaves it with fewer or with two sets.                                  *)
THEOREM ProcessedDocumentsComplete ==
    ASSUME NoLapse
    PROVE  Spec => []ProcessedHasChunks
<1>1. IInv /\ Claimed /\ OneActive /\ Chunks /\ [Next]_vars => Chunks'
  BY StepChunks DEF All
<1>2. Chunks => ProcessedHasChunks
  BY DEF Chunks
<1> QED BY InitChunks, Invariance, ClaimedHolds, OneActiveHolds, <1>1, <1>2, PTL DEF Spec

-----------------------------------------------------------------------------
(***************************************************************************)
(* Part 3, up to the first fault.                                          *)
(*                                                                         *)
(* A document that waits or is marked processing and has no active job was *)
(* retried, or something has failed by then: this holds for every set of   *)
(* faults, since all that Quiet says is under the condition that none has  *)
(* happened yet.                                                           *)
(*                                                                         *)
(* The counters of a batch promise something only when nothing fails and   *)
(* nobody retries or deletes (hypothesis Undisturbed, the setting of the   *)
(* run worker_clean).  Then every document has one job and one run, and    *)
(* the batch has counted the runs that are past the RPC.                   *)
(***************************************************************************)

-----------------------------------------------------------------------------
(* While nothing failed yet.                                               *)

(* No claim was lost: a job in processing is in somebody's hands. *)
HasHolder == \A j \in WithStatus({"processing"}) : \E p \in Pollers : job[p] = j

(* A poller on its way to the pipeline with the row as it is now, or whose *)
(* next write to the row will settle it.                                   *)
TakesUp(p, d) ==
    \/ pc[p] \in {"load", "start", "error"}
    \/ pc[p] \in {"slot", "waiting"} /\ rec[p] = docs[d]

(* A document that waits for its first run has a job that will run it. *)
QueuedTaken ==
    \A d \in Docs : docs[d].status = "queued" /\ docs[d].retry = 0 =>
        \E j \in ActiveJobs(d) :
            \/ jobs[j].status = "pending"
            \/ \E p \in Pollers : job[p] = j /\ TakesUp(p, d)

Midway == {"wipe", "persist", "enqueue", "success", "error"}

(* A document in processing is in a poller's pipeline. *)
RunGoesOn ==
    \A d \in Docs : docs[d].status = "processing" =>
        \E p \in Pollers : pc[p] \in Midway /\ Doc(p) = d

Quiet == faults = 0 => Claimed /\ HasHolder /\ QueuedTaken /\ RunGoesOn

LEMMA InitQuiet == Init => Quiet
BY InitClaimed DEF Init, JobsInit, NoRow, Quiet, HasHolder, WithStatus, QueuedTaken, RunGoesOn

(* Faults are counted and never uncounted. *)
LEMMA FaultsGrow ==
    ASSUME IInv, [Next]_vars
    PROVE  faults' = faults \/ (Faults # {} /\ faults' = faults + 1)
<1> DEFINE Grow == faults' = faults \/ (Faults # {} /\ faults' = faults + 1)
<1>1. CASE Api
  BY <1>1 DEF Api, Register, RetryRead, RetryWrite, MarkBatch, DeleteBegin, PurgeChunks, DeleteRow
<1>2. ASSUME NEW p \in Pollers, Poll(p) PROVE Grow
  BY <1>2 DEF Poll, RequeueStale, Fetch, FetchLost, Complete, MarkFailed, Heartbeat, Fault
<1>3. ASSUME NEW p \in Pollers, Handle(p) PROVE Grow
  BY <1>3 DEF Handle, Load, LoadTransient, LoadFails, TryLock, EnterSlot, Start, WipeChunks,
              PersistChunks, EnqueueEnrichment, HandleSuccess, PipelineFails, HandleError,
              ProgressOk, ProgressFail, Progress, Fault
<1> QED BY <1>1, <1>2, <1>3 DEF Next, Crash, Restart, Expire, Fault, vars

(* The job in hand of a poller that is busy. *)
LEMMA HeldProcessing ==
    ASSUME IInv, Claimed, NEW p \in Pollers, pc[p] \in Busy \ {"markFailed"}
    PROVE  /\ job[p] \in JobIds /\ job[p] # NoJob
           /\ jobs[job[p]].status = "processing"
           /\ Doc(p) \in Docs
           /\ job[p] \in ActiveJobs(Doc(p))
<1>1. pc[p] \in Busy
  OBVIOUS
<1>2. job[p] \in JobIds /\ Doc(p) \in Docs
  BY <1>1, HeldDoc
<1>3. jobs[job[p]].status = "processing"
  BY DEF Claimed
<1>4. job[p] # NoJob
  BY <1>2 DEF JobIds
<1> QED BY <1>2, <1>3, <1>4 DEF ActiveJobs, WithStatus, Active, Doc

(* Without faults every processing row is fresh: no requeue finds one, and *)
(* no beat is needed.                                                      *)
LEMMA NothingStale ==
    ASSUME IInv, Claimed, HasHolder
    PROVE  StaleJobs = {}
<1> SUFFICES ASSUME NEW j \in WithStatus({"processing"}) PROVE jobs[j].fresh
  BY DEF StaleJobs
<1>1. PICK p \in Pollers : job[p] = j
  BY DEF HasHolder
<1>2. j # NoJob
  BY DEF WithStatus, JobIds
<1> QED BY <1>1, <1>2 DEF Claimed, HoldsJob

(* The wait for the document lock never finds it taken by another poller.  *)
LEMMA LockIsFree ==
    ASSUME IInv, Claimed, OneActive, LocksExact, NEW p \in Pollers, pc[p] = "slot"
    PROVE  Doc(p) \notin locks[WorkerOf[p]]
<1> SUFFICES ASSUME Doc(p) \in locks[WorkerOf[p]] PROVE FALSE
  OBVIOUS
<1>1. WorkerOf[p] \in Workers
  BY WorkerAssumption
<1>2. PICK q \in Pollers : pc[q] \in Locking /\ Doc(q) = Doc(p)
  BY <1>1 DEF LocksExact
<1>3. job[p] \in ActiveJobs(Doc(p)) /\ job[q] \in ActiveJobs(Doc(p)) /\ job[p] # NoJob
  BY <1>2, HeldProcessing DEF Busy, Locking, InSlot, Pipeline
<1>4. Doc(p) \in Docs
  BY HeldProcessing DEF Busy
<1>5. p = q
  BY <1>3, <1>4 DEF OneActive, Claimed, HoldsJob
<1> QED BY <1>2, <1>5 DEF Locking, InSlot, Pipeline

-----------------------------------------------------------------------------
(* What the steps are while nothing fails.                                 *)

Quietly == faults' = faults

Ends(p) ==
    /\ pc[p] \in {"complete", "markFailed"}
    /\ \E status \in Terminal : MarkJobFinal(job[p], status)
    /\ Rest(p)
    /\ UNCHANGED <<worldVars, locks, apiVars>>

(* The steps of a handler that move a poller on within its job. *)
Works(p) ==
    \/ Load(p) \/ TryLock(p) \/ EnterSlot(p)
    \/ Start(p) \/ WipeChunks(p) \/ PersistChunks(p) \/ EnqueueEnrichment(p)
    \/ HandleSuccess(p) \/ PipelineFails(p) \/ HandleError(p)
    \/ ProgressOk(p) \/ ProgressFail(p)

Idles == UNCHANGED <<jobs, worldVars, locks, pc, job, rec, saved, apiVars>>

LEMMA QuietSteps ==
    ASSUME IInv, Claimed, HasHolder, [Next]_vars, Quietly
    PROVE  \/ Idles
           \/ Api
           \/ \E p \in Pollers : Fetch(p) \/ Ends(p) \/ Works(p)
<1>0. faults \in Nat
  BY DEF IInv, TypeOK
<1>1. \A kind : ~Fault(kind)
  BY <1>0 DEF Fault, Quietly
<1>2. StaleJobs = {}
  BY NothingStale
<1>3. ASSUME NEW p \in Pollers, Poll(p) PROVE Fetch(p) \/ Ends(p)
  <2>1. ~RequeueStale(p) /\ ~Heartbeat(p) /\ ~FetchLost(p)
    BY <1>1, <1>2 DEF RequeueStale, RequeueStaleJobs, Heartbeat, Beat, FetchLost
  <2>2. CASE Complete(p)
    BY <1>1, <2>2 DEF Complete, Ends, Terminal
  <2>3. CASE MarkFailed(p)
    BY <1>1, <2>3 DEF MarkFailed, Ends, Terminal
  <2> QED BY <1>3, <2>1, <2>2, <2>3 DEF Poll
<1>4. ASSUME NEW p \in Pollers, Handle(p) PROVE Works(p)
  BY <1>1, <1>4 DEF Handle, Works, LoadTransient, LoadFails
<1>5. ASSUME NEW j \in JobIds PROVE ~Expire(j)
  BY <1>1 DEF Expire, GrowStale, HasHolder, Holders
<1>6. ASSUME NEW w \in Workers PROVE ~Crash(w)
  BY <1>1 DEF Crash
<1>7. ASSUME NEW w \in Workers, Restart(w) PROVE Idles
  BY <1>7 DEF Restart, Idles
<1>8. CASE UNCHANGED vars
  BY <1>8 DEF vars, workerVars, Idles
<1> QED BY <1>3, <1>4, <1>5, <1>6, <1>7, <1>8 DEF Next

-----------------------------------------------------------------------------
(* One lemma per kind of step.                                             *)

Going == HasHolder /\ QueuedTaken /\ RunGoesOn

Calmly == IInv /\ Claimed /\ OneActive /\ LocksExact /\ Registered /\ Going

LEMMA TriggerAdds ==
    ASSUME JobsTypeOK, NEW d \in Docs, TriggerEnqueue(d)
    PROVE  /\ \A j \in JobIds : jobs'[j] = jobs[j] \/ jobs'[j].status = "pending"
           /\ ActiveJobs(d) = {} =>
                \E j \in JobIds : jobs'[j].status = "pending" /\ jobs'[j].doc = d
<1>1. CASE ActiveJobs(d) # {} /\ UNCHANGED jobs
  BY <1>1
<1>2. CASE \E j \in Oldest(WithStatus({"absent"})) :
             jobs' = [jobs EXCEPT ![j] = [status |-> "pending", doc |-> d, fresh |-> TRUE]]
  <2>1. PICK j \in JobIds :
          jobs' = [jobs EXCEPT ![j] = [status |-> "pending", doc |-> d, fresh |-> TRUE]]
    BY <1>2 DEF Oldest, WithStatus
  <2> QED BY <2>1 DEF JobsTypeOK
<1> QED BY <1>1, <1>2 DEF TriggerEnqueue

(* A document in its first wait is one that was not there, or was waiting. *)
LEMMA ApiGoing ==
    ASSUME Calmly, Api
    PROVE  Going'
<1>0. /\ TypeOK /\ JobsTypeOK /\ HasHolder /\ QueuedTaken /\ RunGoesOn
      /\ UNCHANGED <<pc, job, rec>>
  BY DEF Calmly, Going, IInv, TypeOK, Api, Register, RetryRead, RetryWrite, MarkBatch, DeleteBegin, PurgeChunks, DeleteRow, workerVars
<1>1. PICK d \in Docs : \/ Register(d) \/ RetryRead(d)
                       \/ MarkBatch(d) \/ DeleteBegin(d) \/ PurgeChunks(d) \/ DeleteRow(d)
                       \/ \E n \in 0 .. MaxRequests : RetryWrite(d, n)
  BY DEF Api
<1>2. /\ \A j \in JobIds : jobs[j].status # "absent" => jobs'[j] = jobs[j]
      /\ \A j \in JobIds : jobs'[j] = jobs[j] \/ jobs'[j].status = "pending"
  <2>1. UNCHANGED jobs \/ TriggerEnqueue(d)
    BY <1>1 DEF Register, RetryRead, RetryWrite, MarkBatch, DeleteBegin, PurgeChunks, DeleteRow
  <2> QED BY <1>0, <2>1, TriggerRows, TriggerAdds
<1>3. ASSUME NEW e \in Docs
      PROVE  \/ docs'[e] = docs[e]
             \/ (docs'[e].status = "queued" /\ docs'[e].retry > 0)
             \/ docs'[e].status = "deleted"
             \/ /\ docs'[e].status = "queued"
                /\ \E j \in JobIds : jobs'[j].status = "pending" /\ jobs'[j].doc = e
  <2>1. CASE Register(d)
    <3>1. docs' = [docs EXCEPT ![d].status = "queued"] /\ TriggerEnqueue(d)
          /\ docs[d].status = "unregistered"
      BY <2>1 DEF Register
    <3>2. ActiveJobs(d) = {}
      BY <3>1 DEF Calmly, Registered, ActiveJobs, WithStatus, Active
    <3>3. \E j \in JobIds : jobs'[j].status = "pending" /\ jobs'[j].doc = d
      BY <1>0, <3>1, <3>2, TriggerAdds
    <3> QED BY <1>0, <3>1, <3>3 DEF TypeOK, DocRow
  <2>2. ASSUME NEW n \in 0 .. MaxRequests, RetryWrite(d, n)
        PROVE  docs'[e] = docs[e] \/ (docs'[e].status = "queued" /\ docs'[e].retry > 0)
    <3>1. n \in Nat /\ n + 1 > 0
      BY <2>2
    <3>2. \/ UNCHANGED docs
          \/ docs' = [docs EXCEPT ![d] = [status |-> "queued", retry |-> n + 1]]
      BY <2>2 DEF RetryWrite
    <3> QED BY <1>0, <3>1, <3>2 DEF TypeOK
  <2>3. CASE MarkBatch(d) \/ DeleteBegin(d) \/ PurgeChunks(d) \/ DeleteRow(d)
    BY <1>0, <2>3 DEF MarkBatch, DeleteBegin, PurgeChunks, DeleteRow, worldVars, TypeOK, DocRow
  <2>4. CASE RetryRead(d)
    BY <2>4 DEF RetryRead, worldVars
  <2> QED BY <1>1, <2>1, <2>2, <2>3, <2>4
<1>4. HasHolder'
  BY <1>0, <1>2 DEF HasHolder, WithStatus
<1>5. ASSUME NEW e \in Docs, NEW j \in ActiveJobs(e) PROVE j \in ActiveJobs(e)' /\ jobs'[j] = jobs[j]
  BY <1>2 DEF ActiveJobs, WithStatus, Active
<1>6. QueuedTaken'
  <2> SUFFICES ASSUME NEW e \in Docs, docs'[e].status = "queued", docs'[e].retry = 0
               PROVE  \E j \in ActiveJobs(e)' :
                        \/ jobs'[j].status = "pending"
                        \/ \E p \in Pollers : job'[p] = j /\ TakesUp(p, e)'
    BY DEF QueuedTaken
  <2>1. CASE docs'[e] = docs[e]
    <3>1. PICK j \in ActiveJobs(e) : \/ jobs[j].status = "pending"
                                    \/ \E p \in Pollers : job[p] = j /\ TakesUp(p, e)
      BY <1>0, <2>1 DEF QueuedTaken
    <3> QED BY <1>0, <1>5, <2>1, <3>1 DEF TakesUp
  <2>2. CASE \E j \in JobIds : jobs'[j].status = "pending" /\ jobs'[j].doc = e
    BY <2>2 DEF ActiveJobs, WithStatus, Active
  <2> QED BY <1>3, <2>1, <2>2
<1>7. RunGoesOn'
  <2> SUFFICES ASSUME NEW e \in Docs, docs'[e].status = "processing"
               PROVE  \E p \in Pollers : pc'[p] \in Midway /\ Doc(p)' = e
    BY DEF RunGoesOn
  <2>1. docs[e].status = "processing"
    BY <1>3
  <2>2. PICK p \in Pollers : pc[p] \in Midway /\ Doc(p) = e
    BY <1>0, <2>1 DEF RunGoesOn
  <2>3. job[p] \in JobIds /\ jobs[job[p]].status # "absent"
    BY <2>2, HeldDoc DEF Calmly, Midway, Busy, Locking, InSlot, Pipeline
  <2> QED BY <1>0, <1>2, <2>2, <2>3 DEF Doc
<1> QED BY <1>4, <1>6, <1>7 DEF Going

(* A job in hand is in one hand.                                           *)
LEMMA OneHolder ==
    ASSUME Claimed, NEW p \in Pollers, NEW q \in Pollers, job[p] = job[q], job[p] \in JobIds
    PROVE  p = q
BY DEF Claimed, HoldsJob, JobIds

LEMMA FetchGoing ==
    ASSUME Calmly, NEW p \in Pollers, Fetch(p)
    PROVE  Going'
<1>0. /\ TypeOK /\ JobsTypeOK /\ Claimed /\ IInv /\ HasHolder /\ QueuedTaken /\ RunGoesOn
      /\ UNCHANGED <<docs, rec>>
  BY DEF Calmly, Going, IInv, TypeOK, Fetch, worldVars
<1>1. PICK j \in JobIds : FetchNextJob(j) /\ job' = [job EXCEPT ![p] = j]
  BY DEF Fetch
<1>2. /\ jobs[j].status = "pending" /\ jobs'[j].status = "processing" /\ jobs'[j].doc = jobs[j].doc
      /\ \A k \in JobIds \ {j} : jobs'[k] = jobs[k]
  BY <1>0, <1>1, FetchRows, FetchMoves DEF JobsMove
<1>3. /\ \A q \in Pollers \ {p} : job'[q] = job[q] /\ pc'[q] = pc[q]
      /\ job'[p] = j /\ pc'[p] = "load" /\ pc[p] = "idle" /\ job[p] \notin JobIds
  BY <1>0, <1>1 DEF TypeOK, Fetch, Goto, Claimed, HoldsJob, JobIds
<1>4. HasHolder'
  <2> SUFFICES ASSUME NEW k \in JobIds, jobs'[k].status = "processing"
               PROVE  \E q \in Pollers : job'[q] = k
    BY DEF HasHolder, WithStatus
  <2>1. CASE k = j
    BY <1>3, <2>1
  <2>2. CASE k # j
    <3>1. PICK q \in Pollers : job[q] = k
      BY <1>0, <1>2, <2>2 DEF HasHolder, WithStatus
    <3> QED BY <1>3, <3>1
  <2> QED BY <2>1, <2>2
<1>5. QueuedTaken'
  <2> SUFFICES ASSUME NEW e \in Docs, docs[e].status = "queued", docs[e].retry = 0
               PROVE  \E k \in ActiveJobs(e)' :
                        \/ jobs'[k].status = "pending"
                        \/ \E q \in Pollers : job'[q] = k /\ TakesUp(q, e)'
    BY <1>0 DEF QueuedTaken
  <2>1. PICK k \in ActiveJobs(e) : \/ jobs[k].status = "pending"
                                  \/ \E q \in Pollers : job[q] = k /\ TakesUp(q, e)
    BY <1>0 DEF QueuedTaken
  <2>2. k \in JobIds /\ k \in ActiveJobs(e)'
    BY <1>2, <2>1 DEF ActiveJobs, WithStatus, Active
  <2>3. CASE k = j
    BY <1>3, <2>2, <2>3 DEF TakesUp
  <2>4. CASE k # j /\ jobs[k].status = "pending"
    BY <1>2, <2>2, <2>4
  <2>5. ASSUME k # j, NEW q \in Pollers, job[q] = k, TakesUp(q, e)
        PROVE  job'[q] = k /\ TakesUp(q, e)'
    <3>1. q # p
      BY <1>3, <2>2, <2>5
    <3> QED BY <1>0, <1>3, <2>5, <3>1 DEF TakesUp
  <2> QED BY <2>1, <2>2, <2>3, <2>4, <2>5
<1>6. RunGoesOn'
  <2> SUFFICES ASSUME NEW e \in Docs, docs[e].status = "processing"
               PROVE  \E q \in Pollers : pc'[q] \in Midway /\ Doc(q)' = e
    BY <1>0 DEF RunGoesOn
  <2>1. PICK q \in Pollers : pc[q] \in Midway /\ Doc(q) = e
    BY <1>0 DEF RunGoesOn
  <2>2. job[q] \in JobIds /\ jobs[job[q]].status = "processing" /\ q # p
    BY <1>0, <1>3, <2>1, HeldProcessing DEF Midway, Busy, Locking, InSlot, Pipeline
  <2> QED BY <1>2, <1>3, <2>1, <2>2 DEF Doc
<1> QED BY <1>4, <1>5, <1>6 DEF Going

(* A poller that finishes a job is past the row's last write.              *)
LEMMA EndsGoing ==
    ASSUME Calmly, NEW p \in Pollers, Ends(p)
    PROVE  Going'
<1>0. /\ TypeOK /\ JobsTypeOK /\ Claimed /\ IInv /\ HasHolder /\ QueuedTaken /\ RunGoesOn
      /\ UNCHANGED docs
  BY DEF Calmly, Going, IInv, TypeOK, Ends, worldVars
<1>1. /\ pc[p] \in {"complete", "markFailed"} /\ job[p] \in JobIds
      /\ jobs[job[p]].status \in {"processing", "completed", "failed"}
  BY <1>0, HeldDoc DEF Ends, Busy, Claimed, HoldsJob, JobIds
<1>2. /\ \A k \in JobIds \ {job[p]} : jobs'[k] = jobs[k]
      /\ jobs'[job[p]].status \in Terminal
  <2>1. PICK status \in Terminal : MarkJobFinal(job[p], status)
    BY DEF Ends
  <2>2. jobs'[job[p]].status = status /\ \A k \in JobIds \ {job[p]} : jobs'[k] = jobs[k]
    BY <1>0, <1>1, <2>1, FinalRows
  <2> QED BY <2>1, <2>2
<1>3. \A q \in Pollers \ {p} : job'[q] = job[q] /\ pc'[q] = pc[q] /\ rec'[q] = rec[q]
  BY <1>0 DEF Ends, Rest, Goto, TypeOK
<1>4. \A q \in Pollers : job[q] = job[p] => q = p
  BY <1>0, <1>1, OneHolder
<1>5. HasHolder'
  <2> SUFFICES ASSUME NEW k \in JobIds, jobs'[k].status = "processing"
               PROVE  \E q \in Pollers : job'[q] = k
    BY DEF HasHolder, WithStatus
  <2>1. k # job[p] /\ jobs[k].status = "processing"
    BY <1>2 DEF Terminal
  <2>2. PICK q \in Pollers : job[q] = k
    BY <1>0, <2>1 DEF HasHolder, WithStatus
  <2> QED BY <1>3, <2>1, <2>2
<1>6. QueuedTaken'
  <2> SUFFICES ASSUME NEW e \in Docs, docs[e].status = "queued", docs[e].retry = 0
               PROVE  \E k \in ActiveJobs(e)' :
                        \/ jobs'[k].status = "pending"
                        \/ \E q \in Pollers : job'[q] = k /\ TakesUp(q, e)'
    BY <1>0 DEF QueuedTaken
  <2>1. PICK k \in ActiveJobs(e) : \/ jobs[k].status = "pending"
                                  \/ \E q \in Pollers : job[q] = k /\ TakesUp(q, e)
    BY <1>0 DEF QueuedTaken
  <2>2. k \in JobIds
    BY <2>1 DEF ActiveJobs, WithStatus
  <2>3. CASE jobs[k].status = "pending"
    BY <1>1, <1>2, <2>2, <2>3 DEF ActiveJobs, WithStatus, Active
  <2>4. ASSUME NEW q \in Pollers, job[q] = k, TakesUp(q, e)
        PROVE  k \in ActiveJobs(e)' /\ job'[q] = k /\ TakesUp(q, e)'
    <3>1. q # p /\ k # job[p]
      BY <1>1, <1>4, <2>4 DEF TakesUp
    <3> QED BY <1>0, <1>2, <1>3, <2>1, <2>2, <2>4, <3>1 DEF TakesUp, ActiveJobs, WithStatus
  <2> QED BY <2>1, <2>3, <2>4
<1>7. RunGoesOn'
  <2> SUFFICES ASSUME NEW e \in Docs, docs[e].status = "processing"
               PROVE  \E q \in Pollers : pc'[q] \in Midway /\ Doc(q)' = e
    BY <1>0 DEF RunGoesOn
  <2>1. PICK q \in Pollers : pc[q] \in Midway /\ Doc(q) = e
    BY <1>0 DEF RunGoesOn
  <2>2. job[q] \in JobIds /\ q # p
    BY <1>0, <1>1, <2>1, HeldProcessing DEF Midway, Busy, Locking, InSlot, Pipeline
  <2> QED BY <1>2, <1>3, <1>4, <2>1, <2>2 DEF Doc
<1> QED BY <1>5, <1>6, <1>7 DEF Going

(* A step of a handler leaves everything of the other pollers and of the   *)
(* other documents.                                                        *)
LEMMA WorksApart ==
    ASSUME IInv, NEW p \in Pollers, Works(p)
    PROVE  /\ UNCHANGED <<jobs, job>>
           /\ pc[p] \in Busy \ {"complete", "markFailed"}
           /\ \A q \in Pollers \ {p} : pc'[q] = pc[q] /\ rec'[q] = rec[q]
           /\ \A e \in Docs \ {Doc(p)} : docs'[e] = docs[e]
<1>0. TypeOK
  BY DEF IInv
<1>1. CASE \/ Load(p) \/ TryLock(p) \/ EnterSlot(p) \/ PipelineFails(p)
           \/ ProgressOk(p) \/ ProgressFail(p)
  BY <1>0, <1>1 DEF Load, TryLock, EnterSlot, PipelineFails, ProgressOk, ProgressFail, Goto,
                    TypeOK, worldVars, Busy, Locking, InSlot, Pipeline
<1>2. CASE Start(p) \/ WipeChunks(p) \/ PersistChunks(p) \/ EnqueueEnrichment(p)
  BY <1>0, <1>2 DEF Start, WipeChunks, PersistChunks, EnqueueEnrichment, Goto, TypeOK,
                    Busy, Locking, InSlot, Pipeline
<1>3. CASE HandleSuccess(p)
  BY <1>0, <1>3 DEF HandleSuccess, Goto, TypeOK, Busy, Locking, InSlot, Pipeline
<1>4. CASE HandleError(p)
  BY <1>0, <1>4 DEF HandleError, Goto, TypeOK, Busy, Locking, InSlot, Pipeline
<1> QED BY <1>1, <1>2, <1>3, <1>4 DEF Works

(* What it does to its own, when nothing fails.                            *)
LEMMA WorksOwn ==
    ASSUME Calmly, NEW p \in Pollers, Works(p), Quietly, Doc(p) \in Docs
    PROVE  LET d == Doc(p)
           IN  /\ docs'[d].status = "queued" =>
                    /\ docs'[d] = docs[d]
                    /\ docs[d].retry = 0 /\ TakesUp(p, d) =>
                         \/ pc'[p] \in {"load", "start", "error"}
                         \/ pc'[p] \in {"slot", "waiting"} /\ rec'[p] = docs[d]
               /\ docs'[d].status = "processing" =>
                    \/ pc'[p] = "wipe"
                    \/ docs'[d] = docs[d] /\ (pc[p] \in Midway => pc'[p] \in Midway)
<1>0. TypeOK /\ IInv /\ Claimed /\ OneActive /\ LocksExact /\ faults \in Nat
  BY DEF Calmly, IInv, TypeOK
<1>1. \A kind : ~Fault(kind)
  BY <1>0 DEF Fault, Quietly
<1>2. CASE Load(p)
  BY <1>0, <1>2 DEF Load, Goto, TypeOK, worldVars, Midway, Exists
<1>3. CASE TryLock(p)
  <2>1. pc[p] = "slot" /\ pc'[p] = "waiting" /\ UNCHANGED <<docs, rec>>
    BY <1>0, <1>3, LockIsFree DEF TryLock, Goto, TypeOK, worldVars
  <2> QED BY <2>1 DEF TakesUp, Midway
<1>4. CASE EnterSlot(p)
  <2>1. /\ pc[p] = "waiting" /\ UNCHANGED <<docs, rec>>
        /\ ShouldProcess(rec[p]) => pc'[p] = "start"
    BY <1>0, <1>4 DEF EnterSlot, Goto, TypeOK, worldVars
  <2>2. 0 < MAX_RETRIES
    BY WorkerAssumption
  <2> QED BY <2>1, <2>2 DEF TakesUp, Midway, ShouldProcess
<1>5. CASE Start(p)
  BY <1>0, <1>5 DEF Start, Goto, TypeOK
<1>6. CASE WipeChunks(p)
  BY <1>0, <1>6 DEF WipeChunks, Goto, TypeOK, Midway, TakesUp
<1>7. CASE PersistChunks(p)
  BY <1>0, <1>7 DEF PersistChunks, Goto, TypeOK, Midway, TakesUp
<1>8. CASE EnqueueEnrichment(p)
  BY <1>0, <1>8 DEF EnqueueEnrichment, Goto, TypeOK, Midway, TakesUp
<1>9. CASE HandleSuccess(p)
  BY <1>0, <1>9 DEF HandleSuccess, TypeOK
<1>10. CASE PipelineFails(p)
  BY <1>0, <1>10 DEF PipelineFails, Goto, TypeOK, worldVars, Midway
<1>11. CASE HandleError(p)
  <2>1. CASE Exists(Doc(p))
    <3>1. docs'[Doc(p)].status = "failed"
      BY <1>0, <1>1, <1>11, <2>1 DEF HandleError, TypeOK
    <3> QED BY <3>1
  <2>2. CASE ~Exists(Doc(p))
    BY <1>0, <1>11, <2>2 DEF HandleError, Exists
  <2> QED BY <2>1, <2>2
<1>12. CASE ProgressOk(p)
  BY <1>0, <1>12 DEF ProgressOk, TakesUp, Midway
<1>13. CASE ProgressFail(p)
  BY <1>0, <1>13 DEF ProgressFail, TakesUp, Midway
<1> QED BY <1>2, <1>3, <1>4, <1>5, <1>6, <1>7, <1>8, <1>9, <1>10, <1>11, <1>12, <1>13 DEF Works

LEMMA WorksGoing ==
    ASSUME Calmly, NEW p \in Pollers, Works(p), Quietly
    PROVE  Going'
<1>0. /\ TypeOK /\ JobsTypeOK /\ Claimed /\ IInv /\ OneActive
      /\ HasHolder /\ QueuedTaken /\ RunGoesOn
  BY DEF Calmly, Going, IInv, TypeOK
<1>1. /\ UNCHANGED <<jobs, job>>
      /\ pc[p] \in Busy \ {"complete", "markFailed"}
      /\ \A q \in Pollers \ {p} : pc'[q] = pc[q] /\ rec'[q] = rec[q]
      /\ \A e \in Docs \ {Doc(p)} : docs'[e] = docs[e]
  BY <1>0, WorksApart
<1>2. /\ job[p] \in JobIds /\ jobs[job[p]].status = "processing"
      /\ Doc(p) \in Docs /\ job[p] \in ActiveJobs(Doc(p))
  BY <1>0, <1>1, HeldProcessing
<1>3. HasHolder'
  BY <1>0, <1>1 DEF HasHolder, WithStatus
<1>4. \A e \in Docs : ActiveJobs(e)' = ActiveJobs(e)
  BY <1>1 DEF ActiveJobs, WithStatus
<1>5. \A q \in Pollers : Doc(q)' = Doc(q)
  BY <1>1 DEF Doc
<1>6. QueuedTaken'
  <2> SUFFICES ASSUME NEW e \in Docs, docs'[e].status = "queued", docs'[e].retry = 0
               PROVE  \E k \in ActiveJobs(e) :
                        \/ jobs[k].status = "pending"
                        \/ \E q \in Pollers : job[q] = k /\ TakesUp(q, e)'
    BY <1>1, <1>4 DEF QueuedTaken
  <2>0. docs'[e] = docs[e]
    BY <1>1, <1>2, WorksOwn
  <2>1. PICK k \in ActiveJobs(e) : \/ jobs[k].status = "pending"
                                  \/ \E q \in Pollers : job[q] = k /\ TakesUp(q, e)
    BY <1>0, <2>0 DEF QueuedTaken
  <2>2. CASE jobs[k].status = "pending"
    BY <2>1, <2>2
  <2>3. ASSUME NEW q \in Pollers, job[q] = k, TakesUp(q, e)
        PROVE  TakesUp(q, e)'
    <3>1. Doc(q) = e /\ k \in JobIds
      BY <2>1, <2>3 DEF Doc, ActiveJobs, WithStatus
    <3>2. CASE q # p
      BY <1>1, <2>0, <2>3, <3>2 DEF TakesUp
    <3>3. CASE q = p
      <4>1. \/ pc'[p] \in {"load", "start", "error"}
            \/ pc'[p] \in {"slot", "waiting"} /\ rec'[p] = docs[e]
        BY <1>2, <2>0, <2>3, <3>1, <3>3, WorksOwn
      <4> QED BY <2>0, <3>3, <4>1 DEF TakesUp
    <3> QED BY <3>2, <3>3
  <2> QED BY <2>1, <2>2, <2>3
<1>7. RunGoesOn'
  <2> SUFFICES ASSUME NEW e \in Docs, docs'[e].status = "processing"
               PROVE  \E q \in Pollers : pc'[q] \in Midway /\ Doc(q) = e
    BY <1>5 DEF RunGoesOn
  <2>1. CASE e = Doc(p) /\ pc'[p] = "wipe"
    BY <2>1 DEF Midway
  <2>2. CASE docs'[e] = docs[e] /\ (e = Doc(p) => (pc[p] \in Midway => pc'[p] \in Midway))
    <3>1. PICK q \in Pollers : pc[q] \in Midway /\ Doc(q) = e
      BY <1>0, <2>2 DEF RunGoesOn
    <3>2. CASE q = p
      BY <2>2, <3>1, <3>2
    <3>3. CASE q # p
      BY <1>1, <3>1, <3>3
    <3> QED BY <3>2, <3>3
  <2> QED BY <1>1, <1>2, <2>1, <2>2, WorksOwn
<1> QED BY <1>3, <1>6, <1>7 DEF Going

LEMMA IdlesGoing ==
    ASSUME Going, Idles
    PROVE  Going'
BY DEF Going, Idles, HasHolder, QueuedTaken, RunGoesOn, TakesUp, WithStatus, ActiveJobs, Doc,
       worldVars

LEMMA StepQuiet ==
    ASSUME IInv, OneActive, LocksExact, Registered, Quiet, [Next]_vars
    PROVE  Quiet'
<1> SUFFICES ASSUME faults' = 0 PROVE Claimed' /\ Going'
  BY DEF Quiet, Going
<1>1. faults = 0 /\ Quietly
  BY FaultsGrow DEF IInv, TypeOK, Quietly
<1>2. Claimed /\ Going /\ Calmly
  BY <1>1 DEF Quiet, Going, Calmly
<1>3. Claimed'
  BY <1>1, <1>2, StepClaimed DEF Quietly
<1>4. Going'
  <2>1. \/ Idles
        \/ Api
        \/ \E p \in Pollers : Fetch(p) \/ Ends(p) \/ Works(p)
    BY <1>1, <1>2, QuietSteps DEF Going
  <2> QED BY <1>1, <1>2, <2>1, IdlesGoing, ApiGoing, FetchGoing, EndsGoing, WorksGoing
<1> QED BY <1>3, <1>4

LEMMA RegisteredHolds == Spec => []Registered
<1>1. Init => Registered
  BY InitChunks DEF Chunks
<1>2. IInv /\ Registered /\ [Next]_vars => Registered'
  BY RegisteredStep
<1> QED BY <1>1, <1>2, Invariance, PTL DEF Spec

LEMMA QuietHolds == Spec => []Quiet
<1>1. IInv /\ OneActive /\ LocksExact /\ Registered /\ Quiet /\ [Next]_vars => Quiet'
  BY StepQuiet
<1> QED BY InitQuiet, <1>1, Invariance, OneActiveHolds, DocumentLocksExact, RegisteredHolds, PTL
        DEF Spec

(* No order of the steps of the API, the trigger and the pollers of any    *)
(* number of processes loses a document: one that waits or is marked       *)
(* processing with no active job was retried, or something had failed.     *)
THEOREM NoDocumentIsLost == Spec => []OrphansExplained
<1>1. IInv /\ Quiet => OrphansExplained
  <2> SUFFICES ASSUME IInv, Quiet, NEW d \in Docs, ActiveJobs(d) = {}
               PROVE  /\ docs[d].status = "queued" => docs[d].retry > 0 \/ faults > 0
                      /\ docs[d].status = "processing" => faults > 0
    BY DEF OrphansExplained
  <2>1. faults \in Nat /\ docs[d].retry \in Nat
    BY DEF IInv, TypeOK, DocRow
  <2>2. ASSUME faults = 0, docs[d].retry = 0 PROVE docs[d].status # "queued"
    BY <2>2 DEF Quiet, QueuedTaken
  <2>3. ASSUME faults = 0 PROVE docs[d].status # "processing"
    <3> SUFFICES ASSUME docs[d].status = "processing" PROVE FALSE
      OBVIOUS
    <3>1. Claimed /\ \E p \in Pollers : pc[p] \in Midway /\ Doc(p) = d
      BY <2>3 DEF Quiet, RunGoesOn
    <3> QED BY <3>1, HeldProcessing DEF Midway, Busy, Locking, InSlot, Pipeline
  <2> QED BY <2>1, <2>2, <2>3
<1> QED BY Invariance, QuietHolds, <1>1, PTL

-----------------------------------------------------------------------------
(* The counters of the batch, when there is nothing but uploads and        *)
(* pollers: no call fails, nothing is retried and nothing is deleted.      *)

Undisturbed == Faults = {} /\ Requests = {}

Waits(row) == row.status = "queued" /\ row.retry = 0

Settles(row) == row.status \in {"processed", "failed"}

(* A document has one job, ever, and every run of a handler succeeds. *)
FirstRuns ==
    /\ retryReads = {} /\ deleting = {}
    /\ \A d \in Docs : /\ docs[d].status # "deleted"
                       /\ docs[d].status = "unregistered" => docs[d].retry = 0
    /\ \A j, k \in JobIds :
         jobs[j].status # "absent" /\ jobs[k].status # "absent" /\ jobs[j].doc = jobs[k].doc
           => j = k
    /\ \A p \in Pollers : pc[p] \notin {"progressFail", "markFailed"}

(* The row waits until the run starts and is settled when it is over. *)
Stages ==
    /\ \A j \in JobIds : /\ jobs[j].status = "pending" => Waits(docs[jobs[j].doc])
                         /\ jobs[j].status \in Terminal => Settles(docs[jobs[j].doc])
    /\ \A p \in Pollers : /\ pc[p] = "load" => Waits(docs[Doc(p)])
                          /\ pc[p] \in {"slot", "waiting"} => Waits(rec[p])
                          /\ pc[p] \in {"progressOk", "complete"} => Settles(docs[Doc(p)])

(* The jobs whose run the batch has been told of. *)
Counted ==
    {j \in JobIds : /\ jobs[j].doc \in BatchDocs
                    /\ \/ jobs[j].status \in Terminal
                       \/ \E p \in Pollers : job[p] = j /\ pc[p] = "complete"}

Tally ==
    /\ batch.completed + batch.failed = Cardinality(Counted)
    /\ batch.status \in Closed => batch.completed + batch.failed >= Cardinality(BatchDocs)

Clean == FirstRuns /\ Stages /\ Tally

LEMMA CountedFinite == IsFiniteSet(Counted)
<1>1. IsFiniteSet(JobIds)
  BY JobQueueAssumption, FS_Interval DEF JobIds
<1> QED BY <1>1, FS_Subset DEF Counted

LEMMA InitClean == Init => Clean
<1> SUFFICES ASSUME Init PROVE Clean
  OBVIOUS
<1>1. FirstRuns /\ Stages
  BY DEF Init, JobsInit, NoRow, FirstRuns, Stages, Terminal
<1>2. Counted = {}
  BY DEF Init, JobsInit, NoRow, Counted, Terminal
<1>3. batch.completed + batch.failed = 0 /\ batch.status \notin Closed
  BY DEF Init, NewBatch, Closed
<1> QED BY <1>1, <1>2, <1>3, FS_EmptySet DEF Clean, Tally

Carefully == Calmly /\ Clean

(* Nothing but the batch's counters is counted anew when the jobs told of  *)
(* stay the same.                                                          *)
LEMMA TallyKept ==
    ASSUME Tally, Counted' = Counted, UNCHANGED batch
    PROVE  Tally'
BY DEF Tally

LEMMA RegisterClean ==
    ASSUME Carefully, NEW d \in Docs, Register(d)
    PROVE  Clean'
<1>0. /\ TypeOK /\ JobsTypeOK /\ IInv /\ FirstRuns /\ Stages /\ Tally /\ Registered
      /\ UNCHANGED <<pc, job, rec, batch, retryReads, deleting>>
  BY DEF Carefully, Calmly, Clean, IInv, TypeOK, Register, workerVars, apiVars, deleteVars
<1>1. docs[d].status = "unregistered" /\ docs' = [docs EXCEPT ![d].status = "queued"]
  BY DEF Register
<1>2. \A j \in JobIds : jobs[j].status # "absent" => jobs[j].doc # d
  BY <1>0, <1>1 DEF Registered
<1>3. PICK j \in JobIds :
        /\ jobs[j].status = "absent"
        /\ jobs' = [jobs EXCEPT ![j] = [status |-> "pending", doc |-> d, fresh |-> TRUE]]
  <2>1. ActiveJobs(d) = {}
    BY <1>2 DEF ActiveJobs, WithStatus, Active
  <2> QED BY <2>1 DEF Register, TriggerEnqueue, Oldest, WithStatus
<1>4. /\ jobs'[j].status = "pending" /\ jobs'[j].doc = d
      /\ \A k \in JobIds \ {j} : jobs'[k] = jobs[k]
  BY <1>0, <1>3 DEF JobsTypeOK
<1>5. Waits(docs'[d]) /\ \A e \in Docs \ {d} : docs'[e] = docs[e]
  BY <1>0, <1>1 DEF TypeOK, DocRow, FirstRuns, Waits
<1>6. \A p \in Pollers : pc[p] \in Busy =>
        job[p] \in JobIds \ {j} /\ Doc(p)' = Doc(p) /\ Doc(p) \in Docs \ {d}
  BY <1>0, <1>2, <1>3, <1>4, HeldDoc DEF Doc
<1>7. FirstRuns'
  <2>1. \A e \in Docs : /\ docs'[e].status # "deleted"
                        /\ docs'[e].status = "unregistered" => docs'[e].retry = 0
    BY <1>0, <1>5 DEF FirstRuns, Waits
  <2>2. ASSUME NEW k \in JobIds, NEW l \in JobIds, jobs'[k].status # "absent",
               jobs'[l].status # "absent", jobs'[k].doc = jobs'[l].doc
        PROVE  k = l
    BY <1>0, <1>2, <1>4, <2>2 DEF FirstRuns
  <2> QED BY <1>0, <2>1, <2>2 DEF FirstRuns
<1>8. Stages'
  <2>1. ASSUME NEW k \in JobIds
        PROVE  /\ jobs'[k].status = "pending" => Waits(docs'[jobs'[k].doc])
               /\ jobs'[k].status \in Terminal => Settles(docs'[jobs'[k].doc])
    <3>1. CASE k = j
      BY <1>4, <1>5, <3>1 DEF Terminal
    <3>2. CASE k # j /\ jobs[k].status # "absent"
      <4>1. jobs'[k] = jobs[k] /\ docs'[jobs[k].doc] = docs[jobs[k].doc]
        BY <1>0, <1>2, <1>4, <1>5, <3>2 DEF JobsTypeOK
      <4> QED BY <1>0, <4>1 DEF Stages
    <3> QED BY <1>4, <3>1, <3>2 DEF Terminal
  <2>2. ASSUME NEW p \in Pollers
        PROVE  /\ pc[p] = "load" => Waits(docs'[Doc(p)'])
               /\ pc[p] \in {"slot", "waiting"} => Waits(rec[p])
               /\ pc[p] \in {"progressOk", "complete"} => Settles(docs'[Doc(p)'])
    BY <1>0, <1>5, <1>6 DEF Stages, Busy, Locking, InSlot
  <2> QED BY <1>0, <2>1, <2>2 DEF Stages
<1>9. Counted' = Counted
  <2>1. \A p \in Pollers : pc[p] = "complete" => job[p] # j
    BY <1>6 DEF Busy
  <2> QED BY <1>0, <1>3, <1>4, <2>1 DEF Counted, Terminal
<1> QED BY <1>0, <1>7, <1>8, <1>9, TallyKept DEF Clean

(* A batch that is set to processing is no closed one, and its counters    *)
(* stay as they are.                                                       *)
LEMMA MarkClean ==
    ASSUME Carefully, NEW d \in Docs, MarkBatch(d)
    PROVE  Clean'
<1>0. /\ FirstRuns /\ Stages /\ Tally /\ batch \in BatchRow
      /\ UNCHANGED <<jobs, docs, pc, job, rec, retryReads, deleting>>
  BY DEF Carefully, Calmly, Clean, IInv, TypeOK, MarkBatch, workerVars, deleteVars
<1>1. Counted' = Counted
  BY <1>0 DEF Counted
<1>2. FirstRuns'
  BY <1>0 DEF FirstRuns
<1>3. Stages'
  BY <1>0 DEF Stages, Doc
<1>4. Tally'
  <2>1. CASE batch' = [batch EXCEPT !.status = "processing"]
    BY <1>0, <1>1, <2>1 DEF Tally, BatchRow, Closed
  <2>2. CASE UNCHANGED batch
    BY <1>0, <1>1, <2>2, TallyKept
  <2> QED BY <2>1, <2>2 DEF MarkBatch
<1> QED BY <1>2, <1>3, <1>4 DEF Clean

LEMMA FetchClean ==
    ASSUME Carefully, NEW p \in Pollers, Fetch(p)
    PROVE  Clean'
<1>0. /\ TypeOK /\ JobsTypeOK /\ IInv /\ FirstRuns /\ Stages /\ Tally /\ Claimed
      /\ UNCHANGED <<docs, rec, batch, retryReads, deleting>>
  BY DEF Carefully, Calmly, Clean, IInv, TypeOK, Fetch, worldVars, apiVars, deleteVars
<1>1. PICK j \in JobIds : FetchNextJob(j) /\ job' = [job EXCEPT ![p] = j]
  BY DEF Fetch
<1>2. /\ jobs[j].status = "pending" /\ jobs'[j].status = "processing" /\ jobs'[j].doc = jobs[j].doc
      /\ \A k \in JobIds \ {j} : jobs'[k] = jobs[k]
  BY <1>0, <1>1, FetchRows, FetchMoves DEF JobsMove
<1>3. /\ \A q \in Pollers \ {p} : job'[q] = job[q] /\ pc'[q] = pc[q]
      /\ job'[p] = j /\ pc'[p] = "load" /\ pc[p] = "idle"
  BY <1>0, <1>1 DEF TypeOK, Fetch, Goto
<1>4. \A q \in Pollers : pc[q] \in Busy => job[q] \in JobIds \ {j}
  BY <1>0, <1>2, HeldDoc DEF Claimed, HoldsJob, JobIds
<1>5. \A q \in Pollers \ {p} : pc[q] \in Busy => Doc(q)' = Doc(q)
  BY <1>2, <1>3, <1>4 DEF Doc
<1>6. FirstRuns'
  BY <1>0, <1>2, <1>3 DEF FirstRuns
<1>7. Stages'
  <2>1. ASSUME NEW k \in JobIds
        PROVE  /\ jobs'[k].status = "pending" => Waits(docs[jobs'[k].doc])
               /\ jobs'[k].status \in Terminal => Settles(docs[jobs'[k].doc])
    BY <1>0, <1>2 DEF Stages, Terminal
  <2>2. Doc(p)' = jobs[j].doc
    BY <1>2, <1>3 DEF Doc
  <2>3. ASSUME NEW q \in Pollers
        PROVE  /\ pc'[q] = "load" => Waits(docs[Doc(q)'])
               /\ pc'[q] \in {"slot", "waiting"} => Waits(rec[q])
               /\ pc'[q] \in {"progressOk", "complete"} => Settles(docs[Doc(q)'])
    <3>1. CASE q = p
      BY <1>0, <1>2, <1>3, <2>2, <3>1 DEF Stages
    <3>2. CASE q # p
      BY <1>0, <1>3, <1>5, <3>2 DEF Stages, Busy, Locking, InSlot
    <3> QED BY <3>1, <3>2
  <2> QED BY <1>0, <2>1, <2>3 DEF Stages
<1>8. Counted' = Counted
  <2>1. \A q \in Pollers : pc[q] = "complete" => job[q] # j
    BY <1>4 DEF Busy
  <2>2. \A k \in JobIds : jobs'[k].doc = jobs[k].doc /\ (jobs'[k].status \in Terminal <=> jobs[k].status \in Terminal)
    BY <1>2 DEF Terminal
  <2>3. \A k \in JobIds : (\E q \in Pollers : job'[q] = k /\ pc'[q] = "complete")
                            <=> (\E q \in Pollers : job[q] = k /\ pc[q] = "complete")
    BY <1>3
  <2> QED BY <2>2, <2>3 DEF Counted
<1> QED BY <1>0, <1>6, <1>7, <1>8, TallyKept DEF Clean

LEMMA EndsClean ==
    ASSUME Carefully, NEW p \in Pollers, Ends(p)
    PROVE  Clean'
<1>0. /\ TypeOK /\ JobsTypeOK /\ IInv /\ FirstRuns /\ Stages /\ Tally /\ Claimed
      /\ UNCHANGED <<docs, batch, retryReads, deleting>>
  BY DEF Carefully, Calmly, Clean, IInv, TypeOK, Ends, worldVars, apiVars, deleteVars
<1>1. /\ pc[p] = "complete" /\ job[p] \in JobIds
      /\ jobs[job[p]].status = "processing"
  BY <1>0, HeldProcessing DEF Ends, Busy, FirstRuns
<1>2. PICK status \in Terminal : MarkJobFinal(job[p], status)
  BY DEF Ends
<1>3. /\ \A k \in JobIds \ {job[p]} : jobs'[k] = jobs[k]
      /\ jobs'[job[p]].status \in Terminal /\ jobs'[job[p]].doc = jobs[job[p]].doc
  <2>1. JobsMove
    BY <1>0, <1>1, <1>2, FinalMoves
  <2>2. jobs'[job[p]].doc = jobs[job[p]].doc
    BY <1>1, <2>1 DEF JobsMove
  <2>3. jobs'[job[p]].status = status /\ \A k \in JobIds \ {job[p]} : jobs'[k] = jobs[k]
    BY <1>0, <1>1, <1>2, FinalRows
  <2> QED BY <1>2, <2>2, <2>3
<1>4. /\ \A q \in Pollers \ {p} : job'[q] = job[q] /\ pc'[q] = pc[q] /\ rec'[q] = rec[q]
      /\ pc'[p] = "idle" /\ job'[p] = NoJob
  BY <1>0 DEF Ends, Rest, Goto, TypeOK
<1>5. \A q \in Pollers \ {p} : pc[q] \in Busy => Doc(q)' = Doc(q)
  BY <1>0, <1>3, <1>4, HeldDoc DEF Doc
<1>6. FirstRuns'
  BY <1>0, <1>1, <1>3, <1>4 DEF FirstRuns
<1>7. Stages'
  <2>1. Settles(docs[jobs[job[p]].doc])
    BY <1>0, <1>1 DEF Stages, Doc
  <2>2. ASSUME NEW k \in JobIds
        PROVE  /\ jobs'[k].status = "pending" => Waits(docs[jobs'[k].doc])
               /\ jobs'[k].status \in Terminal => Settles(docs[jobs'[k].doc])
    BY <1>0, <1>3, <2>1 DEF Stages, Terminal
  <2>3. ASSUME NEW q \in Pollers
        PROVE  /\ pc'[q] = "load" => Waits(docs[Doc(q)'])
               /\ pc'[q] \in {"slot", "waiting"} => Waits(rec'[q])
               /\ pc'[q] \in {"progressOk", "complete"} => Settles(docs[Doc(q)'])
    BY <1>0, <1>4, <1>5 DEF Stages, Busy, Locking, InSlot
  <2> QED BY <1>0, <2>2, <2>3 DEF Stages
<1>8. Counted' = Counted
  <2>1. ASSUME NEW k \in JobIds
        PROVE  k \in Counted' <=> k \in Counted
    <3>1. CASE k = job[p]
      BY <1>1, <1>3, <3>1 DEF Counted
    <3>2. CASE k # job[p]
      <4>1. (\E q \in Pollers : job'[q] = k /\ pc'[q] = "complete")
              <=> (\E q \in Pollers : job[q] = k /\ pc[q] = "complete")
        BY <1>4, <3>2
      <4> QED BY <1>3, <3>2, <4>1 DEF Counted
    <3> QED BY <3>1, <3>2
  <2> QED BY <2>1 DEF Counted
<1> QED BY <1>0, <1>6, <1>7, <1>8, TallyKept DEF Clean

(* Where a handler's step leaves its poller.                               *)
LEMMA WorksPlaces ==
    ASSUME Carefully, NEW p \in Pollers, Works(p), Quietly, Doc(p) \in Docs, Exists(Doc(p))
    PROVE  /\ UNCHANGED <<retryReads, deleting>>
           /\ docs'[Doc(p)].status \in {docs[Doc(p)].status, "processing", "processed", "failed"}
           /\ pc'[p] \notin {"load", "progressFail", "markFailed"}
           /\ pc'[p] \in {"slot", "waiting"} => Waits(rec'[p])
           /\ pc'[p] \in {"progressOk", "complete"} => Settles(docs'[Doc(p)])
           /\ ProgressOk(p) \/ (pc'[p] # "complete" /\ UNCHANGED batch)
<1>0. /\ TypeOK /\ IInv /\ Claimed /\ OneActive /\ LocksExact /\ FirstRuns /\ Stages
      /\ faults \in Nat
  BY DEF Carefully, Calmly, Clean, IInv, TypeOK
<1>1. \A kind : ~Fault(kind)
  BY <1>0 DEF Fault, Quietly
<1>2. CASE Load(p)
  <2>1. /\ pc[p] = "load" /\ pc'[p] = "slot" /\ rec'[p] = docs[Doc(p)]
        /\ UNCHANGED <<docs, batch, retryReads, deleting>>
    BY <1>0, <1>2 DEF Load, Goto, TypeOK, worldVars, apiVars, deleteVars
  <2> QED BY <1>0, <2>1 DEF Stages
<1>3. CASE TryLock(p)
  <2>1. pc[p] = "slot" /\ pc'[p] = "waiting" /\ UNCHANGED <<docs, rec, batch, retryReads, deleting>>
    BY <1>0, <1>3, LockIsFree DEF TryLock, Goto, TypeOK, worldVars, apiVars, deleteVars
  <2> QED BY <1>0, <2>1 DEF Stages
<1>4. CASE EnterSlot(p)
  <2>1. ShouldProcess(rec[p])
    BY <1>0, <1>4, WorkerAssumption DEF EnterSlot, Stages, Waits, ShouldProcess
  <2>2. pc'[p] = "start" /\ UNCHANGED <<docs, rec, batch, retryReads, deleting>>
    BY <1>0, <1>4, <2>1 DEF EnterSlot, Goto, TypeOK, worldVars, apiVars, deleteVars
  <2> QED BY <2>2
<1>5. CASE Start(p) \/ WipeChunks(p)
  BY <1>0, <1>5 DEF Start, WipeChunks, Goto, TypeOK, apiVars, deleteVars
<1>6. CASE PersistChunks(p) \/ EnqueueEnrichment(p)
  BY <1>0, <1>6 DEF PersistChunks, EnqueueEnrichment, Goto, TypeOK, apiVars, deleteVars
<1>7. CASE HandleSuccess(p)
  BY <1>0, <1>1, <1>7 DEF HandleSuccess, Goto, TypeOK, apiVars, deleteVars, Settles
<1>8. CASE PipelineFails(p)
  BY <1>0, <1>8 DEF PipelineFails, Goto, TypeOK, worldVars, apiVars, deleteVars
<1>9. CASE HandleError(p)
  BY <1>0, <1>1, <1>9 DEF HandleError, Goto, TypeOK, apiVars, deleteVars, Settles
<1>10. CASE ProgressOk(p)
  BY <1>0, <1>10 DEF ProgressOk, Goto, TypeOK, apiVars, deleteVars, Stages
<1>11. CASE ProgressFail(p)
  BY <1>0, <1>11 DEF ProgressFail, FirstRuns
<1> QED BY <1>2, <1>3, <1>4, <1>5, <1>6, <1>7, <1>8, <1>9, <1>10, <1>11 DEF Works

(* The RPC counts the run, and closes the batch when all are counted.      *)
LEMMA ProgressTally ==
    ASSUME Carefully, NEW p \in Pollers, ProgressOk(p), Quietly
    PROVE  Tally'
<1>0. /\ TypeOK /\ IInv /\ Claimed /\ Tally /\ faults \in Nat
      /\ batch \in BatchRow /\ UNCHANGED <<jobs, job>>
  BY DEF Carefully, Calmly, Clean, IInv, TypeOK, ProgressOk
<1>1. pc[p] = "progressOk" /\ pc'[p] = "complete" /\ \A q \in Pollers \ {p} : pc'[q] = pc[q]
  BY <1>0 DEF ProgressOk, Goto, TypeOK
<1>2. job[p] \in JobIds /\ jobs[job[p]].status = "processing"
  BY <1>0, <1>1, HeldProcessing DEF Busy, Locking, InSlot
<1>3. \A q \in Pollers : job[q] = job[p] => q = p
  BY <1>0, <1>2, OneHolder
<1>4. job[p] \notin Counted
  BY <1>1, <1>2, <1>3 DEF Counted, Terminal
<1>5. CASE Doc(p) \in BatchDocs
  <2>1. batch' = Progressed(batch, Cardinality(BatchDocs), TRUE)
    <3>1. ~Fault("progress")
      BY <1>0 DEF Fault, Quietly
    <3>2. Progress(p, TRUE)
      BY DEF ProgressOk
    <3> QED BY <1>5, <3>1, <3>2, Zenon DEF Progress
  <2>2. Counted' = Counted \cup {job[p]}
    BY <1>0, <1>1, <1>2, <1>5 DEF Counted, Doc
  <2>3. Cardinality(Counted') = Cardinality(Counted) + 1
    BY <1>4, <2>2, CountedFinite, FS_AddElement
  <2>4. Cardinality(Counted) \in Nat /\ Cardinality(BatchDocs) \in Nat
    BY CountedFinite, WorkerAssumption, FS_CardinalityType
  <2>5. /\ batch'.completed = batch.completed + 1 /\ batch'.failed = batch.failed
        /\ batch'.status \in Closed => batch'.completed + batch'.failed >= Cardinality(BatchDocs)
    BY <1>0, <2>1, <2>4 DEF Progressed, BatchStatus, BatchRow, Closed
  <2>6. batch.completed \in Nat /\ batch.failed \in Nat
    BY <1>0 DEF BatchRow
  <2> QED BY <1>0, <2>3, <2>4, <2>5, <2>6 DEF Tally
<1>6. CASE Doc(p) \notin BatchDocs
  <2>1. UNCHANGED batch
    BY <1>6 DEF ProgressOk, Progress
  <2>2. Counted' = Counted
    BY <1>0, <1>1, <1>6 DEF Counted, Doc
  <2> QED BY <1>0, <2>1, <2>2, TallyKept
<1> QED BY <1>5, <1>6

LEMMA WorksClean ==
    ASSUME Carefully, NEW p \in Pollers, Works(p), Quietly
    PROVE  Clean'
<1>0. /\ TypeOK /\ JobsTypeOK /\ IInv /\ FirstRuns /\ Stages /\ Tally /\ Claimed /\ Registered
  BY DEF Carefully, Calmly, Clean, IInv, TypeOK
<1>1. /\ UNCHANGED <<jobs, job>>
      /\ pc[p] \in Busy \ {"complete", "markFailed"}
      /\ \A q \in Pollers \ {p} : pc'[q] = pc[q] /\ rec'[q] = rec[q]
      /\ \A e \in Docs \ {Doc(p)} : docs'[e] = docs[e]
  BY <1>0, WorksApart
<1>2. /\ job[p] \in JobIds /\ jobs[job[p]].status = "processing" /\ Doc(p) \in Docs
      /\ jobs[job[p]].doc = Doc(p)
  BY <1>0, <1>1, HeldProcessing DEF Doc
<1>3. Exists(Doc(p))
  BY <1>0, <1>2 DEF Registered, FirstRuns, Exists
<1>4. \A q \in Pollers : Doc(q)' = Doc(q)
  BY <1>1 DEF Doc
<1>5. /\ UNCHANGED <<retryReads, deleting>>
      /\ docs'[Doc(p)].status \in {docs[Doc(p)].status, "processing", "processed", "failed"}
      /\ pc'[p] \notin {"load", "progressFail", "markFailed"}
      /\ pc'[p] \in {"slot", "waiting"} => Waits(rec'[p])
      /\ pc'[p] \in {"progressOk", "complete"} => Settles(docs'[Doc(p)])
      /\ ProgressOk(p) \/ (pc'[p] # "complete" /\ UNCHANGED batch)
  BY <1>2, <1>3, WorksPlaces
<1>6. \A k \in JobIds \ {job[p]} : jobs[k].status # "absent" => docs'[jobs[k].doc] = docs[jobs[k].doc]
  BY <1>0, <1>1, <1>2 DEF FirstRuns, JobsTypeOK
<1>7. FirstRuns'
  <2>1. \A e \in Docs : /\ docs'[e].status # "deleted"
                        /\ docs'[e].status = "unregistered" => docs'[e].retry = 0
    <3> SUFFICES ASSUME NEW e \in Docs
                 PROVE  /\ docs'[e].status # "deleted"
                        /\ docs'[e].status = "unregistered" => docs'[e].retry = 0
      OBVIOUS
    <3>1. CASE e = Doc(p)
      BY <1>0, <1>3, <1>5, <3>1 DEF FirstRuns, Exists
    <3>2. CASE e # Doc(p)
      BY <1>0, <1>1, <3>2 DEF FirstRuns
    <3> QED BY <3>1, <3>2
  <2>2. \A q \in Pollers : pc'[q] \notin {"progressFail", "markFailed"}
    BY <1>0, <1>1, <1>5 DEF FirstRuns
  <2> QED BY <1>0, <1>1, <1>5, <2>1, <2>2 DEF FirstRuns
<1>8. Stages'
  <2>1. ASSUME NEW k \in JobIds
        PROVE  /\ jobs[k].status = "pending" => Waits(docs'[jobs[k].doc])
               /\ jobs[k].status \in Terminal => Settles(docs'[jobs[k].doc])
    <3>1. CASE k = job[p]
      BY <1>2, <3>1 DEF Terminal
    <3>2. CASE k # job[p]
      BY <1>0, <1>6, <3>2 DEF Stages, Terminal
    <3> QED BY <3>1, <3>2
  <2>2. ASSUME NEW q \in Pollers
        PROVE  /\ pc'[q] = "load" => Waits(docs'[Doc(q)])
               /\ pc'[q] \in {"slot", "waiting"} => Waits(rec'[q])
               /\ pc'[q] \in {"progressOk", "complete"} => Settles(docs'[Doc(q)])
    <3>1. CASE q = p
      BY <1>5, <3>1
    <3>2. CASE q # p /\ pc[q] \in Busy
      <4>1. job[q] \in JobIds \ {job[p]} /\ jobs[job[q]].status # "absent"
        BY <1>0, <1>2, <3>2, HeldDoc, OneHolder
      <4>2. docs'[Doc(q)] = docs[Doc(q)]
        BY <1>6, <4>1 DEF Doc
      <4> QED BY <1>0, <1>1, <3>2, <4>2 DEF Stages
    <3>3. CASE q # p /\ pc[q] \notin Busy
      BY <1>1, <3>3 DEF Busy, Locking, InSlot
    <3> QED BY <3>1, <3>2, <3>3
  <2> QED BY <1>1, <1>4, <2>1, <2>2 DEF Stages
<1>9. Tally'
  <2>1. CASE ProgressOk(p)
    BY <2>1, ProgressTally
  <2>2. CASE pc'[p] # "complete" /\ UNCHANGED batch
    <3>1. Counted' = Counted
      BY <1>1, <2>2 DEF Counted
    <3> QED BY <1>0, <2>2, <3>1, TallyKept
  <2> QED BY <1>5, <2>1, <2>2
<1> QED BY <1>7, <1>8, <1>9 DEF Clean

LEMMA IdlesClean ==
    ASSUME Clean, Idles
    PROVE  Clean'
<1>1. UNCHANGED <<jobs, docs, batch, pc, job, rec, retryReads, deleting>>
  BY DEF Idles, worldVars, apiVars, deleteVars
<1>2. Counted' = Counted
  BY <1>1 DEF Counted
<1>3. FirstRuns'
  BY <1>1 DEF Clean, FirstRuns
<1>4. Stages'
  BY <1>1 DEF Clean, Stages, Doc
<1> QED BY <1>1, <1>2, <1>3, <1>4, TallyKept DEF Clean

LEMMA StepClean ==
    ASSUME Undisturbed, Carefully, [Next]_vars
    PROVE  Clean'
<1>1. Quietly /\ IInv /\ Claimed /\ HasHolder /\ Clean
  BY FaultsGrow DEF Undisturbed, Quietly, Carefully, Calmly, Going
<1>2. CASE Api
  <2>1. PICK d \in Docs : \/ Register(d) \/ RetryRead(d)
                         \/ MarkBatch(d) \/ DeleteBegin(d) \/ PurgeChunks(d) \/ DeleteRow(d)
                         \/ \E n \in 0 .. MaxRequests : RetryWrite(d, n)
    BY <1>2 DEF Api
  <2>2. /\ ~RetryRead(d) /\ ~DeleteBegin(d) /\ ~PurgeChunks(d) /\ ~DeleteRow(d)
        /\ \A n : ~RetryWrite(d, n)
    BY <1>1 DEF RetryRead, DeleteBegin, PurgeChunks, DeleteRow, RetryWrite, Request, Undisturbed,
                Clean, FirstRuns
  <2> QED BY <2>1, <2>2, RegisterClean, MarkClean
<1>3. \/ Idles
      \/ Api
      \/ \E p \in Pollers : Fetch(p) \/ Ends(p) \/ Works(p)
  BY <1>1, QuietSteps
<1> QED BY <1>1, <1>2, <1>3, IdlesClean, FetchClean, EndsClean, WorksClean

Faultless == faults = 0

LEMMA CleanHolds ==
    ASSUME Undisturbed
    PROVE  Spec => []Claimed /\ []Clean
<1>1. Init => Faultless
  BY DEF Init, Faultless
<1>2. IInv /\ Faultless /\ [Next]_vars => Faultless'
  BY FaultsGrow, Undisturbed DEF Undisturbed, Faultless
<1>3. IInv /\ Faultless /\ Quiet /\ OneActive /\ LocksExact /\ Registered /\ Clean /\ [Next]_vars
        => Clean'
  <2> SUFFICES ASSUME IInv, Faultless, Quiet, OneActive, LocksExact, Registered, Clean,
                      [Next]_vars
               PROVE  Clean'
    OBVIOUS
  <2>1. Carefully
    BY DEF Faultless, Quiet, Going, Calmly, Carefully
  <2> QED BY <2>1, Undisturbed, StepClean
<1>4. Faultless /\ Quiet => Claimed
  BY DEF Faultless, Quiet
<1> QED BY InitClean, <1>1, <1>2, <1>3, <1>4, Invariance, QuietHolds, OneActiveHolds,
           DocumentLocksExact, RegisteredHolds, PTL DEF Spec

(* A set has as many elements as its image under an injective function.    *)
LEMMA ImageSize ==
    ASSUME NEW S, IsFiniteSet(S), NEW T, NEW f \in [S -> T], T = {f[a] : a \in S},
           \A a, b \in S : f[a] = f[b] => a = b
    PROVE  IsFiniteSet(T) /\ Cardinality(T) = Cardinality(S)
<1>1. f \in Bijection(S, T)
  BY DEF Bijection, Injection, Surjection, IsInjective
<1> QED BY <1>1, FS_Bijection DEF ExistsBijection

(* The jobs told of are those that ended and those of the pollers on their *)
(* way to end one, each once.                                              *)
LEMMA CountedParts ==
    ASSUME IInv, Claimed, FirstRuns
    PROVE  Cardinality(Counted)
             = Cardinality({j \in WithStatus(Terminal) : jobs[j].doc \in BatchDocs})
                 + Cardinality({p \in Pollers : pc[p] \in {"complete", "markFailed"}
                                                 /\ Doc(p) \in BatchDocs})
<1> DEFINE Done == {j \in WithStatus(Terminal) : jobs[j].doc \in BatchDocs}
           Ending == {p \in Pollers : pc[p] \in {"complete", "markFailed"} /\ Doc(p) \in BatchDocs}
           Held == {job[p] : p \in Ending}
           held == [p \in Ending |-> job[p]]
<1>1. \A p \in Ending : /\ p \in Pollers /\ pc[p] = "complete" /\ Doc(p) \in BatchDocs
                        /\ job[p] \in JobIds /\ jobs[job[p]].status = "processing"
  BY HeldProcessing DEF FirstRuns, Busy
<1>2. Counted = Done \cup Held
  <2>1. ASSUME NEW j \in Counted PROVE j \in Done \cup Held
    BY DEF Counted, WithStatus, Doc
  <2>2. ASSUME NEW j \in Done PROVE j \in Counted
    BY DEF Counted, WithStatus
  <2>3. ASSUME NEW p \in Ending PROVE job[p] \in Counted
    BY <1>1 DEF Counted, Doc
  <2> QED BY <2>1, <2>2, <2>3
<1>3. Done \cap Held = {}
  BY <1>1 DEF WithStatus, Terminal
<1>4. IsFiniteSet(Done) /\ IsFiniteSet(Held)
  BY <1>2, CountedFinite, FS_Subset
<1>5. Cardinality(Held) = Cardinality(Ending)
  <2>1. IsFiniteSet(Ending)
    BY WorkerAssumption, FS_Subset
  <2>2. \A p, q \in Ending : held[p] = held[q] => p = q
    BY <1>1, OneHolder
  <2>3. held \in [Ending -> Held] /\ Held = {held[p] : p \in Ending}
    OBVIOUS
  <2> HIDE DEF Ending, Held, held
  <2> QED BY <2>1, <2>2, <2>3, ImageSize
<1>6. Cardinality(Done \cup Held) = Cardinality(Done) + Cardinality(Held)
  <2>1. Cardinality({}) = 0 /\ Cardinality(Done) \in Nat /\ Cardinality(Held) \in Nat
    BY <1>4, FS_EmptySet, FS_CardinalityType
  <2> HIDE DEF Done, Held
  <2>2. Cardinality(Done \cup Held)
          = Cardinality(Done) + Cardinality(Held) - Cardinality(Done \cap Held)
    BY <1>4, FS_Union
  <2>3. Cardinality(Done \cap Held) = 0
    BY <1>3, <2>1
  <2> QED BY <2>1, <2>2, <2>3
<1> QED BY <1>2, <1>5, <1>6

(* Each finished run is counted once and at once: the counters lag behind  *)
(* the runs by those that are between the pipeline and the RPC only.       *)
THEOREM CountersFollowRuns ==
    ASSUME Undisturbed
    PROVE  Spec => []BatchCountsRuns
<1>1. IInv /\ Claimed /\ Clean => BatchCountsRuns
  BY CountedParts DEF Clean, Tally, BatchCountsRuns
<1> QED BY CleanHolds, Invariance, Undisturbed, <1>1, PTL

(* A batch that is closed has a counted run for each of its documents.     *)
LEMMA AllCounted ==
    ASSUME IInv, Clean, batch.status \in Closed, NEW d \in BatchDocs
    PROVE  \E j \in Counted : jobs[j].doc = d
<1> DEFINE Told == {jobs[j].doc : j \in Counted}
           doc == [j \in Counted |-> jobs[j].doc]
<1>1. /\ FirstRuns /\ \A j \in Counted : j \in JobIds /\ jobs[j].doc \in BatchDocs
      /\ Cardinality(Counted) >= Cardinality(BatchDocs)
  BY DEF Clean, Tally, Counted
<1>2. \A j \in Counted : jobs[j].status # "absent"
  <2>1. \A p \in Pollers : pc[p] = "complete" => jobs[job[p]].status # "absent"
    BY HeldDoc DEF Busy
  <2> QED BY <2>1 DEF Counted, Terminal
<1>3. \A j, k \in Counted : doc[j] = doc[k] => j = k
  BY <1>1, <1>2 DEF FirstRuns
<1>4. IsFiniteSet(Told) /\ Cardinality(Told) = Cardinality(Counted)
  <2>1. doc \in [Counted -> Told] /\ Told = {doc[j] : j \in Counted}
    OBVIOUS
  <2> HIDE DEF Told, doc
  <2> QED BY <1>3, <2>1, CountedFinite, ImageSize
<1>5. Told \in SUBSET BatchDocs
  BY <1>1
<1>6. /\ IsFiniteSet(BatchDocs) /\ Cardinality(Told) <= Cardinality(BatchDocs)
      /\ Cardinality(BatchDocs) = Cardinality(Told) => BatchDocs = Told
  BY <1>5, WorkerAssumption, FS_Subset
<1>7. Cardinality(BatchDocs) \in Nat /\ Cardinality(Told) \in Nat
  BY <1>4, <1>6, FS_CardinalityType
<1>8. BatchDocs = Told
  BY <1>1, <1>4, <1>6, <1>7
<1> QED BY <1>8

(* A batch is closed only after each of its documents was processed or has *)
(* failed: no document is counted for another, or before its last write.   *)
THEOREM ClosedBatchesSettled ==
    ASSUME Undisturbed
    PROVE  Spec => []ClosedBatchSettled
<1>1. IInv /\ Clean => ClosedBatchSettled
  <2> SUFFICES ASSUME IInv, Clean, batch.status \in Closed, NEW d \in BatchDocs
               PROVE  docs[d].status \in {"processed", "failed"}
    BY DEF ClosedBatchSettled
  <2>1. PICK j \in Counted : jobs[j].doc = d
    BY AllCounted
  <2>2. Settles(docs[d])
    BY <2>1 DEF Counted, Clean, Stages, Doc
  <2> QED BY <2>2 DEF Settles
<1> QED BY CleanHolds, Invariance, Undisturbed, <1>1, PTL
=============================================================================
