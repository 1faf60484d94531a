------------------------------ MODULE TenantSlots ------------------------------
(***************************************************************************)
(* The concurrency control of one worker process: the per-document lock,   *)
(* the global semaphore, the per-tenant semaphores and the count of active *)
(* jobs of TenantConcurrencyManager.tenant_slot                            *)
(* (app/infrastructure/background_jobs/tenant_concurrency_manager.py).     *)
(*                                                                         *)
(* Everything runs on one event loop: a step is what a poller does between *)
(* two suspension points.  The asyncio.Lock objects of the class are never *)
(* contended (no await inside their critical sections), so they suspend    *)
(* nobody and do not appear.  asyncio.Semaphore is external: a release     *)
(* hands the permit to the waiter that queued first, which runs later.     *)
(***************************************************************************)
EXTENDS Naturals, FiniteSets

CONSTANTS
    Pollers,        \* the poller tasks of the process
    Docs,           \* source documents
    Tenants,        \* tenant keys, "global" among them
    TenantOf,       \* resolve_tenant_key of a document's record
    GlobalPermits,  \* initial value of the global semaphore
    TenantPermits,  \* per_tenant_limit
    NoDoc           \* doc of a poller outside tenant_slot

ASSUME SlotsAssumption ==
    /\ IsFiniteSet(Pollers)
    /\ TenantOf \in [Docs -> Tenants]
    /\ GlobalPermits \in Nat \ {0}
    /\ TenantPermits \in Nat \ {0}
    /\ NoDoc \notin Docs

VARIABLES
    slot,        \* where each poller is in tenant_slot
    doc,         \* the document it asked a slot for
    ahead,       \* the pollers queued on the same semaphore before it did
    globalFree,  \* value of global_semaphore
    tenantFree,  \* value of _tenant_semaphores[t]
    activeDocs,  \* _active_doc_ids
    activeJobs,  \* _tenant_active_jobs, 0 for a tenant without entry
    stopping     \* IngestionWorker.start is cancelling its pollers

slotsVars == <<slot, doc, ahead, globalFree, tenantFree, activeDocs, activeJobs, stopping>>

-----------------------------------------------------------------------------
(* Positions in tenant_slot.  A woken poller owns the permit already.      *)

HoldingTenant == {"wokenTenant", "inside"}
HoldingGlobal == {"wokenGlobal", "waitTenant"} \cup HoldingTenant
Engaged       == {"waitGlobal"} \cup HoldingGlobal
Positions     == {"idle", "refused", "stopped"} \cup Engaged

At(place) == {p \in Pollers : slot[p] = place}

Of(t) == {p \in Pollers : slot[p] \in Engaged /\ TenantOf[doc[p]] = t}

GlobalHolders    == {p \in Pollers : slot[p] \in HoldingGlobal}
TenantHolders(t) == {p \in Of(t) : slot[p] \in HoldingTenant}
Running(t)       == {p \in Of(t) : slot[p] = "inside"}

GlobalQueue    == At("waitGlobal")
TenantQueue(t) == At("waitTenant") \cap Of(t)

(* The waiter that queued first, as a set with at most one member. *)
First(queue) == {p \in queue : ahead[p] \cap queue = {}}

-----------------------------------------------------------------------------
SlotsInit ==
    /\ slot = [p \in Pollers |-> "idle"]
    /\ doc = [p \in Pollers |-> NoDoc]
    /\ ahead = [p \in Pollers |-> {}]
    /\ globalFree = GlobalPermits
    /\ tenantFree = [t \in Tenants |-> TenantPermits]
    /\ activeDocs = {}
    /\ activeJobs = [t \in Tenants |-> 0]
    /\ stopping = FALSE

(* `async with tenant_sem` by p for a document of t: enter, or queue.      *)
AcquireTenant(p, t) ==
    \/ /\ tenantFree[t] > 0
       /\ TenantQueue(t) = {}
       /\ tenantFree' = [tenantFree EXCEPT ![t] = @ - 1]
       /\ activeJobs' = [activeJobs EXCEPT ![t] = @ + 1]
       /\ slot' = [slot EXCEPT ![p] = "inside"]
       /\ UNCHANGED ahead
    \/ /\ tenantFree[t] = 0 \/ TenantQueue(t) # {}
       /\ slot' = [slot EXCEPT ![p] = "waitTenant"]
       /\ ahead' = [ahead EXCEPT ![p] = TenantQueue(t)]
       /\ UNCHANGED <<tenantFree, activeJobs>>

(* Mutant: the lock set is not looked at. *)
AlwaysUnlocked(d) == TRUE

(* try_acquire_doc_lock succeeds. *)
Unlocked(d) == d \notin activeDocs

(* tenant_slot up to its first suspension: the document lock is taken,     *)
(* then a global permit or a place in the queue for one.                   *)
Request(p, d) ==
    /\ ~stopping
    /\ slot[p] = "idle"
    /\ Unlocked(d)
    /\ activeDocs' = activeDocs \cup {d}
    /\ doc' = [doc EXCEPT ![p] = d]
    /\ \/ /\ globalFree > 0
          /\ GlobalQueue = {}
          /\ globalFree' = globalFree - 1
          /\ AcquireTenant(p, TenantOf[d])
       \/ /\ globalFree = 0 \/ GlobalQueue # {}
          /\ slot' = [slot EXCEPT ![p] = "waitGlobal"]
          /\ ahead' = [ahead EXCEPT ![p] = GlobalQueue]
          /\ UNCHANGED <<globalFree, tenantFree, activeJobs>>
    /\ UNCHANGED stopping

(* try_acquire_doc_lock fails: AlreadyProcessingError leaves tenant_slot   *)
(* before anything is taken.                                               *)
Refuse(p, d) ==
    /\ ~stopping
    /\ slot[p] = "idle"
    /\ ~Unlocked(d)
    /\ slot' = [slot EXCEPT ![p] = "refused"]
    /\ UNCHANGED <<doc, ahead, globalFree, tenantFree, activeDocs, activeJobs, stopping>>

(* handle_ingestion turns AlreadyProcessingError into a result. *)
ReportRefusal(p) ==
    /\ ~stopping
    /\ slot[p] = "refused"
    /\ slot' = [slot EXCEPT ![p] = "idle"]
    /\ UNCHANGED <<doc, ahead, globalFree, tenantFree, activeDocs, activeJobs, stopping>>

(* A poller handed a global permit goes on to the tenant's semaphore. *)
ResumeGlobal(p) ==
    /\ ~stopping
    /\ slot[p] = "wokenGlobal"
    /\ AcquireTenant(p, TenantOf[doc[p]])
    /\ UNCHANGED <<doc, globalFree, activeDocs, stopping>>

(* A poller handed a tenant permit counts itself and runs the body. *)
ResumeTenant(p) ==
    /\ ~stopping
    /\ slot[p] = "wokenTenant"
    /\ slot' = [slot EXCEPT ![p] = "inside"]
    /\ activeJobs' = [activeJobs EXCEPT ![TenantOf[doc[p]]] = @ + 1]
    /\ UNCHANGED <<doc, ahead, globalFree, tenantFree, activeDocs, stopping>>

-----------------------------------------------------------------------------
(* Leaving tenant_slot from any slot: the `finally` blocks and the     *)
(* __aexit__ of the semaphores held, without a suspension in between.      *)

(* Mutant: a release wakes nobody. *)
WakeNone(p) == {}

GlobalHeir(p) == IF slot[p] \in HoldingGlobal THEN First(GlobalQueue) ELSE {}

TenantHeir(p) ==
    IF slot[p] \in HoldingTenant THEN First(TenantQueue(TenantOf[doc[p]])) ELSE {}

(* decrement_active_jobs: the entry is dropped at one and below. *)
Decremented(n) == IF n <= 1 THEN 0 ELSE n - 1

Unwind(p, place) ==
    LET t == TenantOf[doc[p]]
        heirs == GlobalHeir(p) \cup TenantHeir(p)
    IN  /\ slot' = [q \in Pollers |-> IF q = p THEN place
                                    ELSE IF q \in GlobalHeir(p) THEN "wokenGlobal"
                                    ELSE IF q \in TenantHeir(p) THEN "wokenTenant"
                                    ELSE slot[q]]
        /\ doc' = [doc EXCEPT ![p] = NoDoc]
        /\ ahead' = [q \in Pollers |-> IF q \in heirs \cup {p} THEN {}
                                       ELSE ahead[q] \ (heirs \cup {p})]
        /\ globalFree' = IF slot[p] \in HoldingGlobal /\ GlobalHeir(p) = {}
                         THEN globalFree + 1 ELSE globalFree
        /\ tenantFree' = IF slot[p] \in HoldingTenant /\ TenantHeir(p) = {}
                         THEN [tenantFree EXCEPT ![t] = @ + 1] ELSE tenantFree
        /\ activeJobs' = IF slot[p] = "inside"
                         THEN [activeJobs EXCEPT ![t] = Decremented(@)]
                         ELSE activeJobs
        /\ activeDocs' = activeDocs \ {doc[p]}

(* The body returns or raises: both leave through the same exits. *)
Leave(p) ==
    /\ ~stopping
    /\ slot[p] = "inside"
    /\ Unwind(p, "idle")
    /\ UNCHANGED stopping

(* IngestionWorker.start unwinds: every poller task is cancelled. *)
Stop ==
    /\ ~stopping
    /\ stopping' = TRUE
    /\ UNCHANGED <<slot, doc, ahead, globalFree, tenantFree, activeDocs, activeJobs>>

(* Mutant: the permits are returned on a normal exit only. *)
CancelLeaks(p) ==
    /\ stopping
    /\ slot[p] # "stopped"
    /\ slot' = [slot EXCEPT ![p] = "stopped"]
    /\ doc' = [doc EXCEPT ![p] = NoDoc]
    /\ activeDocs' = activeDocs \ {doc[p]}
    /\ UNCHANGED <<ahead, globalFree, tenantFree, activeJobs, stopping>>

(* CancelledError reaches poller p at the await it is suspended in. *)
Cancel(p) ==
    /\ stopping
    /\ \/ /\ slot[p] \in Engaged
          /\ Unwind(p, "stopped")
       \/ /\ slot[p] \in {"idle", "refused"}
          /\ slot' = [slot EXCEPT ![p] = "stopped"]
          /\ UNCHANGED <<doc, ahead, globalFree, tenantFree, activeDocs, activeJobs>>
    /\ UNCHANGED stopping

SlotsNext ==
    \/ Stop
    \/ \E p \in Pollers :
         \/ \E d \in Docs : Request(p, d) \/ Refuse(p, d)
         \/ ReportRefusal(p)
         \/ ResumeGlobal(p)
         \/ ResumeTenant(p)
         \/ Leave(p)
         \/ Cancel(p)

(* The event loop runs every ready task, and a body ends (the pipeline's   *)
(* calls have timeouts); nothing obliges a poller to ask or the process to *)
(* stop.                                                                   *)
SlotsFairness ==
    \A p \in Pollers :
        /\ WF_slotsVars(ResumeGlobal(p))
        /\ WF_slotsVars(ResumeTenant(p))
        /\ WF_slotsVars(Leave(p))
        /\ WF_slotsVars(Cancel(p))

SlotsSpec == SlotsInit /\ [][SlotsNext]_slotsVars

SlotsFairSpec == SlotsSpec /\ SlotsFairness

-----------------------------------------------------------------------------
(* Types of the variables: the base of every other invariant. *)
SlotsTypeOK ==
    /\ slot \in [Pollers -> Positions]
    /\ doc \in [Pollers -> Docs \cup {NoDoc}]
    /\ \A p \in Pollers : slot[p] \in Engaged <=> doc[p] \in Docs
    /\ ahead \in [Pollers -> SUBSET Pollers]
    /\ globalFree \in Nat
    /\ tenantFree \in [Tenants -> Nat]
    /\ activeDocs \in SUBSET Docs
    /\ activeJobs \in [Tenants -> Nat]
    /\ stopping \in BOOLEAN

(* Two pollers never hold a slot for, or queue for, the same document, and *)
(* a document is locked exactly while some poller does                     *)
(* (try_acquire_doc_lock, release_doc_lock on every exit).                 *)
DocExclusive ==
    /\ \A p, q \in Pollers :
         (slot[p] \in Engaged /\ slot[q] \in Engaged /\ doc[p] = doc[q]) => p = q
    /\ activeDocs = {doc[p] : p \in {q \in Pollers : slot[q] \in Engaged}}

(* No permit of either semaphore is lost or made up, whichever way         *)
(* tenant_slot is left: return, exception or cancellation.                 *)
PermitsConserved ==
    /\ globalFree + Cardinality(GlobalHolders) = GlobalPermits
    /\ \A t \in Tenants :
         tenantFree[t] + Cardinality(TenantHolders(t)) = TenantPermits

(* The count get_active_jobs_count reports is the number of pollers in the *)
(* body for that tenant, although decrement_active_jobs drops the entry at *)
(* one and below.                                                          *)
ActiveJobsExact ==
    \A t \in Tenants : activeJobs[t] = Cardinality(Running(t))

(* Every poller that asked for a slot gets it, unless the process stops:   *)
(* no tenant is starved by the others' jobs.                               *)
EveryRequestServed ==
    \A p \in Pollers : (slot[p] \in Engaged) ~> (slot[p] \in {"inside", "stopped"})

=============================================================================
