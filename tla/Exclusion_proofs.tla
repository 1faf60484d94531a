--------------------------- MODULE Exclusion_proofs ---------------------------
(***************************************************************************)
(* Proofs about the two components that keep workers apart: the slots of   *)
(* one process (TenantSlots) and the rebuild of a tenant's communities by  *)
(* many (CommunityRebuild).  They share nothing but the lemmas on finite   *)
(* sets.                                                                   *)
(*                                                                         *)
(* TenantSlots, for every number of pollers, documents, tenants and        *)
(* permits: SlotsInv, the inductive invariant, adds to the invariants the  *)
(* runs check that a queue is totally ordered by `ahead`, so that a        *)
(* release has at most one heir.                                           *)
(***************************************************************************)
EXTENDS TenantSlots, CommunityRebuild, FiniteSetTheorems, TLAPS

(* Two pollers queued on one semaphore know which of them came first: what *)
(* makes the heir of a released permit unique (asyncio.Semaphore is FIFO). *)
QueueOrder ==
    \A p, q \in Pollers :
        (/\ p # q
         /\ \/ slot[p] = "waitGlobal" /\ slot[q] = "waitGlobal"
            \/ /\ slot[p] = "waitTenant" /\ slot[q] = "waitTenant"
               /\ TenantOf[doc[p]] = TenantOf[doc[q]])
        => p \in ahead[q] \/ q \in ahead[p]

GlobalConserved == globalFree + Cardinality(GlobalHolders) = GlobalPermits

TenantConserved ==
    \A t \in Tenants : tenantFree[t] + Cardinality(TenantHolders(t)) = TenantPermits

SlotsInv ==
    /\ SlotsTypeOK
    /\ DocExclusive
    /\ QueueOrder
    /\ GlobalConserved
    /\ TenantConserved
    /\ ActiveJobsExact

-----------------------------------------------------------------------------
(* Counting lemmas. *)

(* A set of pollers is finite and has a natural number of members. *)
LEMMA PollersFinite ==
    ASSUME NEW S \in SUBSET Pollers
    PROVE  IsFiniteSet(S) /\ Cardinality(S) \in Nat
  BY SlotsAssumption, FS_Subset, FS_CardinalityType

(* One poller more. *)
LEMMA OneMore ==
    ASSUME NEW S \in SUBSET Pollers, NEW p \in Pollers, p \notin S
    PROVE  Cardinality(S \cup {p}) = Cardinality(S) + 1
  BY PollersFinite, FS_AddElement

(* One poller less. *)
LEMMA OneLess ==
    ASSUME NEW S \in SUBSET Pollers, NEW p \in S
    PROVE  Cardinality(S \ {p}) = Cardinality(S) - 1 /\ Cardinality(S) >= 1
<1>1. Cardinality(S \ {p}) = Cardinality(S) - 1
  BY PollersFinite, FS_RemoveElement
<1>2. Cardinality(S \ {p}) \in Nat /\ Cardinality(S) \in Nat
  BY PollersFinite
<1> QED BY <1>1, <1>2

(* A permit changes hands: the holders lose p and gain the heir, if any. *)
LEMMA HandOver ==
    ASSUME NEW S \in SUBSET Pollers, NEW p \in S,
           NEW H \in SUBSET Pollers, H \cap S = {},
           \A a, b \in H : a = b
    PROVE  Cardinality((S \ {p}) \cup H)
             = IF H = {} THEN Cardinality(S) - 1 ELSE Cardinality(S)
<1>1. CASE H = {}
  BY <1>1, OneLess, (S \ {p}) \cup {} = S \ {p}
<1>2. CASE H # {}
  <2>1. PICK q \in H : TRUE
    BY <1>2
  <2>2. H = {q} /\ q \notin S \ {p} /\ q \in Pollers
    BY <2>1
  <2>3. Cardinality((S \ {p}) \cup {q}) = Cardinality(S \ {p}) + 1
    BY <2>2, OneMore
  <2>4. Cardinality(S \ {p}) = Cardinality(S) - 1 /\ Cardinality(S) \in Nat
    BY OneLess, PollersFinite
  <2> QED BY <1>2, <2>2, <2>3, <2>4
<1> QED BY <1>1, <1>2

-----------------------------------------------------------------------------
(* Unwind: who inherits, and what the sets of holders become. *)

(* A release wakes waiters of its own semaphore, at most one each. *)
LEMMA Heirs ==
    ASSUME SlotsTypeOK, QueueOrder, NEW p \in Pollers
    PROVE  /\ GlobalHeir(p) \in SUBSET Pollers /\ TenantHeir(p) \in SUBSET Pollers
           /\ \A q \in GlobalHeir(p) : slot[q] = "waitGlobal" /\ slot[p] \in HoldingGlobal
           /\ \A q \in TenantHeir(p) : /\ slot[q] = "waitTenant" /\ slot[p] \in HoldingTenant
                                       /\ TenantOf[doc[q]] = TenantOf[doc[p]]
           /\ \A q, r \in GlobalHeir(p) : q = r
           /\ \A q, r \in TenantHeir(p) : q = r
<1> USE DEF First, At, GlobalQueue, TenantQueue, Of
<1>1. \A q \in GlobalHeir(p) : q \in Pollers /\ slot[q] = "waitGlobal" /\ slot[p] \in HoldingGlobal
  BY DEF GlobalHeir
<1>2. \A q \in TenantHeir(p) : /\ q \in Pollers
                               /\ slot[q] = "waitTenant" /\ slot[p] \in HoldingTenant
                               /\ TenantOf[doc[q]] = TenantOf[doc[p]]
  BY DEF TenantHeir
<1>3. \A q, r \in GlobalHeir(p) : q = r
  BY DEF GlobalHeir, QueueOrder
<1>4. \A q, r \in TenantHeir(p) : q = r
  BY DEF TenantHeir, QueueOrder
<1> QED BY <1>1, <1>2, <1>3, <1>4

(* Unwind moves p out, its heirs into possession, and nobody else. *)
LEMMA UnwindHolders ==
    ASSUME SlotsTypeOK, QueueOrder, NEW p \in Pollers, slot[p] \in Engaged,
           NEW place \in {"idle", "stopped"}, Unwind(p, place)
    PROVE  /\ GlobalHolders' = (GlobalHolders \ {p}) \cup GlobalHeir(p)
           /\ \A t \in Tenants :
                TenantHolders(t)' = IF t = TenantOf[doc[p]]
                                    THEN (TenantHolders(t) \ {p}) \cup TenantHeir(p)
                                    ELSE TenantHolders(t)
           /\ \A t \in Tenants :
                Running(t)' = IF t = TenantOf[doc[p]] THEN Running(t) \ {p} ELSE Running(t)
<1> DEFINE u == TenantOf[doc[p]]
<1> USE DEF HoldingGlobal, HoldingTenant, Engaged
<1>1. \A q \in Pollers :
        slot'[q] = IF q = p THEN place
                 ELSE IF q \in GlobalHeir(p) THEN "wokenGlobal"
                 ELSE IF q \in TenantHeir(p) THEN "wokenTenant" ELSE slot[q]
  BY DEF Unwind
<1>2. \A q \in Pollers : q # p => doc'[q] = doc[q]
  BY DEF Unwind, SlotsTypeOK
<1>3. GlobalHolders' = (GlobalHolders \ {p}) \cup GlobalHeir(p)
  BY <1>1, Heirs DEF GlobalHolders
<1>4. ASSUME NEW t \in Tenants
      PROVE  TenantHolders(t)' = IF t = u THEN (TenantHolders(t) \ {p}) \cup TenantHeir(p)
                                 ELSE TenantHolders(t)
  BY <1>1, <1>2, Heirs DEF TenantHolders, Of
<1>5. ASSUME NEW t \in Tenants
      PROVE  Running(t)' = IF t = u THEN Running(t) \ {p} ELSE Running(t)
  BY <1>1, <1>2, Heirs DEF Running, Of
<1> QED BY <1>3, <1>4, <1>5

-----------------------------------------------------------------------------
(* The inductive step, one lemma per conjunct of SlotsInv. *)

(* AcquireTenant keeps the types. *)
LEMMA TypeAcquire ==
    ASSUME SlotsTypeOK, NEW p \in Pollers, NEW t \in Tenants, AcquireTenant(p, t)
    PROVE  /\ slot' \in [Pollers -> Positions]
           /\ slot'[p] \in Engaged
           /\ \A q \in Pollers : q # p => slot'[q] = slot[q]
           /\ ahead' \in [Pollers -> SUBSET Pollers]
           /\ tenantFree' \in [Tenants -> Nat]
           /\ activeJobs' \in [Tenants -> Nat]
<1> USE DEF SlotsTypeOK, Positions, Engaged, HoldingGlobal, HoldingTenant
<1>1. TenantQueue(t) \in SUBSET Pollers
  BY DEF TenantQueue, At
<1> QED BY <1>1 DEF AcquireTenant

(* Unwind keeps the types. *)
LEMMA TypeUnwind ==
    ASSUME SlotsTypeOK, QueueOrder, NEW p \in Pollers, slot[p] \in Engaged,
           NEW place \in {"idle", "stopped"}, Unwind(p, place), UNCHANGED stopping
    PROVE  SlotsTypeOK'
<1> USE DEF SlotsTypeOK, Positions, Engaged, HoldingGlobal, HoldingTenant
<1>1. slot' \in [Pollers -> Positions]
  BY Heirs DEF Unwind
<1>2. doc' \in [Pollers -> Docs \cup {NoDoc}]
  BY DEF Unwind
<1>3. \A q \in Pollers : slot'[q] \in Engaged <=> doc'[q] \in Docs
  BY Heirs, SlotsAssumption DEF Unwind
<1>4. ahead' \in [Pollers -> SUBSET Pollers]
  BY DEF Unwind
<1>5. TenantOf[doc[p]] \in Tenants
  BY SlotsAssumption
<1>6. globalFree' \in Nat /\ tenantFree' \in [Tenants -> Nat]
  BY <1>5 DEF Unwind
<1>7. activeJobs' \in [Tenants -> Nat]
  BY <1>5 DEF Unwind, Decremented
<1>8. activeDocs' \in SUBSET Docs /\ stopping' \in BOOLEAN
  BY DEF Unwind
<1> QED BY <1>1, <1>2, <1>3, <1>4, <1>6, <1>7, <1>8 DEF SlotsTypeOK

LEMMA TypeStep == SlotsInv /\ [SlotsNext]_slotsVars => SlotsTypeOK'
<1> SUFFICES ASSUME SlotsInv, [SlotsNext]_slotsVars PROVE SlotsTypeOK'
  OBVIOUS
<1>0. SlotsTypeOK /\ QueueOrder
  BY DEF SlotsInv
<1>1. ASSUME NEW p \in Pollers, NEW d \in Docs, Request(p, d) PROVE SlotsTypeOK'
  <2>1. TenantOf[d] \in Tenants
    BY SlotsAssumption
  <2>2. CASE AcquireTenant(p, TenantOf[d]) /\ globalFree > 0 /\ globalFree' = globalFree - 1
    BY <1>0, <1>1, <2>1, <2>2, TypeAcquire, SlotsAssumption DEF SlotsTypeOK, Request
  <2>3. CASE /\ slot' = [slot EXCEPT ![p] = "waitGlobal"]
             /\ ahead' = [ahead EXCEPT ![p] = GlobalQueue]
             /\ UNCHANGED <<globalFree, tenantFree, activeJobs>>
    BY <1>0, <1>1, <2>3, SlotsAssumption
    DEF SlotsTypeOK, Request, Positions, Engaged, HoldingGlobal, HoldingTenant, GlobalQueue, At
  <2> QED BY <1>1, <2>2, <2>3 DEF Request
<1>2. ASSUME NEW p \in Pollers, NEW d \in Docs, Refuse(p, d) PROVE SlotsTypeOK'
  BY <1>0, <1>2 DEF SlotsTypeOK, Refuse, Positions, Engaged, HoldingGlobal, HoldingTenant
<1>3. ASSUME NEW p \in Pollers, ReportRefusal(p) PROVE SlotsTypeOK'
  BY <1>0, <1>3 DEF SlotsTypeOK, ReportRefusal, Positions, Engaged, HoldingGlobal, HoldingTenant
<1>4. ASSUME NEW p \in Pollers, ResumeGlobal(p) PROVE SlotsTypeOK'
  <2>1. doc[p] \in Docs /\ TenantOf[doc[p]] \in Tenants
    BY <1>0, <1>4, SlotsAssumption DEF SlotsTypeOK, ResumeGlobal, Engaged, HoldingGlobal
  <2> QED BY <1>0, <1>4, <2>1, TypeAcquire DEF SlotsTypeOK, ResumeGlobal
<1>5. ASSUME NEW p \in Pollers, ResumeTenant(p) PROVE SlotsTypeOK'
  BY <1>0, <1>5, SlotsAssumption
  DEF SlotsTypeOK, ResumeTenant, Positions, Engaged, HoldingGlobal, HoldingTenant
<1>6. ASSUME NEW p \in Pollers, Leave(p) PROVE SlotsTypeOK'
  BY <1>0, <1>6, TypeUnwind DEF Leave, Engaged, HoldingGlobal, HoldingTenant
<1>7. CASE Stop
  BY <1>0, <1>7 DEF SlotsTypeOK, Stop
<1>8. ASSUME NEW p \in Pollers, Cancel(p) PROVE SlotsTypeOK'
  <2>1. CASE slot[p] \in Engaged
    BY <1>0, <1>8, <2>1, TypeUnwind DEF Cancel, Engaged, HoldingGlobal, HoldingTenant
  <2>2. CASE slot[p] \notin Engaged
    BY <1>0, <1>8, <2>2 DEF Cancel, SlotsTypeOK, Positions, Engaged, HoldingGlobal, HoldingTenant
  <2> QED BY <2>1, <2>2
<1>9. CASE UNCHANGED slotsVars
  BY <1>0, <1>9 DEF SlotsTypeOK, slotsVars
<1> QED BY <1>1, <1>2, <1>3, <1>4, <1>5, <1>6, <1>7, <1>8, <1>9 DEF SlotsNext

-----------------------------------------------------------------------------
(* A step that moves no document, permit or count: a refusal and its       *)
(* report, Stop, the cancellation of a poller outside, and stuttering.     *)
Quiet ==
    /\ UNCHANGED <<doc, ahead, globalFree, tenantFree, activeDocs, activeJobs>>
    /\ \A q \in Pollers :
         slot'[q] = slot[q] \/ (slot[q] \notin Engaged /\ slot'[q] \notin Engaged)

LEMMA StepCases ==
    ASSUME SlotsTypeOK, [SlotsNext]_slotsVars
    PROVE  \/ Quiet
           \/ \E p \in Pollers, d \in Docs : Request(p, d)
           \/ \E p \in Pollers : ResumeGlobal(p)
           \/ \E p \in Pollers : ResumeTenant(p)
           \/ \E p \in Pollers, place \in {"idle", "stopped"} :
                slot[p] \in Engaged /\ Unwind(p, place)
<1> USE DEF SlotsTypeOK, Engaged, HoldingGlobal, HoldingTenant
<1>1. ASSUME NEW p \in Pollers, NEW d \in Docs, Refuse(p, d) PROVE Quiet
  BY <1>1 DEF Refuse, Quiet
<1>2. ASSUME NEW p \in Pollers, ReportRefusal(p) PROVE Quiet
  BY <1>2 DEF ReportRefusal, Quiet
<1>3. ASSUME NEW p \in Pollers, Cancel(p)
      PROVE  Quiet \/ (slot[p] \in Engaged /\ Unwind(p, "stopped"))
  BY <1>3 DEF Cancel, Quiet
<1>4. ASSUME NEW p \in Pollers, Leave(p) PROVE slot[p] \in Engaged /\ Unwind(p, "idle")
  BY <1>4 DEF Leave
<1>5. CASE Stop \/ UNCHANGED slotsVars
  BY <1>5 DEF Stop, slotsVars, Quiet
<1> QED BY <1>1, <1>2, <1>3, <1>4, <1>5 DEF SlotsNext

(* What AcquireTenant and Request leave of the other pollers. *)
LEMMA Others ==
    ASSUME SlotsTypeOK, NEW p \in Pollers,
           \/ \E d \in Docs : Request(p, d)
           \/ ResumeGlobal(p)
           \/ ResumeTenant(p)
    PROVE  /\ slot'[p] \in Engaged
           /\ \A q \in Pollers : q # p => slot'[q] = slot[q] /\ doc'[q] = doc[q]
  BY SlotsAssumption DEF SlotsTypeOK, Request, ResumeGlobal, ResumeTenant, AcquireTenant,
                         Engaged, HoldingGlobal, HoldingTenant

LEMMA DocStep == SlotsInv /\ [SlotsNext]_slotsVars => DocExclusive'
<1> SUFFICES ASSUME SlotsInv, [SlotsNext]_slotsVars PROVE DocExclusive'
  OBVIOUS
<1> DEFINE Locked == {q \in Pollers : slot[q] \in Engaged}
<1>0. SlotsTypeOK /\ QueueOrder /\ DocExclusive
  BY DEF SlotsInv
<1>1. CASE Quiet
  <2>1. \A q \in Pollers : (slot'[q] \in Engaged <=> slot[q] \in Engaged) /\ doc'[q] = doc[q]
    BY <1>1 DEF Quiet
  <2>2. {q \in Pollers : slot'[q] \in Engaged} = Locked /\ activeDocs' = activeDocs
    BY <1>1, <2>1 DEF Quiet
  <2> QED BY <1>0, <2>1, <2>2 DEF DocExclusive, Engaged, HoldingGlobal, HoldingTenant
<1>2. ASSUME NEW p \in Pollers, NEW d \in Docs, Request(p, d) PROVE DocExclusive'
  <2>1. slot[p] \notin Engaged /\ d \notin activeDocs
    BY <1>2 DEF Request, Unlocked, Engaged, HoldingGlobal, HoldingTenant
  <2>2. activeDocs' = activeDocs \cup {d} /\ doc'[p] = d
    BY <1>0, <1>2 DEF Request, SlotsTypeOK
  <2>3. /\ slot'[p] \in Engaged
        /\ \A q \in Pollers : q # p => slot'[q] = slot[q] /\ doc'[q] = doc[q]
    BY <1>0, <1>2, Others
  <2> QED BY <1>0, <2>1, <2>2, <2>3 DEF DocExclusive, Engaged, HoldingGlobal, HoldingTenant
<1>3. ASSUME NEW p \in Pollers, ResumeGlobal(p) \/ ResumeTenant(p) PROVE DocExclusive'
  <2>1. slot[p] \in Engaged /\ doc' = doc /\ activeDocs' = activeDocs
    BY <1>3 DEF ResumeGlobal, ResumeTenant, Engaged, HoldingGlobal, HoldingTenant
  <2>2. /\ slot'[p] \in Engaged
        /\ \A q \in Pollers : q # p => slot'[q] = slot[q] /\ doc'[q] = doc[q]
    BY <1>0, <1>3, Others
  <2>3. {q \in Pollers : slot'[q] \in Engaged} = Locked
    BY <2>1, <2>2
  <2> QED BY <1>0, <2>1, <2>2, <2>3 DEF DocExclusive, Engaged, HoldingGlobal, HoldingTenant
<1>4. ASSUME NEW p \in Pollers, NEW place \in {"idle", "stopped"},
             slot[p] \in Engaged, Unwind(p, place)
      PROVE  DocExclusive'
  <2>1. \A q \in Pollers : q # p => (slot'[q] \in Engaged <=> slot[q] \in Engaged)
    BY <1>0, <1>4, Heirs DEF Unwind, Engaged, HoldingGlobal, HoldingTenant
  <2>2. slot'[p] \notin Engaged
    BY <1>4 DEF Unwind, Engaged, HoldingGlobal, HoldingTenant
  <2>3. \A q \in Pollers : q # p => doc'[q] = doc[q]
    BY <1>0, <1>4 DEF Unwind, SlotsTypeOK
  <2>4. activeDocs' = activeDocs \ {doc[p]}
    BY <1>4 DEF Unwind
  <2> QED BY <1>0, <1>4, <2>1, <2>2, <2>3, <2>4
          DEF DocExclusive, Engaged, HoldingGlobal, HoldingTenant
<1> QED BY <1>0, <1>1, <1>2, <1>3, <1>4, StepCases

LEMMA QueueStep == SlotsInv /\ [SlotsNext]_slotsVars => QueueOrder'
<1> SUFFICES ASSUME SlotsInv, [SlotsNext]_slotsVars PROVE QueueOrder'
  OBVIOUS
<1>0. SlotsTypeOK /\ QueueOrder
  BY DEF SlotsInv
<1> USE DEF Engaged, HoldingGlobal, HoldingTenant
<1>1. CASE Quiet
  BY <1>0, <1>1 DEF Quiet, QueueOrder
<1>2. ASSUME NEW p \in Pollers, NEW d \in Docs, Request(p, d) PROVE QueueOrder'
  <2>1. CASE slot'[p] = "waitGlobal" \/ slot'[p] = "inside"
    BY <1>0, <1>2, <2>1, SlotsAssumption
    DEF SlotsTypeOK, Request, AcquireTenant, QueueOrder, GlobalQueue, At
  <2>2. CASE slot'[p] = "waitTenant"
    <3>1. ahead'[p] = TenantQueue(TenantOf[d]) /\ doc'[p] = d
      BY <1>0, <1>2, <2>2 DEF SlotsTypeOK, Request, AcquireTenant
    <3>2. \A q \in Pollers : q # p => /\ slot'[q] = slot[q] /\ doc'[q] = doc[q]
                                      /\ ahead'[q] = ahead[q]
      BY <1>0, <1>2 DEF SlotsTypeOK, Request, AcquireTenant
    <3> QED BY <1>0, <2>2, <3>1, <3>2 DEF QueueOrder, TenantQueue, At, Of
  <2> QED BY <1>0, <1>2, <2>1, <2>2 DEF SlotsTypeOK, Request, AcquireTenant
<1>3. ASSUME NEW p \in Pollers, ResumeGlobal(p) PROVE QueueOrder'
  <2>1. \A q \in Pollers : q # p => slot'[q] = slot[q] /\ ahead'[q] = ahead[q]
    BY <1>0, <1>3 DEF SlotsTypeOK, ResumeGlobal, AcquireTenant
  <2>2. doc' = doc /\ (slot'[p] = "waitTenant" => ahead'[p] = TenantQueue(TenantOf[doc[p]]))
    BY <1>0, <1>3 DEF SlotsTypeOK, ResumeGlobal, AcquireTenant
  <2>3. slot'[p] # "waitGlobal"
    BY <1>0, <1>3 DEF SlotsTypeOK, ResumeGlobal, AcquireTenant
  <2> QED BY <1>0, <2>1, <2>2, <2>3 DEF QueueOrder, TenantQueue, At, Of
<1>4. ASSUME NEW p \in Pollers, ResumeTenant(p) PROVE QueueOrder'
  BY <1>0, <1>4 DEF SlotsTypeOK, ResumeTenant, QueueOrder
<1>5. ASSUME NEW p \in Pollers, NEW place \in {"idle", "stopped"},
             slot[p] \in Engaged, Unwind(p, place)
      PROVE  QueueOrder'
  <2> DEFINE gone == GlobalHeir(p) \cup TenantHeir(p) \cup {p}
  <2>1. \A q \in Pollers :
          slot'[q] \in {"waitGlobal", "waitTenant"}
            => /\ q \notin gone /\ slot'[q] = slot[q] /\ doc'[q] = doc[q]
               /\ ahead'[q] = ahead[q] \ gone
    BY <1>0, <1>5, Heirs DEF Unwind, SlotsTypeOK
  <2> QED BY <1>0, <2>1 DEF QueueOrder
<1> QED BY <1>0, <1>1, <1>2, <1>3, <1>4, <1>5, StepCases

-----------------------------------------------------------------------------
(* The counting conjuncts. *)

(* A quiet step changes no set of holders. *)
LEMMA QuietHolders ==
    ASSUME SlotsTypeOK, Quiet
    PROVE  /\ GlobalHolders' = GlobalHolders
           /\ \A t \in Tenants : TenantHolders(t)' = TenantHolders(t)
           /\ \A t \in Tenants : Running(t)' = Running(t)
  BY DEF SlotsTypeOK, Quiet, GlobalHolders, TenantHolders, Running, Of,
         Engaged, HoldingGlobal, HoldingTenant

(* What an acquisition by p adds to the holders of each semaphore and to   *)
(* the pollers in the body, by the slot p reaches.                     *)
LEMMA AcquireHolders ==
    ASSUME SlotsTypeOK, NEW p \in Pollers,
           \/ \E d \in Docs : Request(p, d)
           \/ ResumeGlobal(p)
           \/ ResumeTenant(p)
    PROVE  /\ GlobalHolders' = IF slot'[p] \in HoldingGlobal THEN GlobalHolders \cup {p}
                               ELSE GlobalHolders
           /\ \A t \in Tenants :
                TenantHolders(t)' =
                    IF slot'[p] \in HoldingTenant /\ TenantOf[doc'[p]] = t
                    THEN TenantHolders(t) \cup {p} ELSE TenantHolders(t)
           /\ \A t \in Tenants :
                Running(t)' =
                    IF slot'[p] = "inside" /\ TenantOf[doc'[p]] = t
                    THEN Running(t) \cup {p} ELSE Running(t)
<1>1. /\ slot'[p] \in Engaged
      /\ \A q \in Pollers : q # p => slot'[q] = slot[q] /\ doc'[q] = doc[q]
  BY Others
<1>2. /\ slot[p] \notin Engaged \/ doc'[p] = doc[p]
      /\ slot[p] \in HoldingGlobal => slot'[p] \in HoldingGlobal
      /\ slot[p] \in HoldingTenant => slot'[p] \in HoldingTenant
      /\ slot[p] # "inside"
  BY DEF SlotsTypeOK, Request, ResumeGlobal, ResumeTenant, AcquireTenant,
         Engaged, HoldingGlobal, HoldingTenant
<1> QED BY <1>1, <1>2 DEF GlobalHolders, TenantHolders, Running, Of,
                          Engaged, HoldingGlobal, HoldingTenant

LEMMA GlobalStep == SlotsInv /\ [SlotsNext]_slotsVars => GlobalConserved'
<1> SUFFICES ASSUME SlotsInv, [SlotsNext]_slotsVars PROVE GlobalConserved'
  OBVIOUS
<1>0. SlotsTypeOK /\ QueueOrder /\ GlobalConserved
  BY DEF SlotsInv
<1>h. GlobalHolders \in SUBSET Pollers /\ Cardinality(GlobalHolders) \in Nat
  BY PollersFinite DEF GlobalHolders
<1>1. CASE Quiet
  BY <1>0, <1>1, QuietHolders DEF Quiet, GlobalConserved
<1>2. ASSUME NEW p \in Pollers, NEW d \in Docs, Request(p, d) PROVE GlobalConserved'
  <2>1. p \notin GlobalHolders
    BY <1>2 DEF Request, GlobalHolders, HoldingGlobal, HoldingTenant
  <2>2. CASE globalFree > 0 /\ globalFree' = globalFree - 1 /\ slot'[p] \in HoldingGlobal
    <3>1. GlobalHolders' = GlobalHolders \cup {p}
      BY <1>0, <1>2, <2>2, AcquireHolders
    <3>2. Cardinality(GlobalHolders') = Cardinality(GlobalHolders) + 1
      BY <1>h, <2>1, <3>1, OneMore
    <3> QED BY <1>0, <1>h, <2>2, <3>2, SlotsAssumption DEF GlobalConserved, SlotsTypeOK
  <2>3. CASE globalFree' = globalFree /\ slot'[p] = "waitGlobal"
    <3>1. GlobalHolders' = GlobalHolders
      BY <1>0, <1>2, <2>3, AcquireHolders DEF HoldingGlobal, HoldingTenant
    <3> QED BY <1>0, <2>3, <3>1 DEF GlobalConserved
  <2> QED BY <1>0, <1>2, <2>2, <2>3
          DEF SlotsTypeOK, Request, AcquireTenant, HoldingGlobal, HoldingTenant
<1>3. ASSUME NEW p \in Pollers, ResumeGlobal(p) \/ ResumeTenant(p) PROVE GlobalConserved'
  <2>1. p \in GlobalHolders /\ globalFree' = globalFree /\ slot'[p] \in HoldingGlobal
    BY <1>0, <1>3 DEF SlotsTypeOK, ResumeGlobal, ResumeTenant, AcquireTenant, GlobalHolders,
                      HoldingGlobal, HoldingTenant
  <2>2. GlobalHolders' = GlobalHolders
    BY <1>0, <1>3, <2>1, AcquireHolders
  <2> QED BY <1>0, <2>1, <2>2 DEF GlobalConserved
<1>4. ASSUME NEW p \in Pollers, NEW place \in {"idle", "stopped"},
             slot[p] \in Engaged, Unwind(p, place)
      PROVE  GlobalConserved'
  <2>1. GlobalHolders' = (GlobalHolders \ {p}) \cup GlobalHeir(p)
    BY <1>0, <1>4, UnwindHolders
  <2>2. CASE p \in GlobalHolders
    <3>1. /\ GlobalHeir(p) \in SUBSET Pollers /\ GlobalHolders \cap GlobalHeir(p) = {}
          /\ \A a, b \in GlobalHeir(p) : a = b
      BY <1>0, Heirs DEF GlobalHolders, HoldingGlobal, HoldingTenant
    <3>2. Cardinality(GlobalHolders') = IF GlobalHeir(p) = {} THEN Cardinality(GlobalHolders) - 1
                                        ELSE Cardinality(GlobalHolders)
      BY <1>h, <2>1, <2>2, <3>1, HandOver
    <3>3. globalFree' = IF GlobalHeir(p) = {} THEN globalFree + 1 ELSE globalFree
      BY <1>4, <2>2 DEF Unwind, GlobalHolders
    <3> QED BY <1>0, <1>h, <3>2, <3>3, SlotsAssumption DEF GlobalConserved, SlotsTypeOK
  <2>3. CASE p \notin GlobalHolders
    <3>1. GlobalHeir(p) = {} /\ globalFree' = globalFree
      BY <1>4, <2>3 DEF Unwind, GlobalHolders, GlobalHeir
    <3> QED BY <1>0, <2>1, <2>3, <3>1 DEF GlobalConserved
  <2> QED BY <2>2, <2>3
<1> QED BY <1>0, <1>1, <1>2, <1>3, <1>4, StepCases

LEMMA TenantStep == SlotsInv /\ [SlotsNext]_slotsVars => TenantConserved'
<1> SUFFICES ASSUME SlotsInv, [SlotsNext]_slotsVars, NEW t \in Tenants
             PROVE  tenantFree'[t] + Cardinality(TenantHolders(t)') = TenantPermits
  BY DEF TenantConserved
<1> DEFINE H == TenantHolders(t)
           Goal == tenantFree'[t] + Cardinality(TenantHolders(t)') = TenantPermits
<1>0. SlotsTypeOK /\ QueueOrder /\ tenantFree[t] + Cardinality(H) = TenantPermits
  BY DEF SlotsInv, TenantConserved
<1>h. H \in SUBSET Pollers /\ Cardinality(H) \in Nat /\ tenantFree[t] \in Nat
  BY <1>0, PollersFinite DEF TenantHolders, Of, SlotsTypeOK
<1>1. CASE Quiet
  BY <1>0, <1>1, QuietHolders DEF Quiet
<1>2. ASSUME NEW p \in Pollers, NEW u \in Tenants, AcquireTenant(p, u), TenantOf[doc'[p]] = u,
             p \notin H,
             TenantHolders(t)' = IF slot'[p] \in HoldingTenant /\ TenantOf[doc'[p]] = t
                                 THEN H \cup {p} ELSE H
      PROVE  Goal
  <2>1. CASE slot'[p] = "inside" /\ u = t
    <3>1. TenantHolders(t)' = H \cup {p}
      BY <1>2, <2>1 DEF HoldingTenant
    <3>2. Cardinality(TenantHolders(t)') = Cardinality(H) + 1
      BY <1>2, <1>h, <3>1, OneMore
    <3>3. tenantFree'[t] = tenantFree[t] - 1
      BY <1>0, <1>2, <2>1 DEF SlotsTypeOK, AcquireTenant
    <3> QED BY <1>0, <1>h, <3>2, <3>3, SlotsAssumption
  <2>2. CASE ~(slot'[p] = "inside" /\ u = t)
    <3>1. TenantHolders(t)' = H
      BY <1>0, <1>2, <2>2 DEF SlotsTypeOK, AcquireTenant, HoldingTenant
    <3>2. tenantFree'[t] = tenantFree[t]
      BY <1>0, <1>2, <2>2 DEF SlotsTypeOK, AcquireTenant
    <3> QED BY <1>0, <3>1, <3>2
  <2> QED BY <2>1, <2>2
<1>3. ASSUME NEW p \in Pollers, NEW d \in Docs, Request(p, d) PROVE Goal
  <2>1. p \notin H /\ doc'[p] = d /\ TenantOf[d] \in Tenants
    BY <1>0, <1>3, SlotsAssumption
    DEF Request, SlotsTypeOK, TenantHolders, Of, Engaged, HoldingGlobal, HoldingTenant
  <2>2. TenantHolders(t)' = IF slot'[p] \in HoldingTenant /\ TenantOf[doc'[p]] = t
                            THEN H \cup {p} ELSE H
    BY <1>0, <1>3, AcquireHolders
  <2>3. CASE AcquireTenant(p, TenantOf[d])
    BY <1>2, <2>1, <2>2, <2>3
  <2>4. CASE slot'[p] = "waitGlobal" /\ UNCHANGED tenantFree
    BY <1>0, <2>2, <2>4 DEF HoldingTenant
  <2> QED BY <1>0, <1>3, <2>3, <2>4 DEF Request, SlotsTypeOK
<1>4. ASSUME NEW p \in Pollers, ResumeGlobal(p) PROVE Goal
  <2>1. p \notin H /\ doc'[p] = doc[p] /\ TenantOf[doc[p]] \in Tenants
    BY <1>0, <1>4, SlotsAssumption
    DEF ResumeGlobal, SlotsTypeOK, TenantHolders, Of, Engaged, HoldingGlobal, HoldingTenant
  <2>2. TenantHolders(t)' = IF slot'[p] \in HoldingTenant /\ TenantOf[doc'[p]] = t
                            THEN H \cup {p} ELSE H
    BY <1>0, <1>4, AcquireHolders
  <2> QED BY <1>2, <1>4, <2>1, <2>2 DEF ResumeGlobal
<1>5. ASSUME NEW p \in Pollers, ResumeTenant(p) PROVE Goal
  <2>1. /\ doc'[p] = doc[p] /\ tenantFree' = tenantFree /\ slot'[p] = "inside"
        /\ TenantOf[doc[p]] = t => p \in H
    BY <1>0, <1>5 DEF ResumeTenant, SlotsTypeOK, TenantHolders, Of, Engaged,
                       HoldingGlobal, HoldingTenant
  <2>2. TenantHolders(t)' = H
    BY <1>0, <1>5, <2>1, AcquireHolders
  <2> QED BY <1>0, <2>1, <2>2
<1>6. ASSUME NEW p \in Pollers, NEW place \in {"idle", "stopped"},
             slot[p] \in Engaged, Unwind(p, place)
      PROVE  Goal
  <2> DEFINE u == TenantOf[doc[p]]
  <2>0. u \in Tenants /\ (slot[p] \in HoldingTenant /\ t = u <=> p \in H)
    BY <1>0, <1>6, SlotsAssumption DEF SlotsTypeOK, TenantHolders, Of
  <2>1. TenantHolders(t)' = IF t = u THEN (H \ {p}) \cup TenantHeir(p) ELSE H
    BY <1>0, <1>6, UnwindHolders
  <2>2. CASE p \in H
    <3>1. /\ TenantHeir(p) \in SUBSET Pollers /\ H \cap TenantHeir(p) = {}
          /\ \A a, b \in TenantHeir(p) : a = b
      BY <1>0, Heirs DEF TenantHolders, Of, HoldingTenant
    <3>2. Cardinality(TenantHolders(t)') = IF TenantHeir(p) = {} THEN Cardinality(H) - 1
                                           ELSE Cardinality(H)
      BY <1>h, <2>0, <2>1, <2>2, <3>1, HandOver
    <3>3. tenantFree'[t] = IF TenantHeir(p) = {} THEN tenantFree[t] + 1 ELSE tenantFree[t]
      BY <1>0, <1>6, <2>0, <2>2 DEF Unwind, SlotsTypeOK
    <3> QED BY <1>0, <1>h, <3>2, <3>3, SlotsAssumption
  <2>3. CASE p \notin H
    <3>1. tenantFree'[t] = tenantFree[t]
      BY <1>0, <1>6, <2>0, <2>3 DEF Unwind, SlotsTypeOK
    <3>2. t = u => TenantHeir(p) = {}
      BY <2>0, <2>3 DEF TenantHeir
    <3>3. TenantHolders(t)' = H
      BY <2>1, <2>3, <3>2
    <3> QED BY <1>0, <3>1, <3>3
  <2> QED BY <2>2, <2>3
<1> QED BY <1>0, <1>1, <1>3, <1>4, <1>5, <1>6, StepCases

LEMMA JobsStep == SlotsInv /\ [SlotsNext]_slotsVars => ActiveJobsExact'
<1> SUFFICES ASSUME SlotsInv, [SlotsNext]_slotsVars, NEW t \in Tenants
             PROVE  activeJobs'[t] = Cardinality(Running(t)')
  BY DEF ActiveJobsExact
<1> DEFINE R == Running(t)
           Goal == activeJobs'[t] = Cardinality(Running(t)')
<1>0. SlotsTypeOK /\ QueueOrder /\ activeJobs[t] = Cardinality(R)
  BY DEF SlotsInv, ActiveJobsExact
<1>h. R \in SUBSET Pollers /\ Cardinality(R) \in Nat
  BY PollersFinite DEF Running, Of
<1>1. CASE Quiet
  BY <1>0, <1>1, QuietHolders DEF Quiet
<1>2. ASSUME NEW p \in Pollers,
             \/ \E d \in Docs : Request(p, d)
             \/ ResumeGlobal(p)
             \/ ResumeTenant(p)
      PROVE  Goal
  <2>1. p \notin R /\ TenantOf[doc'[p]] \in Tenants
    BY <1>0, <1>2, SlotsAssumption
    DEF Request, ResumeGlobal, ResumeTenant, SlotsTypeOK, Running, Of, Engaged,
        HoldingGlobal, HoldingTenant
  <2>2. Running(t)' = IF slot'[p] = "inside" /\ TenantOf[doc'[p]] = t THEN R \cup {p} ELSE R
    BY <1>0, <1>2, AcquireHolders
  <2>3. activeJobs'[t] = IF slot'[p] = "inside" /\ TenantOf[doc'[p]] = t
                         THEN activeJobs[t] + 1 ELSE activeJobs[t]
    BY <1>0, <1>2, <2>1 DEF SlotsTypeOK, Request, ResumeGlobal, ResumeTenant, AcquireTenant
  <2>4. Cardinality(R \cup {p}) = Cardinality(R) + 1
    BY <1>h, <2>1, OneMore
  <2> QED BY <1>0, <2>2, <2>3, <2>4
<1>3. ASSUME NEW p \in Pollers, NEW place \in {"idle", "stopped"},
             slot[p] \in Engaged, Unwind(p, place)
      PROVE  Goal
  <2>0. TenantOf[doc[p]] \in Tenants /\ (slot[p] = "inside" /\ t = TenantOf[doc[p]] <=> p \in R)
    BY <1>0, <1>3, SlotsAssumption DEF SlotsTypeOK, Running, Of
  <2>1. Running(t)' = IF t = TenantOf[doc[p]] THEN R \ {p} ELSE R
    BY <1>0, <1>3, UnwindHolders
  <2>2. CASE p \in R
    <3>1. Cardinality(R \ {p}) = Cardinality(R) - 1 /\ Cardinality(R) >= 1
      BY <1>h, <2>2, OneLess
    <3>2. activeJobs'[t] = activeJobs[t] - 1
      BY <1>0, <1>h, <1>3, <2>0, <2>2, <3>1 DEF Unwind, Decremented, SlotsTypeOK
    <3> QED BY <1>0, <2>0, <2>1, <2>2, <3>1, <3>2
  <2>3. CASE p \notin R
    <3>1. activeJobs'[t] = activeJobs[t]
      BY <1>0, <1>3, <2>0, <2>3 DEF Unwind, Decremented, SlotsTypeOK
    <3> QED BY <1>0, <2>1, <2>3, <3>1
  <2> QED BY <2>2, <2>3
<1> QED BY <1>0, <1>1, <1>2, <1>3, StepCases

-----------------------------------------------------------------------------
LEMMA SlotsInvInit == SlotsInit => SlotsInv
<1> SUFFICES ASSUME SlotsInit PROVE SlotsInv
  OBVIOUS
<1>1. \A p \in Pollers : slot[p] \notin Engaged /\ doc[p] \notin Docs
  BY SlotsAssumption DEF SlotsInit, Engaged, HoldingGlobal, HoldingTenant
<1>2. SlotsTypeOK
  BY <1>1, SlotsAssumption
     DEF SlotsInit, SlotsTypeOK, Positions, Engaged, HoldingGlobal, HoldingTenant
<1>3. DocExclusive /\ QueueOrder
  BY <1>1 DEF SlotsInit, DocExclusive, QueueOrder, Engaged, HoldingGlobal, HoldingTenant
<1>4. /\ GlobalHolders = {}
      /\ \A t \in Tenants : TenantHolders(t) = {} /\ Running(t) = {}
  BY <1>1 DEF GlobalHolders, TenantHolders, Running, Of, Engaged
<1>5. GlobalConserved /\ TenantConserved /\ ActiveJobsExact
  BY <1>4, FS_EmptySet, SlotsAssumption
  DEF SlotsInit, GlobalConserved, TenantConserved, ActiveJobsExact
<1> QED BY <1>2, <1>3, <1>5 DEF SlotsInv

LEMMA SlotsInvStep == SlotsInv /\ [SlotsNext]_slotsVars => SlotsInv'
  BY TypeStep, DocStep, QueueStep, GlobalStep, TenantStep, JobsStep DEF SlotsInv

LEMMA SlotsInvariance == SlotsSpec => []SlotsInv
  BY SlotsInvInit, SlotsInvStep, PTL DEF SlotsSpec

(* Every variable keeps its type, for any pollers, documents and permits. *)
THEOREM SlotsTypeCorrect == SlotsSpec => []SlotsTypeOK
  BY SlotsInvariance, PTL DEF SlotsInv

(* tenant_slot never lets two pollers of the process work on one document. *)
THEOREM DocumentsExclusive == SlotsSpec => []DocExclusive
  BY SlotsInvariance, PTL DEF SlotsInv

(* However tenant_slot is left, the permits of both semaphores add up. *)
THEOREM PermitsNeverLeak == SlotsSpec => []PermitsConserved
<1>1. SlotsInv => PermitsConserved
  BY DEF SlotsInv, GlobalConserved, TenantConserved, PermitsConserved
<1> QED BY SlotsInvariance, <1>1, PTL

(* The active-job metric is the number of pollers in the body. *)
THEOREM MetricExact == SlotsSpec => []ActiveJobsExact
  BY SlotsInvariance, PTL DEF SlotsInv

(* The limits hold: at most GlobalPermits bodies run, and at most          *)
(* TenantPermits of one tenant.                                            *)
LimitsRespected ==
    /\ Cardinality(At("inside")) <= GlobalPermits
    /\ \A t \in Tenants : Cardinality(Running(t)) <= TenantPermits

THEOREM LimitsHold == SlotsSpec => []LimitsRespected
<1>1. ASSUME SlotsInv PROVE LimitsRespected
  <2>1. Cardinality(At("inside")) <= Cardinality(GlobalHolders)
    <3>1. At("inside") \in SUBSET GlobalHolders /\ IsFiniteSet(GlobalHolders)
      BY PollersFinite DEF At, GlobalHolders, HoldingGlobal, HoldingTenant
    <3> QED BY <3>1, FS_Subset
  <2>2. ASSUME NEW t \in Tenants
        PROVE  Cardinality(Running(t)) <= Cardinality(TenantHolders(t))
    <3>1. Running(t) \in SUBSET TenantHolders(t) /\ IsFiniteSet(TenantHolders(t))
      BY PollersFinite DEF Running, TenantHolders, Of, HoldingTenant
    <3> QED BY <3>1, FS_Subset
  <2>3. /\ Cardinality(At("inside")) \in Nat /\ Cardinality(GlobalHolders) \in Nat
        /\ \A t \in Tenants : /\ Cardinality(Running(t)) \in Nat
                              /\ Cardinality(TenantHolders(t)) \in Nat
    BY PollersFinite DEF At, GlobalHolders, Running, TenantHolders, Of
  <2>4. Cardinality(GlobalHolders) <= GlobalPermits
    BY <1>1, <2>3, SlotsAssumption DEF SlotsInv, SlotsTypeOK, GlobalConserved
  <2>5. \A t \in Tenants : Cardinality(TenantHolders(t)) <= TenantPermits
    BY <1>1, <2>3, SlotsAssumption DEF SlotsInv, SlotsTypeOK, TenantConserved
  <2> QED BY <2>1, <2>2, <2>3, <2>4, <2>5, SlotsAssumption DEF LimitsRespected
<1> QED BY SlotsInvariance, <1>1, PTL

-----------------------------------------------------------------------------
(* IngestionWorker builds as many ingestion pollers as the global          *)
(* semaphore has permits, WORKER_CONCURRENCY of each (worker.py): then the *)
(* global semaphore never makes a poller wait.                             *)
GlobalNeverQueues == Cardinality(Pollers) <= GlobalPermits => GlobalQueue = {}

THEOREM NeverQueues == SlotsSpec => []GlobalNeverQueues
<1>1. SlotsInit => GlobalNeverQueues
  BY DEF SlotsInit, GlobalNeverQueues, GlobalQueue, At
<1>2. SlotsInv /\ GlobalNeverQueues /\ [SlotsNext]_slotsVars => GlobalNeverQueues'
  <2> SUFFICES ASSUME SlotsInv, GlobalQueue = {}, [SlotsNext]_slotsVars,
                      Cardinality(Pollers) <= GlobalPermits
               PROVE  GlobalQueue' = {}
    BY DEF GlobalNeverQueues
  <2>0. SlotsTypeOK /\ QueueOrder /\ \A q \in Pollers : slot[q] # "waitGlobal"
    BY DEF SlotsInv, GlobalQueue, At
  <2>1. CASE Quiet
    BY <2>0, <2>1 DEF Quiet, GlobalQueue, At, Engaged
  <2>2. ASSUME NEW p \in Pollers, NEW d \in Docs, Request(p, d) PROVE GlobalQueue' = {}
    <3>1. p \notin GlobalHolders /\ GlobalHolders \in SUBSET Pollers
      BY <2>2 DEF Request, GlobalHolders, HoldingGlobal, HoldingTenant
    <3>2. Cardinality(GlobalHolders) + 1 <= Cardinality(Pollers)
      <4>1. GlobalHolders \cup {p} \in SUBSET Pollers /\ IsFiniteSet(Pollers)
        BY <3>1, SlotsAssumption
      <4>2. Cardinality(GlobalHolders \cup {p}) <= Cardinality(Pollers)
        BY <4>1, FS_Subset
      <4> QED BY <3>1, <4>2, OneMore
    <3>3. globalFree > 0
      <4>1. Cardinality(GlobalHolders) \in Nat /\ Cardinality(Pollers) \in Nat
        BY <3>1, PollersFinite
      <4>2. globalFree + Cardinality(GlobalHolders) = GlobalPermits /\ globalFree \in Nat
        BY <2>0 DEF SlotsInv, GlobalConserved, SlotsTypeOK
      <4> QED BY <3>2, <4>1, <4>2, SlotsAssumption
    <3> QED BY <2>0, <2>2, <3>3 DEF SlotsTypeOK, Request, AcquireTenant, GlobalQueue, At
  <2>3. ASSUME NEW p \in Pollers, ResumeGlobal(p) \/ ResumeTenant(p) PROVE GlobalQueue' = {}
    BY <2>0, <2>3 DEF SlotsTypeOK, ResumeGlobal, ResumeTenant, AcquireTenant, GlobalQueue, At
  <2>4. ASSUME NEW p \in Pollers, NEW place \in {"idle", "stopped"},
               slot[p] \in Engaged, Unwind(p, place)
        PROVE  GlobalQueue' = {}
    BY <2>0, <2>4 DEF Unwind, GlobalQueue, At
  <2> QED BY <2>0, <2>1, <2>2, <2>3, <2>4, StepCases
<1> QED BY SlotsInvariance, <1>1, <1>2, PTL DEF SlotsSpec

-----------------------------------------------------------------------------
(***************************************************************************)
(* Theorems about CommunityRebuild, for every number of workers, jobs,     *)
(* changes of the graph and faults, every partition and every batch size:  *)
(* type correctness and, when a single process schedules, that the stored  *)
(* communities of a tenant never mix two rebuilds.                         *)
(*                                                                         *)
(* The argument has two parts.  Claims is about the queue: one active job  *)
(* at a time, held by one worker at most, and a worker that still works    *)
(* holds it.  Snapshot is about the rows: while a worker inserts, they are *)
(* exactly what it has inserted.  Snapshot needs Claims at the delete and  *)
(* at every batch, to know that nobody else is writing.                    *)
(***************************************************************************)

OneScheduler == \A s, t \in Schedulers : s = t

Working == Rebuilding \cup {"complete"}

Live(j) == jobs[j].status \in {"pending", "processing"}

Claims ==
    /\ \A w \in Workers : pc[w] = "idle" <=> job[w] = NoJob
    /\ \A w \in Workers : pc[w] \in Working => jobs[job[w]].status = "processing"
    /\ \A w \in Workers : job[w] # NoJob =>
          /\ jobs[job[w]].status \in {"processing", "completed", "failed"}
          /\ jobs[job[w]].fresh
    /\ \A v, w \in Workers : job[v] = job[w] /\ job[v] # NoJob => v = w
    /\ \A i, k \in Queue!JobIds : Live(i) /\ Live(k) => i = k
    /\ \A s \in Schedulers : scheduler[s] = "insert" => \A j \in Queue!JobIds : ~Live(j)

Inserting == \E w \in Workers : pc[w] = "insert"

Snapshot ==
    /\ \A w \in Workers : pc[w] = "insert" =>
          /\ left[w] \subseteq rebuild[w].ids
          /\ stored = Rows(w, rebuild[w].ids \ left[w])
    /\ \A a, b \in stored : a.of = b.of
    /\ torn \/ Inserting \/ \A a \in stored : {row.id : row \in stored} = a.of.ids

IInv == TypeOK /\ Claims /\ Snapshot

USE DEF NoJob

-----------------------------------------------------------------------------
(* Type correctness.                                                       *)

LEMMA FaultTyped ==
    ASSUME NEW kind, Fault(kind), faults \in 0 .. MaxFaults
    PROVE  faults' \in 0 .. MaxFaults
BY CommunityAssumption DEF Fault

LEMMA FetchTyped ==
    ASSUME Queue!JobsTypeOK, NEW j \in Queue!JobIds, Queue!FetchNextJob(j)
    PROVE  Queue!JobsTypeOK'
BY DEF Queue!JobsTypeOK, Queue!FetchNextJob, Queue!Oldest, Queue!WithStatus, Queue!Row,
       Queue!Active, Queue!Terminal

LEMMA FinalTyped ==
    ASSUME Queue!JobsTypeOK, NEW j \in Queue!JobIds, jobs[j].status # "absent",
           NEW status \in {"completed", "failed"}, Queue!MarkJobFinal(j, status)
    PROVE  Queue!JobsTypeOK'
<1>1. [jobs[j] EXCEPT !.status = status, !.fresh = TRUE] \in Queue!Row
  BY DEF Queue!JobsTypeOK, Queue!Row, Queue!Terminal
<1>2. /\ jobs' = [jobs EXCEPT ![j] = [jobs[j] EXCEPT !.status = status, !.fresh = TRUE]]
      /\ [jobs[j] EXCEPT !.status = status, !.fresh = TRUE].doc = jobs[j].doc
  BY DEF Queue!JobsTypeOK, Queue!MarkJobFinal, Queue!Row
<1> QED BY <1>1, <1>2 DEF Queue!JobsTypeOK

LEMMA RequeueTyped ==
    ASSUME Queue!JobsTypeOK, Queue!RequeueStaleJobs
    PROVE  Queue!JobsTypeOK'
<1> DEFINE Requeued(j) == [jobs[j] EXCEPT !.status = "pending", !.fresh = TRUE]
<1>1. ASSUME NEW j \in Queue!JobIds
      PROVE  Requeued(j) \in Queue!Row /\ Requeued(j).doc = jobs[j].doc
  BY DEF Queue!JobsTypeOK, Queue!Row, Queue!Active
<1>2. ASSUME NEW j \in Queue!StaleJobs PROVE jobs[j].status # "absent"
  BY DEF Queue!StaleJobs, Queue!WithStatus
<1>3. jobs' = [j \in Queue!JobIds |-> IF j \in Queue!StaleJobs THEN Requeued(j) ELSE jobs[j]]
  BY DEF Queue!RequeueStaleJobs
<1> HIDE DEF Requeued
<1> QED BY <1>1, <1>2, <1>3 DEF Queue!JobsTypeOK

LEMMA RequeuedPending ==
    ASSUME Queue!JobsTypeOK, Queue!RequeueStaleJobs, NEW j \in Queue!JobIds
    PROVE  /\ j \in Queue!StaleJobs => jobs'[j].status = "pending"
           /\ j \notin Queue!StaleJobs => jobs'[j] = jobs[j]
<1>1. CASE j \in Queue!StaleJobs
  <2>1. jobs'[j] = [jobs[j] EXCEPT !.status = "pending", !.fresh = TRUE]
    BY <1>1 DEF Queue!RequeueStaleJobs
  <2> QED BY <1>1, <2>1 DEF Queue!JobsTypeOK, Queue!Row
<1>2. CASE j \notin Queue!StaleJobs
  BY <1>2 DEF Queue!RequeueStaleJobs
<1> QED BY <1>1, <1>2

LEMMA StaleTyped ==
    ASSUME Queue!JobsTypeOK, NEW j \in Queue!JobIds, Queue!GrowStale(j)
    PROVE  Queue!JobsTypeOK'
BY DEF Queue!JobsTypeOK, Queue!GrowStale, Queue!StaleJobs, Queue!WithStatus,
       Queue!Row, Queue!Active, Queue!Terminal

LEMMA InsertTyped ==
    ASSUME Queue!JobsTypeOK, NEW j \in Queue!JobIds,
           jobs' = [jobs EXCEPT ![j] = [status |-> "pending", doc |-> Tenant, fresh |-> TRUE]]
    PROVE  Queue!JobsTypeOK'
BY DEF Queue!JobsTypeOK, Queue!Row, Queue!Active, Queue!Terminal

(* A worker that is not idle holds a row that was inserted. *)
Held ==
    /\ \A w \in Workers : pc[w] = "idle" <=> job[w] = NoJob
    /\ \A w \in Workers : job[w] # NoJob => jobs[job[w]].status # "absent"

LEMMA NothingTyped ==
    Nothing \in [entities : 0 .. MaxVersions, relations : 0 .. MaxVersions,
                 ids : SUBSET Ids, by : Workers \cup {"nobody"}]
BY CommunityAssumption DEF Nothing

LEMMA InitTyped == Init => TypeOK
<1> SUFFICES ASSUME Init PROVE TypeOK
  OBVIOUS
<1>1. Queue!JobsTypeOK
  BY DEF Init, Queue!JobsInit, Queue!JobsTypeOK, Queue!NoRow, Queue!Row
<1>2. rebuild \in [Workers -> [entities : 0 .. MaxVersions, relations : 0 .. MaxVersions,
                            ids : SUBSET Ids, by : Workers \cup {"nobody"}]]
  BY NothingTyped DEF Init
<1>3. pc \in [Workers -> Rebuilding \cup {"idle", "complete", "markFailed"}]
  BY DEF Init
<1>4. /\ job \in [Workers -> {NoJob} \cup Queue!JobIds]
      /\ left \in [Workers -> SUBSET Ids]
      /\ up \subseteq Workers
      /\ scheduler \in [Schedulers -> {"idle", "insert"}]
  BY DEF Init
<1>5. version \in 0 .. MaxVersions /\ faults \in 0 .. MaxFaults
  BY CommunityAssumption DEF Init
<1>6. torn \in BOOLEAN
  BY DEF Init
<1> QED BY <1>1, <1>2, <1>3, <1>4, <1>5, <1>6 DEF TypeOK

LEMMA RestTyped ==
    ASSUME TypeOK, NEW w \in Workers, Rest(w)
    PROVE  /\ pc' \in [Workers -> Rebuilding \cup {"idle", "complete", "markFailed"}]
           /\ job' \in [Workers -> {NoJob} \cup Queue!JobIds]
           /\ rebuild' \in [Workers -> [entities : 0 .. MaxVersions, relations : 0 .. MaxVersions,
                                        ids : SUBSET Ids, by : Workers \cup {"nobody"}]]
           /\ left' \in [Workers -> SUBSET Ids]
BY NothingTyped DEF TypeOK, Rest, Goto

LEMMA StepTyped == TypeOK /\ Held /\ [Next]_vars => TypeOK'
<1> SUFFICES ASSUME TypeOK, Held, [Next]_vars PROVE TypeOK'
  OBVIOUS
<1>1. CASE GraphChanges
  BY <1>1, CommunityAssumption DEF TypeOK, GraphChanges, workerVars, Queue!JobsTypeOK
<1>2. ASSUME NEW s \in Schedulers, Tick(s) PROVE TypeOK'
  BY <1>2 DEF TypeOK, Tick, workerVars, Queue!JobsTypeOK
<1>3. ASSUME NEW s \in Schedulers, InsertJob(s) PROVE TypeOK'
  <2>1. Queue!JobsTypeOK'
    <3>1. CASE UNCHANGED jobs
      BY <3>1 DEF TypeOK, Queue!JobsTypeOK
    <3>2. CASE \E j \in Queue!Oldest(Unused) :
                 jobs' = [jobs EXCEPT ![j] = [status |-> "pending", doc |-> Tenant, fresh |-> TRUE]]
      BY <3>2, InsertTyped DEF TypeOK, Queue!Oldest, Unused
    <3> QED BY <1>3, <3>1, <3>2 DEF InsertJob
  <2>2. faults' \in 0 .. MaxFaults
    BY <1>3, FaultTyped DEF InsertJob, TypeOK
  <2> QED BY <1>3, <2>1, <2>2 DEF TypeOK, InsertJob, workerVars
<1>4. ASSUME NEW w \in Workers, Fetch(w) PROVE TypeOK'
  <2>1. Queue!JobsTypeOK'
    BY <1>4, FetchTyped DEF TypeOK, Fetch
  <2> QED BY <1>4, <2>1 DEF TypeOK, Fetch, Goto, Rebuilding
<1>5. ASSUME NEW w \in Workers, ReadEntities(w) PROVE TypeOK'
  <2> DEFINE Read == [rebuild[w] EXCEPT !.entities = version, !.by = w]
  <2>1. Read \in [entities : 0 .. MaxVersions, relations : 0 .. MaxVersions,
                  ids : SUBSET Ids, by : Workers \cup {"nobody"}]
    BY DEF TypeOK
  <2>2. rebuild' = [rebuild EXCEPT ![w] = Read]
    BY <1>5 DEF TypeOK, ReadEntities
  <2> HIDE DEF Read
  <2>3. rebuild' \in [Workers -> [entities : 0 .. MaxVersions, relations : 0 .. MaxVersions,
                                 ids : SUBSET Ids, by : Workers \cup {"nobody"}]]
    BY <2>1, <2>2 DEF TypeOK
  <2>4. pc' \in [Workers -> Rebuilding \cup {"idle", "complete", "markFailed"}]
    BY <1>5 DEF TypeOK, ReadEntities, Goto, Rebuilding
  <2> QED BY <1>5, <2>3, <2>4 DEF TypeOK, ReadEntities, Queue!JobsTypeOK
<1>6. ASSUME NEW w \in Workers, ReadRelations(w) PROVE TypeOK'
  BY <1>6 DEF TypeOK, ReadRelations, Goto, Rebuilding, Queue!JobsTypeOK
<1>7. ASSUME NEW w \in Workers, Summarize(w) PROVE TypeOK'
  <2>1. PICK kept : /\ kept \subseteq Communities(rebuild[w].entities, rebuild[w].relations)
                    /\ rebuild' = [rebuild EXCEPT ![w].ids = kept]
                    /\ Goto(w, IF kept = {} THEN "complete" ELSE "delete")
    BY <1>7 DEF Summarize
  <2>2. kept \subseteq Ids
    BY <2>1 DEF Ids, TypeOK
  <2> QED BY <1>7, <2>1, <2>2 DEF TypeOK, Summarize, Goto, Rebuilding, Queue!JobsTypeOK
<1>8. ASSUME NEW w \in Workers, Delete(w) PROVE TypeOK'
  BY <1>8 DEF TypeOK, Delete, Goto, Rebuilding, Queue!JobsTypeOK
<1>9. ASSUME NEW w \in Workers, Insert(w) PROVE TypeOK'
  <2>1. /\ pc' \in [Workers -> Rebuilding \cup {"idle", "complete", "markFailed"}]
        /\ left' \in [Workers -> SUBSET Ids]
        /\ torn' \in BOOLEAN
    <3>1. PICK b \in Batches(w) :
            \/ Goto(w, "markFailed") /\ torn' = TRUE /\ UNCHANGED left
            \/ /\ left' = [left EXCEPT ![w] = @ \ b]
               /\ Goto(w, IF b = left[w] THEN "complete" ELSE "insert")
               /\ torn' = (torn /\ b # left[w])
      BY <1>9 DEF Insert
    <3>2. CASE Goto(w, "markFailed") /\ torn' = TRUE /\ UNCHANGED left
      BY <3>2 DEF TypeOK, Goto
    <3>3. CASE /\ left' = [left EXCEPT ![w] = @ \ b]
               /\ Goto(w, IF b = left[w] THEN "complete" ELSE "insert")
               /\ torn' = (torn /\ b # left[w])
      <4>1. pc' \in [Workers -> Rebuilding \cup {"idle", "complete", "markFailed"}]
        BY <3>3 DEF TypeOK, Goto, Rebuilding
      <4>2. left' \in [Workers -> SUBSET Ids]
        BY <3>3 DEF TypeOK
      <4> QED BY <3>3, <4>1, <4>2
    <3> QED BY <3>1, <3>2, <3>3
  <2> QED BY <1>9, <2>1 DEF TypeOK, Insert, Queue!JobsTypeOK
<1>10. ASSUME NEW w \in Workers, Complete(w) PROVE TypeOK'
  <2>1. job[w] \in Queue!JobIds /\ jobs[job[w]].status # "absent"
    BY <1>10 DEF Complete, Held, TypeOK
  <2>2. Queue!JobsTypeOK'
    <3>1. CASE UNCHANGED jobs
      BY <3>1 DEF TypeOK, Queue!JobsTypeOK
    <3> QED BY <1>10, <2>1, <3>1, FinalTyped DEF Complete, TypeOK
  <2>3. faults' \in 0 .. MaxFaults
    BY <1>10, FaultTyped DEF Complete, TypeOK
  <2>4. CASE Rest(w)
    BY <1>10, <2>2, <2>3, <2>4, RestTyped DEF TypeOK, Complete
  <2>5. CASE Goto(w, "markFailed") /\ UNCHANGED <<job, rebuild, left>>
    BY <1>10, <2>2, <2>3, <2>5 DEF TypeOK, Complete, Goto
  <2> QED BY <1>10, <2>4, <2>5 DEF Complete
<1>11. ASSUME NEW w \in Workers, MarkFailed(w) PROVE TypeOK'
  <2>1. job[w] \in Queue!JobIds /\ jobs[job[w]].status # "absent"
    BY <1>11 DEF MarkFailed, Held, TypeOK
  <2>2. Queue!JobsTypeOK'
    <3>1. CASE UNCHANGED jobs
      BY <3>1 DEF TypeOK, Queue!JobsTypeOK
    <3> QED BY <1>11, <2>1, <3>1, FinalTyped DEF MarkFailed, TypeOK
  <2>3. faults' \in 0 .. MaxFaults
    BY <1>11, FaultTyped DEF MarkFailed, TypeOK
  <2> QED BY <1>11, <2>2, <2>3, RestTyped DEF TypeOK, MarkFailed
<1>12. ASSUME NEW w \in Workers, RequeueStale(w) PROVE TypeOK'
  BY <1>12, RequeueTyped DEF TypeOK, RequeueStale, workerVars
<1>13. ASSUME NEW w \in Workers, FetchLost(w) PROVE TypeOK'
  <2>1. Queue!JobsTypeOK' /\ faults' \in 0 .. MaxFaults
    BY <1>13, FetchTyped, FaultTyped DEF TypeOK, FetchLost
  <2> QED BY <1>13, <2>1 DEF TypeOK, FetchLost, workerVars
<1>14. ASSUME NEW w \in Workers, CallFails(w) PROVE TypeOK'
  <2>1. faults' \in 0 .. MaxFaults
    BY <1>14, FaultTyped DEF TypeOK, CallFails
  <2> QED BY <1>14, <2>1 DEF TypeOK, CallFails, Goto, Queue!JobsTypeOK
<1>15. ASSUME NEW w \in Workers, Crash(w) PROVE TypeOK'
  <2>1. faults' \in 0 .. MaxFaults
    BY <1>15, FaultTyped DEF TypeOK, Crash
  <2> QED BY <1>15, <2>1, RestTyped DEF TypeOK, Crash, Queue!JobsTypeOK
<1>16. ASSUME NEW w \in Workers, Restart(w) PROVE TypeOK'
  BY <1>16 DEF TypeOK, Restart, Queue!JobsTypeOK
<1>17. ASSUME NEW j \in Queue!JobIds, Expire(j) PROVE TypeOK'
  BY <1>17, StaleTyped DEF TypeOK, Expire, workerVars
<1>18. CASE UNCHANGED vars
  BY <1>18 DEF TypeOK, vars, workerVars, Queue!JobsTypeOK
<1> QED BY <1>1, <1>2, <1>3, <1>4, <1>5, <1>6, <1>7, <1>8, <1>9, <1>10, <1>11, <1>12, <1>13,
           <1>14, <1>15, <1>16, <1>17, <1>18 DEF Next, Step

LEMMA StepHeld == TypeOK /\ Held /\ [Next]_vars => Held'
<1> SUFFICES ASSUME TypeOK, Held, [Next]_vars PROVE Held'
  OBVIOUS
<1>1. CASE UNCHANGED <<jobs, pc, job>>
  BY <1>1 DEF Held
<1>2. ASSUME NEW w \in Workers, Fetch(w) PROVE Held'
  <2>1. PICK j \in Queue!JobIds : Queue!FetchNextJob(j) /\ job' = [job EXCEPT ![w] = j]
    BY <1>2 DEF Fetch
  <2>2. j # NoJob
    BY <2>1 DEF Queue!JobIds
  <2>3. \A k \in Queue!JobIds : jobs[k].status # "absent" => jobs'[k].status # "absent"
    BY <2>1 DEF TypeOK, Queue!JobsTypeOK, Queue!FetchNextJob
  <2>4. jobs'[j].status = "processing"
    BY <2>1 DEF TypeOK, Queue!JobsTypeOK, Queue!FetchNextJob, Queue!Row
  <2> QED BY <1>2, <2>1, <2>2, <2>3, <2>4 DEF Held, TypeOK, Fetch, Goto
<1>3. ASSUME NEW w \in Workers, NEW j \in Queue!JobIds, 
             NEW status \in {"completed", "failed"}, jobs[j].status # "absent", j = job[w],
             UNCHANGED jobs \/ Queue!MarkJobFinal(j, status),
             Rest(w) \/ (Goto(w, "markFailed") /\ UNCHANGED job), pc[w] # "idle"
      PROVE Held'
  <2>1. \A k \in Queue!JobIds : jobs[k].status # "absent" => jobs'[k].status # "absent"
    BY <1>3 DEF TypeOK, Queue!JobsTypeOK, Queue!MarkJobFinal, Queue!Row
  <2>2. CASE Rest(w)
    BY <2>1, <2>2 DEF Held, TypeOK, Rest, Goto
  <2>3. CASE Goto(w, "markFailed") /\ UNCHANGED job
    BY <1>3, <2>1, <2>3 DEF Held, TypeOK, Goto
  <2> QED BY <1>3, <2>2, <2>3
<1>4. ASSUME NEW w \in Workers, Complete(w) \/ MarkFailed(w) PROVE Held'
  <2>1. job[w] \in Queue!JobIds /\ jobs[job[w]].status # "absent" /\ pc[w] # "idle"
    BY <1>4 DEF Held, TypeOK, Complete, MarkFailed
  <2>2. \/ UNCHANGED jobs
        \/ Queue!MarkJobFinal(job[w], "completed")
        \/ Queue!MarkJobFinal(job[w], "failed")
    BY <1>4 DEF Complete, MarkFailed
  <2>3. Rest(w) \/ (Goto(w, "markFailed") /\ UNCHANGED job)
    <3>1. CASE Complete(w)
      BY <3>1 DEF Complete
    <3>2. CASE MarkFailed(w)
      BY <3>2 DEF MarkFailed
    <3> QED BY <1>4, <3>1, <3>2
  <2> QED BY <1>3, <2>1, <2>2, <2>3
<1>6. ASSUME NEW s \in Schedulers, InsertJob(s) PROVE Held'
  <2>1. \A k \in Queue!JobIds : jobs[k].status # "absent" => jobs'[k].status # "absent"
    BY <1>6 DEF InsertJob, TypeOK, Queue!JobsTypeOK, Queue!Oldest, Unused
  <2> QED BY <1>6, <2>1 DEF Held, TypeOK, InsertJob, workerVars
<1>7. ASSUME NEW w \in Workers, RequeueStale(w) PROVE Held'
  <2>1. \A k \in Queue!JobIds : jobs[k].status # "absent" => jobs'[k].status # "absent"
    <3> TAKE k \in Queue!JobIds
    <3>1. CASE k \in Queue!StaleJobs
      BY <1>7, <3>1, RequeuedPending DEF RequeueStale, TypeOK
    <3>2. CASE k \notin Queue!StaleJobs
      BY <1>7, <3>2, RequeuedPending DEF RequeueStale, TypeOK
    <3> QED BY <3>1, <3>2
  <2> QED BY <1>7, <2>1 DEF Held, TypeOK, RequeueStale, workerVars
<1>8. ASSUME NEW w \in Workers, FetchLost(w) PROVE Held'
  <2>1. \A k \in Queue!JobIds : jobs[k].status # "absent" => jobs'[k].status # "absent"
    BY <1>8 DEF FetchLost, TypeOK, Queue!JobsTypeOK, Queue!FetchNextJob, Queue!Row
  <2> QED BY <1>8, <2>1 DEF Held, TypeOK, FetchLost, workerVars
<1>9. ASSUME NEW j \in Queue!JobIds, Expire(j) PROVE Held'
  <2>1. \A k \in Queue!JobIds : jobs[k].status # "absent" => jobs'[k].status # "absent"
    BY <1>9 DEF Expire, TypeOK, Queue!JobsTypeOK, Queue!GrowStale, Queue!Row
  <2> QED BY <1>9, <2>1 DEF Held, TypeOK, Expire, workerVars
<1>10. ASSUME NEW w \in Workers, Crash(w) PROVE Held'
  BY <1>10 DEF Held, TypeOK, Crash, Rest, Goto
<1>11. ASSUME NEW w \in Workers, NEW place \in Working \cup {"markFailed"}, pc[w] # "idle",
              Goto(w, place), UNCHANGED <<jobs, job>>
       PROVE Held'
  BY <1>11 DEF Held, TypeOK, Goto, Working, Rebuilding
<1>12. ASSUME NEW w \in Workers,
              \/ ReadEntities(w) \/ ReadRelations(w) \/ Summarize(w) \/ Delete(w)
              \/ Insert(w) \/ CallFails(w)
       PROVE Held'
  <2>1. /\ pc[w] # "idle"
        /\ \E place \in Working \cup {"markFailed"} : Goto(w, place)
        /\ UNCHANGED <<jobs, job>>
    BY <1>12 DEF ReadEntities, ReadRelations, Summarize, Delete, Insert, CallFails, Working, Rebuilding
  <2> QED BY <1>11, <2>1
<1> QED BY <1>1, <1>2, <1>4, <1>6, <1>7, <1>8, <1>9, <1>10, <1>12
        DEF Next, Step, GraphChanges, Tick, Restart, vars, workerVars

(* Every value is of its type: the rows of the queue, the place, the job   *)
(* and the readings of every worker, whatever fails and whoever dies.      *)
THEOREM TypeCorrect == Spec => []TypeOK
<1>1. Init => TypeOK /\ Held
  BY InitTyped DEF Init, Held
<1>2. TypeOK /\ Held /\ [Next]_vars => (TypeOK /\ Held)'
  BY StepTyped, StepHeld
<1> QED BY <1>1, <1>2, PTL DEF Spec

-----------------------------------------------------------------------------
(* The queue: one active job, held by one worker.                          *)

LEMMA FetchRows ==
    ASSUME Queue!JobsTypeOK, NEW j \in Queue!JobIds, Queue!FetchNextJob(j)
    PROVE  /\ jobs[j].status = "pending"
           /\ jobs'[j].status = "processing"
           /\ jobs'[j].fresh = TRUE
           /\ \A k \in Queue!JobIds \ {j} : jobs'[k] = jobs[k]
BY DEF Queue!JobsTypeOK, Queue!FetchNextJob, Queue!Oldest, Queue!WithStatus, Queue!Row

LEMMA FinalRows ==
    ASSUME Queue!JobsTypeOK, NEW j \in Queue!JobIds, NEW status, Queue!MarkJobFinal(j, status)
    PROVE  /\ jobs'[j].status = status
           /\ jobs'[j].fresh = TRUE
           /\ \A k \in Queue!JobIds \ {j} : jobs'[k] = jobs[k]
BY DEF Queue!JobsTypeOK, Queue!MarkJobFinal, Queue!Row

LEMMA StaleRows ==
    ASSUME Queue!JobsTypeOK, NEW j \in Queue!JobIds, Queue!GrowStale(j)
    PROVE  /\ jobs'[j].status = jobs[j].status
           /\ \A k \in Queue!JobIds \ {j} : jobs'[k] = jobs[k]
BY DEF Queue!JobsTypeOK, Queue!GrowStale, Queue!Row

(* The workers that still work hold the one active job: there is one.      *)
LEMMA Exclusive ==
    ASSUME TypeOK, Claims, NEW v \in Workers, NEW w \in Workers,
           pc[v] \in Working, pc[w] \in Working
    PROVE  v = w
<1>1. job[v] # NoJob /\ job[w] # NoJob
  BY DEF Claims, Working, Rebuilding
<1>2. job[v] \in Queue!JobIds /\ job[w] \in Queue!JobIds
  BY <1>1 DEF TypeOK
<1>3. Live(job[v]) /\ Live(job[w])
  BY DEF Claims, Live
<1> QED BY <1>1, <1>2, <1>3 DEF Claims

LEMMA InitClaims == Init => Claims
<1> SUFFICES ASSUME Init PROVE Claims
  OBVIOUS
<1>1. \A j \in Queue!JobIds : ~Live(j)
  BY DEF Init, Queue!JobsInit, Queue!NoRow, Live
<1> QED BY <1>1 DEF Init, Claims, Working, Rebuilding

LEMMA StepClaims ==
    ASSUME OneScheduler, TypeOK, Claims, [Next]_vars
    PROVE  Claims'
<1>1. CASE UNCHANGED <<jobs, pc, job, scheduler>>
  BY <1>1 DEF Claims, Live
<1>2. ASSUME NEW s \in Schedulers, Tick(s) PROVE Claims'
  <2>1. \A j \in Queue!JobIds : ~Live(j)
    BY <1>2 DEF Tick, JobFound, Active, Queue!ActiveJobs, Queue!WithStatus, Queue!Active,
                Live, TypeOK, Queue!JobsTypeOK
  <2>2. UNCHANGED <<jobs, pc, job>>
    BY <1>2 DEF Tick, workerVars
  <2>3. \A j \in Queue!JobIds : ~Live(j)'
    BY <2>1, <2>2 DEF Live
  <2> QED BY <2>1, <2>2, <2>3 DEF Claims, Live
<1>3. ASSUME NEW s \in Schedulers, InsertJob(s) PROVE Claims'
  <2>1. /\ scheduler[s] = "insert"
        /\ scheduler' = [scheduler EXCEPT ![s] = "idle"]
        /\ UNCHANGED <<pc, job>>
    BY <1>3 DEF InsertJob, workerVars
  <2>2. \A t \in Schedulers : scheduler'[t] # "insert"
    BY <2>1 DEF OneScheduler, TypeOK
  <2>3. \A j \in Queue!JobIds : ~Live(j)
    BY <2>1 DEF Claims
  <2>4. CASE UNCHANGED jobs
    BY <2>1, <2>2, <2>4 DEF Claims, Live
  <2>5. CASE \E j \in Queue!Oldest(Unused) :
               jobs' = [jobs EXCEPT ![j] = [status |-> "pending", doc |-> Tenant, fresh |-> TRUE]]
    <3>1. PICK j \in Queue!JobIds :
            /\ Holders(j) = {}
            /\ jobs' = [jobs EXCEPT ![j] = [status |-> "pending", doc |-> Tenant, fresh |-> TRUE]]
      BY <2>5 DEF Queue!Oldest, Unused
    <3>2. \A k \in Queue!JobIds \ {j} : jobs'[k] = jobs[k]
      BY <3>1 DEF TypeOK, Queue!JobsTypeOK
    <3>3. \A w \in Workers : job[w] # j
      BY <3>1 DEF Holders
    <3>4. \A w \in Workers : job[w] # NoJob => jobs'[job[w]] = jobs[job[w]]
      BY <3>2, <3>3 DEF TypeOK
    <3>5. \A k \in Queue!JobIds : Live(k)' => k = j
      BY <2>3, <3>2 DEF Live
    <3>6. \A w \in Workers : pc[w] \in Working => job[w] # NoJob
      BY DEF Claims, Working, Rebuilding
    <3> QED BY <2>1, <2>2, <3>4, <3>5, <3>6 DEF Claims
  <2> QED BY <1>3, <2>4, <2>5 DEF InsertJob
<1>4. ASSUME NEW w \in Workers, Fetch(w) PROVE Claims'
  <2>1. PICK j \in Queue!JobIds : Queue!FetchNextJob(j) /\ job' = [job EXCEPT ![w] = j]
    BY <1>4 DEF Fetch
  <2>2. /\ pc[w] = "idle"
        /\ pc' = [pc EXCEPT ![w] = "entities"]
        /\ scheduler' = scheduler
    BY <1>4 DEF Fetch, Goto
  <2>3. /\ jobs[j].status = "pending" /\ jobs'[j].status = "processing" /\ jobs'[j].fresh = TRUE
        /\ \A k \in Queue!JobIds \ {j} : jobs'[k] = jobs[k]
    BY <2>1, FetchRows DEF TypeOK
  <2>4. \A v \in Workers : job[v] # j
    BY <2>1, <2>3 DEF Claims, Queue!JobIds
  <2>5. \A k \in Queue!JobIds : Live(k)' <=> Live(k)
    BY <2>3 DEF Live
  <2>6. \A v \in Workers : job[v] # NoJob => jobs'[job[v]] = jobs[job[v]]
    BY <2>3, <2>4 DEF TypeOK
  <2>7. j # NoJob
    BY <2>1 DEF Queue!JobIds
  <2>8. \A v \in Workers \ {w} : job'[v] = job[v] /\ pc'[v] = pc[v]
    BY <2>1, <2>2 DEF TypeOK
  <2>9. job'[w] = j /\ pc'[w] = "entities"
    BY <2>1, <2>2 DEF TypeOK
  <2>10. \A v \in Workers : pc[v] \in Working => job[v] # NoJob
    BY DEF Claims, Working, Rebuilding
  <2>11. \A v \in Workers : pc'[v] = "idle" <=> job'[v] = NoJob
    BY <2>7, <2>8, <2>9 DEF Claims
  <2>12. \A v \in Workers : pc'[v] \in Working => jobs'[job'[v]].status = "processing"
    BY <2>3, <2>6, <2>8, <2>9, <2>10 DEF Claims
  <2>13. \A v \in Workers : job'[v] # NoJob =>
           /\ jobs'[job'[v]].status \in {"processing", "completed", "failed"}
           /\ jobs'[job'[v]].fresh
    BY <2>3, <2>6, <2>8, <2>9 DEF Claims
  <2>14. \A u, v \in Workers : job'[u] = job'[v] /\ job'[u] # NoJob => u = v
    BY <2>4, <2>8, <2>9 DEF Claims
  <2> QED BY <2>2, <2>5, <2>11, <2>12, <2>13, <2>14 DEF Claims
<1>5. ASSUME NEW w \in Workers, NEW place \in Working \cup {"markFailed"}, pc[w] \in Working,
             Goto(w, place), UNCHANGED <<jobs, job, scheduler>>
      PROVE Claims'
  BY <1>5 DEF Claims, Live, TypeOK, Goto, Working, Rebuilding
<1>6. ASSUME NEW w \in Workers,
             \/ ReadEntities(w) \/ ReadRelations(w) \/ Summarize(w) \/ Delete(w)
             \/ Insert(w) \/ CallFails(w)
      PROVE Claims'
  <2>1. /\ pc[w] \in Working
        /\ \E place \in Working \cup {"markFailed"} : Goto(w, place)
        /\ UNCHANGED <<jobs, job, scheduler>>
    BY <1>6 DEF ReadEntities, ReadRelations, Summarize, Delete, Insert, CallFails, Working, Rebuilding
  <2> QED BY <1>5, <2>1
<1>7. ASSUME NEW w \in Workers, Complete(w) \/ MarkFailed(w) PROVE Claims'
  <2>1. job[w] # NoJob /\ job[w] \in Queue!JobIds
    BY <1>7 DEF Complete, MarkFailed, Claims, TypeOK
  <2>2. /\ \A k \in Queue!JobIds \ {job[w]} : jobs'[k] = jobs[k]
        /\ \/ jobs'[job[w]] = jobs[job[w]]
           \/ jobs'[job[w]].status \in {"completed", "failed"} /\ jobs'[job[w]].fresh = TRUE
    <3>1. \/ UNCHANGED jobs
          \/ Queue!MarkJobFinal(job[w], "completed")
          \/ Queue!MarkJobFinal(job[w], "failed")
      BY <1>7 DEF Complete, MarkFailed
    <3> QED BY <2>1, <3>1, FinalRows DEF TypeOK
  <2>3. /\ \A v \in Workers \ {w} : job'[v] = job[v] /\ pc'[v] = pc[v]
        /\ \/ job'[w] = NoJob /\ pc'[w] = "idle"
           \/ job'[w] = job[w] /\ pc'[w] = "markFailed"
    <3>1. Rest(w) \/ (Goto(w, "markFailed") /\ UNCHANGED job)
      <4>1. CASE Complete(w)
        BY <4>1 DEF Complete
      <4>2. CASE MarkFailed(w)
        BY <4>2 DEF MarkFailed
      <4> QED BY <1>7, <4>1, <4>2
    <3> QED BY <3>1 DEF Rest, Goto, TypeOK
  <2>4. \A v \in Workers \ {w} : job[v] # NoJob => jobs'[job[v]] = jobs[job[v]]
    BY <2>1, <2>2 DEF Claims, TypeOK
  <2>5. \A k \in Queue!JobIds : Live(k)' => Live(k)
    BY <2>2 DEF Live
  <2>6. UNCHANGED scheduler
    BY <1>7 DEF Complete, MarkFailed
  <2>7. \A v \in Workers : pc[v] \in Working => job[v] # NoJob
    BY DEF Claims, Working, Rebuilding
  <2>8. \A v \in Workers : pc'[v] = "idle" <=> job'[v] = NoJob
    BY <2>1, <2>3 DEF Claims
  <2>9. \A v \in Workers : pc'[v] \in Working => jobs'[job'[v]].status = "processing"
    BY <2>3, <2>4, <2>7 DEF Claims, Working, Rebuilding
  <2>10. \A v \in Workers : job'[v] # NoJob =>
           /\ jobs'[job'[v]].status \in {"processing", "completed", "failed"}
           /\ jobs'[job'[v]].fresh
    BY <2>1, <2>2, <2>3, <2>4 DEF Claims
  <2>11. \A u, v \in Workers : job'[u] = job'[v] /\ job'[u] # NoJob => u = v
    BY <2>3 DEF Claims
  <2> QED BY <2>5, <2>6, <2>8, <2>9, <2>10, <2>11 DEF Claims
<1>8. ASSUME UNCHANGED <<pc, job, scheduler>>,
             \A w \in Workers : job[w] # NoJob =>
               /\ jobs'[job[w]].status = jobs[job[w]].status
               /\ jobs'[job[w]].fresh = jobs[job[w]].fresh,
             \A k \in Queue!JobIds : Live(k)' => Live(k)
      PROVE Claims'
  <2>1. \A v \in Workers : pc[v] \in Working => job[v] # NoJob
    BY DEF Claims, Working, Rebuilding
  <2> QED BY <1>8, <2>1 DEF Claims
<1>9. ASSUME NEW w \in Workers, RequeueStale(w) PROVE Claims'
  <2>1. \A j \in Queue!JobIds :
          /\ j \in Queue!StaleJobs => jobs'[j].status = "pending"
          /\ j \notin Queue!StaleJobs => jobs'[j] = jobs[j]
    BY <1>9, RequeuedPending DEF RequeueStale, TypeOK
  <2>2. \A j \in Queue!StaleJobs : jobs[j].status = "processing" /\ ~jobs[j].fresh
    BY DEF Queue!StaleJobs, Queue!WithStatus
  <2>3. \A v \in Workers : job[v] # NoJob => job[v] \notin Queue!StaleJobs
    BY <2>2 DEF Claims
  <2>4. \A k \in Queue!JobIds : Live(k)' => Live(k)
    BY <2>1, <2>2 DEF Live
  <2> QED BY <1>8, <1>9, <2>1, <2>3, <2>4 DEF RequeueStale, workerVars, TypeOK
<1>10. ASSUME NEW w \in Workers, FetchLost(w) PROVE Claims'
  <2>1. PICK j \in Queue!JobIds : Queue!FetchNextJob(j)
    BY <1>10 DEF FetchLost
  <2>2. /\ jobs[j].status = "pending"
        /\ \A k \in Queue!JobIds \ {j} : jobs'[k] = jobs[k]
    BY <2>1, FetchRows DEF TypeOK
  <2>3. \A v \in Workers : job[v] # j
    BY <2>1, <2>2 DEF Claims, Queue!JobIds
  <2>4. \A k \in Queue!JobIds : Live(k)' => Live(k)
    BY <2>2 DEF Live
  <2> QED BY <1>8, <1>10, <2>2, <2>3, <2>4 DEF FetchLost, workerVars, TypeOK
<1>11. ASSUME NEW w \in Workers, Crash(w) PROVE Claims'
  <2>1. /\ \A v \in Workers \ {w} : job'[v] = job[v] /\ pc'[v] = pc[v]
        /\ job'[w] = NoJob /\ pc'[w] = "idle"
        /\ UNCHANGED <<jobs, scheduler>>
    BY <1>11 DEF Crash, Rest, Goto, TypeOK
  <2> QED BY <2>1 DEF Claims, Live, Working, Rebuilding
<1>12. ASSUME NEW j \in Queue!JobIds, Expire(j) PROVE Claims'
  <2>1. /\ jobs'[j].status = jobs[j].status
        /\ \A k \in Queue!JobIds \ {j} : jobs'[k] = jobs[k]
    BY <1>12, StaleRows DEF Expire, TypeOK
  <2>2. \A v \in Workers : job[v] # j
    BY <1>12 DEF Expire, Holders
  <2>3. \A k \in Queue!JobIds : Live(k)' => Live(k)
    BY <2>1 DEF Live
  <2> QED BY <1>8, <1>12, <2>1, <2>2, <2>3 DEF Expire, workerVars, TypeOK
<1> QED BY <1>1, <1>2, <1>3, <1>4, <1>6, <1>7, <1>9, <1>10, <1>11, <1>12
        DEF Next, Step, GraphChanges, Restart, vars, workerVars

-----------------------------------------------------------------------------
(* The rows: what the worker that inserts has inserted, or one rebuild.    *)

LEMMA InitSnapshot == Init => Snapshot
BY DEF Init, Snapshot

LEMMA BatchInLeft ==
    ASSUME NEW w \in Workers, NEW b \in Batches(w)
    PROVE  b \subseteq left[w]
BY DEF Batches

(* A worker that inserts is the only one.                                  *)
LEMMA OnlyInserter ==
    ASSUME TypeOK, Claims, NEW w \in Workers, pc[w] \in Working
    PROVE  \A v \in Workers \ {w} : pc[v] # "insert"
BY Exclusive DEF Working, Rebuilding

LEMMA InsertSnapshot ==
    ASSUME TypeOK, Claims, Snapshot, NEW w \in Workers, Insert(w)
    PROVE  Snapshot'
<1>1. /\ pc[w] = "insert"
      /\ left[w] \subseteq rebuild[w].ids
      /\ stored = Rows(w, rebuild[w].ids \ left[w])
      /\ UNCHANGED rebuild
  BY DEF Insert, Snapshot
<1>2. \A v \in Workers \ {w} : pc[v] # "insert"
  BY <1>1, OnlyInserter DEF Working, Rebuilding
<1>3. PICK b \in Batches(w) :
        IF Conflicts(b)
        THEN /\ Goto(w, "markFailed")
             /\ torn' = TRUE
             /\ UNCHANGED <<left, stored>>
        ELSE /\ stored' = stored \cup Rows(w, b)
             /\ left' = [left EXCEPT ![w] = @ \ b]
             /\ Goto(w, IF b = left[w] THEN "complete" ELSE "insert")
             /\ torn' = (torn /\ b # left[w])
  BY DEF Insert
<1>4. b \subseteq left[w]
  BY BatchInLeft
<1>5. CASE Conflicts(b)
  <2>1. torn' = TRUE /\ UNCHANGED stored /\ pc' = [pc EXCEPT ![w] = "markFailed"]
    BY <1>3, <1>5 DEF Goto
  <2>2. \A v \in Workers : pc'[v] # "insert"
    BY <1>2, <2>1 DEF TypeOK
  <2> QED BY <2>1, <2>2 DEF Snapshot
<1>6. CASE ~Conflicts(b)
  <2>1. /\ stored' = stored \cup Rows(w, b)
        /\ left' = [left EXCEPT ![w] = @ \ b]
        /\ pc' = [pc EXCEPT ![w] = IF b = left[w] THEN "complete" ELSE "insert"]
    BY <1>3, <1>6 DEF Goto
  <2>2. left'[w] = left[w] \ b
    BY <2>1 DEF TypeOK
  <2>3. stored' = Rows(w, rebuild[w].ids \ left'[w])
    BY <1>1, <1>4, <2>1, <2>2 DEF Rows
  <2>5. \A v \in Workers : pc'[v] = "insert" => v = w
    BY <1>2, <2>1 DEF TypeOK
  <2>6. \A x \in stored' : x.of = rebuild[w]
    BY <2>3 DEF Rows
  <2>7. CASE b = left[w]
    <3>1. stored' = Rows(w, rebuild[w].ids)
      BY <2>2, <2>3, <2>7
    <3>2. {row.id : row \in stored'} = rebuild[w].ids
      <4>1. \A row \in stored' : row.id \in rebuild[w].ids
        BY <3>1 DEF Rows
      <4>2. \A c \in rebuild[w].ids : [id |-> c, of |-> rebuild[w]] \in stored'
        BY <3>1 DEF Rows
      <4>3. \A c \in rebuild[w].ids : \E row \in stored' : row.id = c
        BY <4>2
      <4> QED BY <4>1, <4>3
    <3>3. pc'[w] # "insert"
      BY <2>1, <2>7 DEF TypeOK
    <3> QED BY <2>5, <2>6, <3>2, <3>3 DEF Snapshot
  <2>8. CASE b # left[w]
    <3>1. pc'[w] = "insert"
      BY <2>1, <2>8 DEF TypeOK
    <3>2. left'[w] \subseteq rebuild'[w].ids
      BY <1>1, <2>2
    <3>3. Inserting'
      BY <3>1 DEF Inserting
    <3>4. stored' = Rows(w, rebuild[w].ids \ left[w])'
      BY <1>1, <2>3 DEF Rows
    <3> QED BY <2>5, <2>6, <3>2, <3>3, <3>4 DEF Snapshot
  <2> QED BY <2>7, <2>8
<1> QED BY <1>5, <1>6

LEMMA CallFailsSnapshot ==
    ASSUME TypeOK, Claims, Snapshot, NEW w \in Workers, CallFails(w)
    PROVE  Snapshot'
<1>1. /\ pc[w] \in Working
      /\ pc' = [pc EXCEPT ![w] = "markFailed"]
      /\ torn' = (torn \/ pc[w] = "insert")
  BY DEF CallFails, Goto, Working
<1>2. \A v \in Workers : pc'[v] # "insert"
  BY <1>1, OnlyInserter DEF TypeOK
<1>3. CASE pc[w] = "insert"
  <2>1. stored = Rows(w, rebuild[w].ids \ left[w])
    BY <1>3 DEF Snapshot
  <2>2. stored' = stored \/ \E b \in Batches(w) : stored' = stored \cup Rows(w, b)
    BY <1>3 DEF CallFails
  <2>3. \A x \in stored' : x.of = rebuild[w]
    BY <2>1, <2>2 DEF Rows
  <2> QED BY <1>1, <1>2, <1>3, <2>3 DEF Snapshot
<1>4. CASE pc[w] # "insert"
  <2>1. stored' = stored \/ stored' = {}
    BY <1>4 DEF CallFails, DeleteRows
  <2>2. ~Inserting
    BY <1>1, <1>4, OnlyInserter DEF Inserting
  <2>3. torn' = torn
    BY <1>1, <1>4 DEF TypeOK
  <2>4. CASE stored' = stored
    BY <1>2, <2>2, <2>3, <2>4 DEF Snapshot
  <2>5. CASE stored' = {}
    BY <1>2, <2>5 DEF Snapshot
  <2> QED BY <2>1, <2>4, <2>5
<1> QED BY <1>3, <1>4

LEMMA StepSnapshot ==
    ASSUME TypeOK, Claims, Snapshot, [Next]_vars
    PROVE  Snapshot'
<1>1. CASE UNCHANGED <<pc, rebuild, left, stored, torn>>
  BY <1>1 DEF Snapshot, Inserting, Rows
<1>2. ASSUME NEW w \in Workers, pc[w] # "insert", pc'[w] # "insert",
             \A v \in Workers \ {w} :
               pc'[v] = pc[v] /\ rebuild'[v] = rebuild[v] /\ left'[v] = left[v],
             UNCHANGED <<stored, torn>>
      PROVE Snapshot'
  <2>1. Inserting' <=> Inserting
    BY <1>2 DEF Inserting
  <2>2. ASSUME NEW v \in Workers, pc'[v] = "insert"
        PROVE  /\ left'[v] \subseteq rebuild'[v].ids
               /\ stored' = Rows(v, rebuild[v].ids \ left[v])'
    BY <1>2, <2>2 DEF Snapshot, Rows
  <2> QED BY <1>2, <2>1, <2>2 DEF Snapshot
<1>3. ASSUME NEW w \in Workers,
             \/ Fetch(w) \/ ReadEntities(w) \/ ReadRelations(w) \/ Summarize(w)
             \/ Complete(w) \/ MarkFailed(w)
      PROVE Snapshot'
  <2>1. /\ pc[w] # "insert"
        /\ UNCHANGED <<stored, torn>>
    BY <1>3 DEF Fetch, ReadEntities, ReadRelations, Summarize, Complete, MarkFailed
  <2>2. /\ pc'[w] # "insert"
        /\ \A v \in Workers \ {w} : pc'[v] = pc[v]
    BY <1>3 DEF Fetch, ReadEntities, ReadRelations, Summarize, Complete, MarkFailed, Goto, Rest, TypeOK
  <2>3. \A v \in Workers \ {w} : rebuild'[v] = rebuild[v] /\ left'[v] = left[v]
    BY <1>3 DEF Fetch, ReadEntities, ReadRelations, Summarize, Complete, MarkFailed, Goto, Rest, TypeOK
  <2> QED BY <1>2, <2>1, <2>2, <2>3
<1>4. ASSUME NEW w \in Workers, Delete(w) PROVE Snapshot'
  <2>1. /\ pc[w] = "delete" /\ pc' = [pc EXCEPT ![w] = "insert"]
        /\ stored' = {} /\ left' = [left EXCEPT ![w] = rebuild[w].ids]
        /\ UNCHANGED <<rebuild, torn>>
    BY <1>4 DEF Delete, DeleteRows, Goto
  <2>2. \A v \in Workers : pc'[v] = "insert" => v = w
    BY <2>1, OnlyInserter DEF TypeOK, Working, Rebuilding
  <2>3. left'[w] = rebuild'[w].ids
    BY <2>1 DEF TypeOK
  <2>4. Rows(w, rebuild[w].ids \ left[w])' = {}
    BY <2>3 DEF Rows
  <2> QED BY <2>1, <2>2, <2>3, <2>4 DEF Snapshot
<1>5. ASSUME NEW w \in Workers, Crash(w) PROVE Snapshot'
  <2>1. /\ pc'[w] = "idle"
        /\ \A v \in Workers \ {w} :
              pc'[v] = pc[v] /\ rebuild'[v] = rebuild[v] /\ left'[v] = left[v]
        /\ UNCHANGED stored
        /\ torn' = (torn \/ pc[w] = "insert")
    BY <1>5 DEF Crash, Rest, Goto, TypeOK
  <2>2. CASE pc[w] # "insert"
    <3>1. torn' = torn
      BY <2>1, <2>2 DEF TypeOK
    <3> QED BY <1>2, <2>1, <2>2, <3>1
  <2>3. CASE pc[w] = "insert"
    <3>1. \A v \in Workers : pc'[v] # "insert"
      BY <2>1, <2>3, OnlyInserter DEF Working, Rebuilding
    <3> QED BY <2>1, <2>3, <3>1 DEF Snapshot
  <2> QED BY <2>2, <2>3
<1> QED BY <1>1, <1>3, <1>4, <1>5, InsertSnapshot, CallFailsSnapshot
        DEF Next, Step, GraphChanges, Tick, InsertJob, RequeueStale, FetchLost, Restart, Expire,
            vars, workerVars

-----------------------------------------------------------------------------
LEMMA AtMostOne ==
    ASSUME NEW S, \A a, b \in S : a = b
    PROVE  Cardinality(S) <= 1
<1>1. CASE S = {}
  BY <1>1, FS_EmptySet
<1>2. ASSUME NEW a \in S PROVE Cardinality(S) <= 1
  <2>1. S = {a}
    OBVIOUS
  <2> QED BY <2>1, FS_Singleton
<1> QED BY <1>1, <1>2

LEMMA SnapshotImplies == Snapshot => OneSnapshot
<1> SUFFICES ASSUME Snapshot PROVE OneSnapshot
  OBVIOUS
<1> DEFINE of == {row.of : row \in stored}
<1>1. Cardinality(of) <= 1
  <2>1. \A a, b \in of : a = b
    BY DEF Snapshot
  <2> QED BY <2>1, AtMostOne
<1>2. \A r \in of : \/ {row.id : row \in stored} = r.ids
                   \/ torn
                   \/ \E w \in Workers : pc[w] = "insert"
  BY DEF Snapshot, Inserting
<1> QED BY <1>1, <1>2 DEF OneSnapshot

(* When one process schedules, the stored communities of the tenant are    *)
(* those of one rebuild, and all of them unless it is being written or was *)
(* cut short: however many workers poll, whoever dies, whatever call fails *)
(* and however often the graph changes meanwhile.                          *)
THEOREM RebuildsKeepApart ==
    ASSUME OneScheduler
    PROVE  Spec => []OneSnapshot
<1>1. Init => IInv /\ Held
  BY InitTyped, InitClaims, InitSnapshot DEF IInv, Init, Held
<1>2. IInv /\ Held /\ [Next]_vars => (IInv /\ Held)'
  BY OneScheduler, StepTyped, StepHeld, StepClaims, StepSnapshot DEF IInv
<1>3. IInv => OneSnapshot
  BY SnapshotImplies DEF IInv
<1> QED BY <1>1, <1>2, <1>3, PTL DEF Spec

=============================================================================
