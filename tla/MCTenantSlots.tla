----------------------------- MODULE MCTenantSlots -----------------------------
(* Four pollers share three global permits and one permit per tenant; two  *)
(* tenants, one of them with three documents, so that pollers queue on both  *)
(* semaphores, are refused, and are woken across tenants.                  *)
EXTENDS TenantSlots, TLC

CONSTANTS d1, d2, d3, d4, ta, tb

MCTenantOf == (d1 :> ta) @@ (d2 :> ta) @@ (d3 :> ta) @@ (d4 :> tb)
=============================================================================
