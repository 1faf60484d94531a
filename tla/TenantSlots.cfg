SPECIFICATION SlotsFairSpec
CONSTANTS
    Pollers = {p1, p2, p3, p4}
    d1 = d1
    d2 = d2
    d3 = d3
    d4 = d4
    ta = ta
    tb = tb
    Docs = {d1, d2, d3, d4}
    Tenants = {ta, tb}
    TenantOf <- MCTenantOf
    GlobalPermits = 3
    TenantPermits = 1
    NoDoc = NoDoc
INVARIANTS
    DocExclusive
    PermitsConserved
PROPERTIES
    EveryRequestServed
CHECK_DEADLOCK FALSE
