-------------------------- MODULE MCTenantBilling --------------------------
(* The instance of TenantBilling that TLC checks.                           *)
EXTENDS TenantBilling

CONSTANTS t1, t2

FirstHasHosts == [h \in Hosts |-> t1]
LiveAndDraft == [t \in Tenants |-> IF t = t1 THEN "live" ELSE "draft"]
TwoLive == [t \in Tenants |-> "live"]
=============================================================================
