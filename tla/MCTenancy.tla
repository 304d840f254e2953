------------------------------ MODULE MCTenancy ------------------------------
(* Two tenants that use one name; one thread of each kind.                  *)
EXTENDS Tenancy
==============================================================================
