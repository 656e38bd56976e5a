------------------------ MODULE MCTenantApplications ------------------------
(* Instances of TenantApplications for TLC: two forms answer one inquiry and *)
(* a third another, all with one address.                                   *)
EXTENDS TenantApplications, TLC

CONSTANTS a1, a2, p1, p2, p3, e1

Inquiry(p) == IF p = p3 THEN a2 ELSE a1
Email(p) == e1
Symmetric == Permutations(Calls) \cup Permutations({p1, p2})
=============================================================================
