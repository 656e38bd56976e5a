-------------------------- MODULE MCLeaseContracts --------------------------
(* Instances of LeaseContracts for TLC. *)
EXTENDS LeaseContracts, TLC
=============================================================================
