--------------------------- MODULE MCMaintenance ---------------------------
(* Instances of Maintenance for TLC. *)
EXTENDS Maintenance, TLC

\* A PATCH that takes the ticket away, hands it over, reopens or ends it.
Corrections ==
  {[status |-> Same, assigned_to |-> None]}
  \cup [status : {"OPEN", "RESOLVED", "CLOSED"}, assigned_to : {Same}]
  \cup [status : {Same}, assigned_to : Technicians]

Interchangeable == Permutations(Requests) \cup Permutations(Technicians)
=============================================================================
