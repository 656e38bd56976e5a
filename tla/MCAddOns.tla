------------------------------ MODULE MCAddOns ------------------------------
(* Instances of AddOns for TLC. *)
EXTENDS AddOns, TLC

\* A draft is published; a service is given to a landlord.
PublishOrGive ==
  {[tenant |-> Same, active |-> TRUE]}
  \cup {[tenant |-> l, active |-> Same] : l \in Landlords}
\* None, or one.
AtMostOne == {c \in SUBSET Services : Cardinality(c) <= 1}
All == {Services}

Interchangeable ==
  Permutations(Calls) \cup Permutations(Services) \cup Permutations(Landlords)
=============================================================================
