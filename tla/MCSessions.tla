----------------------------- MODULE MCSessions -----------------------------
(* Instances of Sessions for TLC. *)
EXTENDS Sessions, TLC

Interchangeable == Permutations(Calls) \cup Permutations(Exchanges) \cup Permutations(Sessions)
=============================================================================
