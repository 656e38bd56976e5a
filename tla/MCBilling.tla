----------------------------- MODULE MCBilling -----------------------------
(* Instances of Billing for TLC. *)
EXTENDS Billing, TLC

\* The form sends all its fields, the status as it was when it was opened.
FormEdits == {[status |-> "SENT", total |-> 2, late |-> FALSE]}

Interchangeable == Permutations(Payments) \cup Permutations(Lines)
                   \cup Permutations(Requests)
=============================================================================
