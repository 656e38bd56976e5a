--------------------------- MODULE MCPromotionCode ---------------------------
(* Instances of PromotionCode for TLC. *)
EXTENDS PromotionCode, TLC

Changes(f) == [[type |-> Same, discount |-> Same, max_uses |-> Same,
                is_active |-> Same, window |-> Same] EXCEPT ![f[1]] = f[2]]

\* Whole bodies, and bodies of one field.
Campaigns == [type : {"PERCENTAGE"}, discount : {20}, max_uses : {1, 2},
              is_active : {TRUE}, window : {"early"}]
Edits == {Changes(f) : f \in {<<"type", "FIXED_AMOUNT">>, <<"type", "PERCENTAGE">>,
  <<"discount", 500>>, <<"max_uses", 1>>, <<"max_uses", Unlimited>>,
  <<"is_active", FALSE>>, <<"is_active", TRUE>>}}

CampaignsAndEdits == Campaigns \cup Edits

Interchangeable == Permutations(Promos) \cup Permutations(Requests \ Patchers)
=============================================================================
