--------------------------- MODULE PromotionCode ---------------------------
(***************************************************************************)
(* Promotion codes of one organisation:                                    *)
(* backend/src/promotion-code/promotion-code.service.ts.                   *)
(*                                                                         *)
(* PATCH and POST apply/:code read the row first and write it in a later   *)
(* await; what they remember in between is their record in `request`.  The *)
(* name of a code, unique by a database constraint, is its identifier.     *)
(***************************************************************************)
EXTENDS Integers, FiniteSets

CONSTANTS
  Promos,       \* identifiers of rows, each used once
  Requests,     \* how many PATCH and apply requests are in flight at once
  Patchers,     \* those of them that PATCH
  Bodies,       \* the bodies POST and PATCH carry
  UseBound,     \* bound: no redemption begins on a code used that often
  Same,         \* a field the body leaves out
  Unlimited     \* max_uses null

Types == {"PERCENTAGE", "FIXED_AMOUNT"}

\* Where now is: before valid_from, between, after valid_until.
Windows == {"early", "open", "over"}

Limits == (Nat \ {0}) \cup {Unlimited}

Body == [type : Types \cup {Same}, discount : Nat \cup {Same},
         max_uses : Limits \cup {Same}, is_active : BOOLEAN \cup {Same},
         window : Windows \cup {Same}]

ASSUME BodiesValidated == Bodies \subseteq Body
ASSUME MarkersDiffer ==
  /\ Unlimited \notin Nat /\ Same # Unlimited
  /\ Same \notin Types \cup Nat \cup BOOLEAN \cup Windows
ASSUME BoundIsNatural == UseBound \in Nat

VARIABLES
  promo,        \* the promotion_codes table
  request,      \* the requests in flight
  limits,       \* history: every max_uses a code has had
  redeemed      \* history: redemptions granted on each code

promoVars == <<promo, request, limits, redeemed>>

-----------------------------------------------------------------------------
Row == [status : {"unborn", "live", "deleted"}, type : Types, discount : Nat,
        max_uses : Limits, used_count : Nat, is_active : BOOLEAN,
        window : Windows]

NoRow == [status |-> "unborn", type |-> "PERCENTAGE", discount |-> 0,
          max_uses |-> Unlimited, used_count |-> 0, is_active |-> FALSE,
          window |-> "open"]

NoRequest == [op |-> "idle"]

PromoTypeOK ==
  /\ promo \in [Promos -> Row]
  /\ \A r \in Requests :
       \/ request[r] = NoRequest
       \/ /\ r \in Patchers
          /\ request[r] \in [op : {"update"}, promo : Promos, body : Bodies]
       \/ request[r] \in [op : {"apply"}, promo : Promos, max_uses : Limits]
  /\ limits \in [Promos -> SUBSET Limits]
  /\ redeemed \in [Promos -> Nat]

PromoInit ==
  /\ promo = [p \in Promos |-> NoRow]
  /\ request = [r \in Requests |-> NoRequest]
  /\ limits = [p \in Promos |-> {}]
  /\ redeemed = [p \in Promos |-> 0]

Live(p) == promo[p].status = "live"

Finish(r) == request' = [request EXCEPT ![r] = NoRequest]

\* dto.field ?? current.field
Given(new, old) == IF new = Same THEN old ELSE new

assertDiscountIsSane(type, discount) == type = "PERCENTAGE" => discount <= 100

-----------------------------------------------------------------------------
\* The defaults of a body, unlimited and active, are among the values.
CreatePromo(p, body) ==
  /\ promo[p] = NoRow
  /\ Same \notin {body.type, body.discount, body.max_uses, body.is_active,
                  body.window}
  /\ assertDiscountIsSane(body.type, body.discount)
  /\ promo' = [promo EXCEPT ![p] =
       [status |-> "live", type |-> body.type, discount |-> body.discount,
        max_uses |-> body.max_uses, used_count |-> 0,
        is_active |-> body.is_active, window |-> body.window]]
  /\ limits' = [limits EXCEPT ![p] = {body.max_uses}]
  /\ UNCHANGED <<request, redeemed>>

\* Mutant: the body alone is looked at, not what it leaves as it was.
UpdateBodyOnly(r, p, body) ==
  /\ request[r] = NoRequest /\ r \in Patchers
  /\ Live(p)
  /\ assertDiscountIsSane(body.type, Given(body.discount, 0))
  /\ request' = [request EXCEPT ![r] = [op |-> "update", promo |-> p, body |-> body]]
  /\ UNCHANGED <<promo, limits, redeemed>>

Update(r, p, body) ==
  /\ request[r] = NoRequest /\ r \in Patchers
  /\ Live(p)
  /\ assertDiscountIsSane(Given(body.type, promo[p].type),
                          Given(body.discount, promo[p].discount))
  /\ request' = [request EXCEPT ![r] = [op |-> "update", promo |-> p, body |-> body]]
  /\ UNCHANGED <<promo, limits, redeemed>>

\* Only the fields of the body are written.
UpdateWrite(r) ==
  /\ request[r].op = "update"
  /\ LET p == request[r].promo  body == request[r].body IN
       /\ Live(p)
       /\ promo' = [promo EXCEPT
            ![p].type = Given(body.type, @),
            ![p].discount = Given(body.discount, @),
            ![p].max_uses = Given(body.max_uses, @),
            ![p].is_active = Given(body.is_active, @),
            ![p].window = Given(body.window, @)]
       /\ limits' = [limits EXCEPT
            ![p] = @ \cup {Given(body.max_uses, promo[p].max_uses)}]
  /\ Finish(r)
  /\ UNCHANGED redeemed

Remove(p) ==
  /\ Live(p)
  /\ promo' = [promo EXCEPT ![p].status = "deleted"]
  /\ UNCHANGED <<request, limits, redeemed>>

Left(used, max) == max # Unlimited => used < max

validate(p) ==
  /\ Live(p)
  /\ promo[p].is_active
  /\ promo[p].window = "open"
  /\ Left(promo[p].used_count, promo[p].max_uses)

Apply(r, p) ==
  /\ request[r] = NoRequest
  /\ validate(p)
  /\ promo[p].used_count < UseBound
  /\ request' = [request EXCEPT
       ![r] = [op |-> "apply", promo |-> p, max_uses |-> promo[p].max_uses]]
  /\ UNCHANGED <<promo, limits, redeemed>>

\* The updateMany matches: the row still there and active, and fewer uses than
\* the limit validate read.
Consumable(q) ==
  /\ Live(q.promo)
  /\ promo[q.promo].is_active
  /\ Left(promo[q.promo].used_count, q.max_uses)

\* Mutant: the update has no condition on the uses.
ApplyConsumeAlways(r) ==
  /\ request[r].op = "apply"
  /\ Live(request[r].promo)
  /\ promo' = [promo EXCEPT ![request[r].promo].used_count = @ + 1]
  /\ redeemed' = [redeemed EXCEPT ![request[r].promo] = @ + 1]
  /\ Finish(r)
  /\ UNCHANGED limits

ApplyConsume(r) ==
  /\ request[r].op = "apply"
  /\ Consumable(request[r])
  /\ promo' = [promo EXCEPT ![request[r].promo].used_count = @ + 1]
  /\ redeemed' = [redeemed EXCEPT ![request[r].promo] = @ + 1]
  /\ Finish(r)
  /\ UNCHANGED limits

\* Mutant: the code does not look at consumed.count.
RefusedGranted(r) ==
  /\ \/ /\ request[r].op = "apply" /\ ~Consumable(request[r])
        /\ redeemed' = [redeemed EXCEPT ![request[r].promo] = @ + 1]
     \/ /\ request[r].op = "update" /\ ~Live(request[r].promo)
        /\ UNCHANGED redeemed
  /\ Finish(r)
  /\ UNCHANGED <<promo, limits>>

\* consumed.count is 0, or the row of a PATCH is gone: the request fails.
Refused(r) ==
  /\ \/ request[r].op = "apply" /\ ~Consumable(request[r])
     \/ request[r].op = "update" /\ ~Live(request[r].promo)
  /\ Finish(r)
  /\ UNCHANGED <<promo, limits, redeemed>>

\* An await rejects or the process stops.
Fail(r) ==
  /\ request[r] # NoRequest
  /\ Finish(r)
  /\ UNCHANGED <<promo, limits, redeemed>>

\* The clock passes valid_from or valid_until.
Pass(p) ==
  /\ Live(p)
  /\ \/ promo[p].window = "early" /\ promo' = [promo EXCEPT ![p].window = "open"]
     \/ promo[p].window = "open" /\ promo' = [promo EXCEPT ![p].window = "over"]
  /\ UNCHANGED <<request, limits, redeemed>>

PromoNext ==
  \/ \E p \in Promos :
       \/ Remove(p) \/ Pass(p)
       \/ \E body \in Bodies : CreatePromo(p, body)
       \/ \E r \in Requests :
            Apply(r, p) \/ \E body \in Bodies : Update(r, p, body)
  \/ \E r \in Requests :
       UpdateWrite(r) \/ ApplyConsume(r) \/ Refused(r) \/ Fail(r)

PromoSpec == PromoInit /\ [][PromoNext]_promoVars

-----------------------------------------------------------------------------
\* Concurrent redemptions do not exceed the uses: a code is used at most as
\* often as some limit it has had, although apply consumes against the limit
\* that validate read, which a PATCH may have lowered since.
UsesWithinLimits ==
  \A p \in Promos : promo[p].used_count = 0 \/
    \E m \in limits[p] : m = Unlimited \/ promo[p].used_count <= m

\* No redemption is lost from the count, nor counted twice: neither another
\* redemption nor a PATCH writes over it.
EveryUseCounted == \A p \in Promos : promo[p].used_count = redeemed[p]

\* update validates the discount against the row it read; as long as PATCH
\* requests do not overlap, no percentage exceeds 100.
DiscountSane ==
  \A p \in Promos : Live(p) => assertDiscountIsSane(promo[p].type, promo[p].discount)
=============================================================================
