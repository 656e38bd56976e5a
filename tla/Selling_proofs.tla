--------------------------- MODULE Selling_proofs ---------------------------
(***************************************************************************)
(* Theorems about what brings customers in: PromotionCode, for any number  *)
(* of codes, requests, bodies and redemptions, and Marketplace, for any    *)
(* number of spaces, bookings, listings, inquiries, deliveries and faults. *)
(* The two share no variable and no name.                                  *)
(***************************************************************************)
EXTENDS PromotionCode, Marketplace, TLAPS, FiniteSetTheorems

-----------------------------------------------------------------------------
(***************************************************************************)
(* Promotion codes: types.                                                 *)
(***************************************************************************)

UpdateRequest == [op : {"update"}, promo : Promos, body : Bodies]
ApplyRequest == [op : {"apply"}, promo : Promos, max_uses : Limits]

\* PromoTypeOK with `request` as a function.
TInv ==
  /\ promo \in [Promos -> Row]
  /\ request \in [Requests -> {NoRequest} \cup UpdateRequest \cup ApplyRequest]
  /\ \A r \in Requests : request[r] \in UpdateRequest => r \in Patchers
  /\ limits \in [Promos -> SUBSET Limits]
  /\ redeemed \in [Promos -> Nat]

\* A record with the operation of a request is such a request.
LEMMA Operations ==
  ASSUME TInv, NEW r \in Requests
  PROVE  /\ request[r].op = "update" => request[r] \in UpdateRequest
         /\ request[r].op = "apply" => request[r] \in ApplyRequest
         /\ request[r] # NoRequest => request[r] \in UpdateRequest \cup ApplyRequest
  BY DEF TInv, NoRequest, UpdateRequest, ApplyRequest

\* A field a body gives has the type of the field, and so has one it leaves.
LEMMA GivenTypes ==
  ASSUME NEW body \in Bodies, NEW row \in Row
  PROVE  /\ Given(body.type, row.type) \in Types
         /\ Given(body.discount, row.discount) \in Nat
         /\ Given(body.max_uses, row.max_uses) \in Limits
         /\ Given(body.is_active, row.is_active) \in BOOLEAN
         /\ Given(body.window, row.window) \in Windows
  <1>1. body \in Body
    BY BodiesValidated
  <1>2. /\ body.type \in Types \cup {Same}
        /\ body.discount \in Nat \cup {Same}
        /\ body.max_uses \in Limits \cup {Same}
        /\ body.is_active \in BOOLEAN \cup {Same}
        /\ body.window \in Windows \cup {Same}
    BY <1>1 DEF Body
  <1>3. /\ row.type \in Types /\ row.discount \in Nat
        /\ row.max_uses \in Limits /\ row.is_active \in BOOLEAN
        /\ row.window \in Windows
    BY DEF Row
  <1> QED
    BY <1>2, <1>3 DEF Given

-----------------------------------------------------------------------------
LEMMA TInit == PromoInit => TInv
  BY DEF PromoInit, TInv, NoRow, Row, Types, Limits, Windows, NoRequest, UpdateRequest

LEMMA TCreate ==
  ASSUME TInv, NEW p \in Promos, NEW body \in Bodies, CreatePromo(p, body)
  PROVE  TInv'
  <1> USE DEF TInv
  <1>1. body \in Body
    BY BodiesValidated
  <1>2. /\ body.type \in Types /\ body.discount \in Nat
        /\ body.max_uses \in Limits /\ body.is_active \in BOOLEAN
        /\ body.window \in Windows
    BY <1>1 DEF Body, CreatePromo
  <1>3. promo' \in [Promos -> Row]
    BY <1>2 DEF CreatePromo, Row
  <1>4. limits' \in [Promos -> SUBSET Limits]
    BY <1>2 DEF CreatePromo
  <1> QED
    BY <1>3, <1>4 DEF CreatePromo

LEMMA TUpdate ==
  ASSUME TInv, NEW r \in Requests, NEW p \in Promos, NEW body \in Bodies,
         Update(r, p, body)
  PROVE  TInv'
  BY DEF TInv, Update, UpdateRequest

LEMMA TApply ==
  ASSUME TInv, NEW r \in Requests, NEW p \in Promos, Apply(r, p)
  PROVE  TInv'
  <1>1. promo[p].max_uses \in Limits
    BY DEF TInv, Row
  <1>2. [op |-> "apply", promo |-> p, max_uses |-> promo[p].max_uses] \in ApplyRequest
    BY <1>1 DEF ApplyRequest
  <1>3. [op |-> "apply", promo |-> p, max_uses |-> promo[p].max_uses] \notin UpdateRequest
    BY DEF UpdateRequest
  <1> QED
    BY <1>2, <1>3 DEF TInv, Apply

LEMMA NoRequestIsNoUpdate == NoRequest \notin UpdateRequest
  BY DEF NoRequest, UpdateRequest

\* What a PATCH does to the row: the fields of the body that are given, and
\* nothing else, of the one code the request names.
LEMMA Patched ==
  ASSUME TInv, NEW r \in Requests, UpdateWrite(r)
  PROVE  /\ request[r].promo \in Promos /\ request[r].body \in Bodies
         /\ promo[request[r].promo] \in Row
         /\ promo'[request[r].promo] =
              [promo[request[r].promo] EXCEPT
                 !.type = Given(request[r].body.type, @),
                 !.discount = Given(request[r].body.discount, @),
                 !.max_uses = Given(request[r].body.max_uses, @),
                 !.is_active = Given(request[r].body.is_active, @),
                 !.window = Given(request[r].body.window, @)]
         /\ promo'[request[r].promo] \in Row
         /\ promo' = [promo EXCEPT ![request[r].promo] = promo'[request[r].promo]]
  <1> DEFINE p == request[r].promo
             body == request[r].body
             row == [promo[p] EXCEPT
                       !.type = Given(body.type, @),
                       !.discount = Given(body.discount, @),
                       !.max_uses = Given(body.max_uses, @),
                       !.is_active = Given(body.is_active, @),
                       !.window = Given(body.window, @)]
  <1>1. request[r] \in UpdateRequest
    BY Operations DEF UpdateWrite
  <1>2. p \in Promos /\ body \in Bodies
    BY <1>1 DEF UpdateRequest
  <1>3. promo \in [Promos -> Row] /\ promo[p] \in Row
    BY <1>2 DEF TInv
  <1>4. promo' = [promo EXCEPT
          ![p].type = Given(body.type, @),
          ![p].discount = Given(body.discount, @),
          ![p].max_uses = Given(body.max_uses, @),
          ![p].is_active = Given(body.is_active, @),
          ![p].window = Given(body.window, @)]
    BY DEF UpdateWrite
  <1> HIDE DEF p, body
  <1>5. promo' = [promo EXCEPT ![p] = row]
    BY <1>2, <1>3, <1>4
  <1>6. row \in Row
    <2>1. /\ Given(body.type, promo[p].type) \in Types
          /\ Given(body.discount, promo[p].discount) \in Nat
          /\ Given(body.max_uses, promo[p].max_uses) \in Limits
          /\ Given(body.is_active, promo[p].is_active) \in BOOLEAN
          /\ Given(body.window, promo[p].window) \in Windows
      BY <1>2, <1>3, GivenTypes
    <2> QED
      BY <1>3, <2>1 DEF Row
  <1> HIDE DEF row
  <1>7. promo'[p] = row
    BY <1>2, <1>3, <1>5
  <1> QED
    BY <1>2, <1>3, <1>5, <1>6, <1>7 DEF p, body, row

\* Field by field.
LEMMA PatchedFields ==
  ASSUME TInv, NEW r \in Requests, UpdateWrite(r)
  PROVE  /\ promo'[request[r].promo].used_count = promo[request[r].promo].used_count
         /\ promo'[request[r].promo].status = promo[request[r].promo].status
         /\ promo'[request[r].promo].type =
              Given(request[r].body.type, promo[request[r].promo].type)
         /\ promo'[request[r].promo].discount =
              Given(request[r].body.discount, promo[request[r].promo].discount)
         /\ promo'[request[r].promo].max_uses =
              Given(request[r].body.max_uses, promo[request[r].promo].max_uses)
         /\ \A q \in Promos \ {request[r].promo} : promo'[q] = promo[q]
  <1> DEFINE p == request[r].promo
             body == request[r].body
  <1>1. /\ p \in Promos
        /\ promo[p] \in Row
        /\ promo'[p] = [promo[p] EXCEPT
             !.type = Given(body.type, @),
             !.discount = Given(body.discount, @),
             !.max_uses = Given(body.max_uses, @),
             !.is_active = Given(body.is_active, @),
             !.window = Given(body.window, @)]
        /\ promo' = [promo EXCEPT ![p] = promo'[p]]
    BY Patched
  <1> HIDE DEF p, body
  <1>2. /\ promo'[p].used_count = promo[p].used_count
        /\ promo'[p].status = promo[p].status
        /\ promo'[p].type = Given(body.type, promo[p].type)
        /\ promo'[p].discount = Given(body.discount, promo[p].discount)
        /\ promo'[p].max_uses = Given(body.max_uses, promo[p].max_uses)
    BY <1>1 DEF Row
  <1>3. \A q \in Promos \ {p} : promo'[q] = promo[q]
    BY <1>1 DEF TInv
  <1> QED
    BY <1>2, <1>3 DEF p, body

LEMMA TUpdateWrite ==
  ASSUME TInv, NEW r \in Requests, UpdateWrite(r)
  PROVE  TInv'
  <1> DEFINE p == request[r].promo
  <1> DEFINE body == request[r].body
  <1>1. p \in Promos /\ body \in Bodies
    BY Patched
  <1>2. promo[p] \in Row
    BY Patched
  <1>3. promo' \in [Promos -> Row]
    BY <1>1, Patched DEF TInv
  <1>4. limits' \in [Promos -> SUBSET Limits]
    <2>1. Given(body.max_uses, promo[p].max_uses) \in Limits
      BY <1>1, <1>2, GivenTypes
    <2> QED
      BY <1>1, <2>1 DEF UpdateWrite, TInv
  <1>5. request' = [request EXCEPT ![r] = NoRequest] /\ redeemed' = redeemed
    BY DEF UpdateWrite, Finish
  <1> QED
    BY <1>3, <1>4, <1>5, NoRequestIsNoUpdate DEF TInv

LEMMA TRemove ==
  ASSUME TInv, NEW p \in Promos, Remove(p)
  PROVE  TInv'
  BY DEF TInv, Remove, Row

LEMMA TApplyConsume ==
  ASSUME TInv, NEW r \in Requests, ApplyConsume(r)
  PROVE  TInv'
  <1>1. request[r].promo \in Promos
    BY Operations DEF ApplyConsume, ApplyRequest
  <1>2. promo' \in [Promos -> Row]
    BY <1>1 DEF ApplyConsume, TInv, Row
  <1>3. redeemed' \in [Promos -> Nat]
    BY <1>1 DEF ApplyConsume, TInv
  <1> QED
    BY <1>2, <1>3, NoRequestIsNoUpdate DEF ApplyConsume, TInv, Finish

LEMMA TFinish ==
  ASSUME TInv, NEW r \in Requests, Refused(r) \/ Fail(r)
  PROVE  TInv'
  BY NoRequestIsNoUpdate DEF TInv, Refused, Fail, Finish

LEMMA TPass ==
  ASSUME TInv, NEW p \in Promos, Pass(p)
  PROVE  TInv'
  BY DEF TInv, Pass, Row, Windows

LEMMA TStep == TInv /\ [PromoNext]_promoVars => TInv'
  <1> SUFFICES ASSUME TInv, [PromoNext]_promoVars PROVE TInv'
    OBVIOUS
  <1>1. CASE \E p \in Promos, body \in Bodies : CreatePromo(p, body)
    BY <1>1, TCreate
  <1>2. CASE \E r \in Requests, p \in Promos, body \in Bodies : Update(r, p, body)
    BY <1>2, TUpdate
  <1>3. CASE \E r \in Requests, p \in Promos : Apply(r, p)
    BY <1>3, TApply
  <1>4. CASE \E r \in Requests : UpdateWrite(r)
    BY <1>4, TUpdateWrite
  <1>5. CASE \E p \in Promos : Remove(p)
    BY <1>5, TRemove
  <1>6. CASE \E r \in Requests : ApplyConsume(r)
    BY <1>6, TApplyConsume
  <1>7. CASE \E r \in Requests : Refused(r) \/ Fail(r)
    BY <1>7, TFinish
  <1>8. CASE \E p \in Promos : Pass(p)
    BY <1>8, TPass
  <1>9. CASE UNCHANGED promoVars
    BY <1>9 DEF TInv, promoVars
  <1> QED
    BY <1>1, <1>2, <1>3, <1>4, <1>5, <1>6, <1>7, <1>8, <1>9 DEF PromoNext

LEMMA TAlways == PromoSpec => []TInv
  BY TInit, TStep, PTL DEF PromoSpec

\* Every row and every request in flight always has its type.
THEOREM PromoTypeCorrect == PromoSpec => []PromoTypeOK
  <1>1. TInv => PromoTypeOK
    BY DEF TInv, PromoTypeOK, UpdateRequest, ApplyRequest
  <1> QED
    BY <1>1, TAlways, PTL

-----------------------------------------------------------------------------
(***************************************************************************)
(* Redemptions.                                                            *)
(***************************************************************************)

\* A redemption in flight consumes against a limit its code has had.
SeenLimits ==
  \A r \in Requests : request[r] \in ApplyRequest =>
    /\ promo[request[r].promo].status # "unborn"
    /\ request[r].max_uses \in limits[request[r].promo]

\* The limit of a code is one that it has had.
OwnLimits ==
  \A p \in Promos : promo[p].status # "unborn" => promo[p].max_uses \in limits[p]

UInv == SeenLimits /\ OwnLimits /\ UsesWithinLimits

\* What a step may do to a code without endangering UInv.
Grows(p) ==
  /\ limits[p] \subseteq limits'[p]
  /\ promo'[p].used_count = promo[p].used_count
  /\ promo[p].status # "unborn" => promo'[p].status # "unborn"
  /\ promo'[p].status # "unborn" => promo'[p].max_uses \in limits'[p]

LEMMA UGrows ==
  ASSUME TInv, UInv, \A p \in Promos : Grows(p),
         \A r \in Requests : request'[r] = request[r] \/ request'[r] \notin ApplyRequest
  PROVE  UInv'
  <1>1. SeenLimits'
    <2> SUFFICES ASSUME NEW r \in Requests, request'[r] \in ApplyRequest
                 PROVE  /\ promo'[request'[r].promo].status # "unborn"
                        /\ request'[r].max_uses \in limits'[request'[r].promo]
      BY DEF SeenLimits, ApplyRequest
    <2>1. request'[r] = request[r] /\ request[r] \in ApplyRequest
      OBVIOUS
    <2>2. request[r].promo \in Promos
      BY <2>1 DEF ApplyRequest
    <2> QED
      BY <2>1, <2>2 DEF Grows, UInv, SeenLimits
  <1>2. OwnLimits'
    BY DEF OwnLimits, Grows
  <1>3. UsesWithinLimits'
    BY DEF UInv, UsesWithinLimits, Grows
  <1> QED
    BY <1>1, <1>2, <1>3 DEF UInv

LEMMA NoRequestIsNoApply == NoRequest \notin ApplyRequest
  BY DEF NoRequest, ApplyRequest

LEMMA UInit == PromoInit => UInv
  BY NoRequestIsNoApply DEF PromoInit, UInv, SeenLimits, OwnLimits, UsesWithinLimits, NoRow

LEMMA UCreate ==
  ASSUME TInv, UInv, NEW p \in Promos, NEW body \in Bodies, CreatePromo(p, body)
  PROVE  UInv'
  <1>1. promo'[p].used_count = 0 /\ promo'[p].max_uses \in limits'[p]
    BY DEF CreatePromo, TInv
  <1>2. promo[p].status = "unborn"
    BY DEF CreatePromo, NoRow
  <1>3. \A q \in Promos \ {p} : promo'[q] = promo[q] /\ limits'[q] = limits[q]
    BY DEF CreatePromo, TInv
  <1>4. SeenLimits'
    <2> SUFFICES ASSUME NEW r \in Requests, request'[r] \in ApplyRequest
                 PROVE  /\ promo'[request'[r].promo].status # "unborn"
                        /\ request'[r].max_uses \in limits'[request'[r].promo]
      BY DEF SeenLimits, ApplyRequest
    <2>1. request'[r] = request[r]
      BY DEF CreatePromo
    <2>2. request[r].promo \in Promos /\ promo[request[r].promo].status # "unborn"
      BY <2>1 DEF UInv, SeenLimits, ApplyRequest
    <2> QED
      BY <1>2, <1>3, <2>1, <2>2 DEF UInv, SeenLimits
  <1>5. OwnLimits'
    BY <1>1, <1>3 DEF UInv, OwnLimits
  <1>6. UsesWithinLimits'
    BY <1>1, <1>3 DEF UInv, UsesWithinLimits
  <1> QED
    BY <1>4, <1>5, <1>6 DEF UInv

LEMMA UApply ==
  ASSUME TInv, UInv, NEW r \in Requests, NEW p \in Promos, Apply(r, p)
  PROVE  UInv'
  <1>1. promo' = promo /\ limits' = limits
    BY DEF Apply
  <1>2. request' = [request EXCEPT
          ![r] = [op |-> "apply", promo |-> p, max_uses |-> promo[p].max_uses]]
    BY DEF Apply
  <1>3. promo[p].status # "unborn" /\ promo[p].max_uses \in limits[p]
    BY DEF Apply, validate, Live, UInv, OwnLimits
  <1>4. SeenLimits'
    BY <1>1, <1>2, <1>3 DEF TInv, UInv, SeenLimits, ApplyRequest
  <1> QED
    BY <1>1, <1>4 DEF UInv, OwnLimits, UsesWithinLimits

LEMMA UUpdateWrite ==
  ASSUME TInv, UInv, NEW r \in Requests, UpdateWrite(r)
  PROVE  UInv'
  <1> DEFINE p == request[r].promo
  <1>1. p \in Promos
    BY Operations DEF UpdateWrite, UpdateRequest
  <1>2. limits' = [limits EXCEPT
          ![p] = @ \cup {Given(request[r].body.max_uses, promo[p].max_uses)}]
    BY DEF UpdateWrite
  <1>3. /\ promo'[p].used_count = promo[p].used_count
        /\ promo'[p].status = promo[p].status
        /\ promo'[p].max_uses = Given(request[r].body.max_uses, promo[p].max_uses)
    BY PatchedFields
  <1>4. limits'[p] = limits[p] \cup {Given(request[r].body.max_uses, promo[p].max_uses)}
    BY <1>1, <1>2 DEF TInv
  <1>5. \A q \in Promos \ {p} : promo'[q] = promo[q] /\ limits'[q] = limits[q]
    BY <1>1, <1>2, PatchedFields DEF TInv
  <1>6. Grows(p)
    BY <1>3, <1>4 DEF Grows
  <1> HIDE DEF p
  <1>7. \A q \in Promos \ {p} : Grows(q)
    BY <1>5 DEF Grows, UInv, OwnLimits
  <1>8. request' = [request EXCEPT ![r] = NoRequest]
    BY DEF UpdateWrite, Finish
  <1> QED
    BY <1>6, <1>7, <1>8, UGrows, NoRequestIsNoApply DEF TInv

LEMMA UApplyConsume ==
  ASSUME TInv, UInv, NEW r \in Requests, ApplyConsume(r)
  PROVE  UInv'
  <1> DEFINE p == request[r].promo
  <1> DEFINE m == request[r].max_uses
  <1>1. request[r] \in ApplyRequest
    BY Operations DEF ApplyConsume
  <1>2. p \in Promos /\ m \in Limits /\ m \in limits[p]
    BY <1>1 DEF ApplyRequest, UInv, SeenLimits
  <1>3. promo[p] \in Row /\ promo[p].used_count \in Nat
    BY <1>2 DEF TInv, Row
  <1>4. /\ promo'[p].used_count = promo[p].used_count + 1
        /\ promo'[p].status = promo[p].status
        /\ promo'[p].max_uses = promo[p].max_uses
    BY <1>2, <1>3 DEF ApplyConsume, TInv, Row
  <1>5. \A q \in Promos \ {p} : promo'[q] = promo[q]
    BY <1>2 DEF ApplyConsume, TInv
  <1>6. limits' = limits /\ request' = [request EXCEPT ![r] = NoRequest]
    BY DEF ApplyConsume, Finish
  <1>7. m # Unlimited => promo[p].used_count < m
    BY DEF ApplyConsume, Consumable, Left
  <1> HIDE DEF p, m
  <1>8. SeenLimits'
    <2> SUFFICES ASSUME NEW s \in Requests, request'[s] \in ApplyRequest
                 PROVE  /\ promo'[request'[s].promo].status # "unborn"
                        /\ request'[s].max_uses \in limits'[request'[s].promo]
      BY DEF SeenLimits, ApplyRequest
    <2>1. request'[s] = request[s]
      BY <1>6, NoRequestIsNoApply DEF TInv
    <2>2. request[s].promo \in Promos
      BY <2>1 DEF ApplyRequest
    <2> QED
      BY <1>4, <1>5, <1>6, <2>1, <2>2 DEF UInv, SeenLimits
  <1>9. OwnLimits'
    BY <1>4, <1>5, <1>6 DEF UInv, OwnLimits
  <1>10. UsesWithinLimits'
    <2>1. m = Unlimited \/ promo'[p].used_count <= m
      <3> SUFFICES ASSUME m # Unlimited PROVE promo'[p].used_count <= m
        OBVIOUS
      <3>1. m \in Nat
        BY <1>2 DEF Limits
      <3> QED
        BY <1>3, <1>4, <1>7, <3>1
    <2> QED
      BY <1>2, <1>5, <1>6, <2>1 DEF UInv, UsesWithinLimits
  <1> QED
    BY <1>8, <1>9, <1>10 DEF UInv

\* The steps that leave limits, counts and redemptions in flight alone.
LEMMA UOthers ==
  ASSUME TInv, UInv,
         \/ \E r \in Requests : Refused(r) \/ Fail(r)
         \/ \E r \in Requests, p \in Promos, body \in Bodies : Update(r, p, body)
         \/ \E p \in Promos : Remove(p) \/ Pass(p)
         \/ UNCHANGED promoVars
  PROVE  UInv'
  <1>1. CASE \E r \in Requests : Refused(r) \/ Fail(r)
    BY <1>1, NoRequestIsNoApply, UGrows
    DEF Refused, Fail, Finish, Grows, UInv, OwnLimits, TInv
  <1>2. CASE \E r \in Requests, p \in Promos, body \in Bodies : Update(r, p, body)
    BY <1>2, UGrows DEF Update, Grows, UInv, OwnLimits, TInv, ApplyRequest
  <1>3. CASE \E p \in Promos : Remove(p) \/ Pass(p)
    <2>1. PICK p \in Promos : Remove(p) \/ Pass(p)
      BY <1>3
    <2>2. request' = request /\ limits' = limits /\ Live(p)
      BY <2>1 DEF Remove, Pass
    <2>3. /\ promo'[p].used_count = promo[p].used_count
          /\ promo'[p].max_uses = promo[p].max_uses
          /\ promo'[p].status # "unborn"
      BY <2>1 DEF Remove, Pass, TInv, Row, Live
    <2>4. \A q \in Promos \ {p} : promo'[q] = promo[q]
      BY <2>1 DEF Remove, Pass, TInv
    <2>5. \A q \in Promos : Grows(q)
      BY <2>2, <2>3, <2>4 DEF Grows, UInv, OwnLimits, Live
    <2> QED
      BY <2>2, <2>5, UGrows
  <1>4. CASE UNCHANGED promoVars
    BY <1>4, UGrows DEF promoVars, Grows, UInv, OwnLimits
  <1> QED
    BY <1>1, <1>2, <1>3, <1>4

LEMMA UStep == TInv /\ UInv /\ [PromoNext]_promoVars => UInv'
  <1> SUFFICES ASSUME TInv, UInv, [PromoNext]_promoVars PROVE UInv'
    OBVIOUS
  <1>1. CASE \E p \in Promos, body \in Bodies : CreatePromo(p, body)
    BY <1>1, UCreate
  <1>2. CASE \E r \in Requests, p \in Promos : Apply(r, p)
    BY <1>2, UApply
  <1>3. CASE \E r \in Requests : UpdateWrite(r)
    BY <1>3, UUpdateWrite
  <1>4. CASE \E r \in Requests : ApplyConsume(r)
    BY <1>4, UApplyConsume
  <1>5. CASE \/ \E r \in Requests : Refused(r) \/ Fail(r)
             \/ \E r \in Requests, p \in Promos, body \in Bodies : Update(r, p, body)
             \/ \E p \in Promos : Remove(p) \/ Pass(p)
             \/ UNCHANGED promoVars
    BY <1>5, UOthers
  <1> QED
    BY <1>1, <1>2, <1>3, <1>4, <1>5 DEF PromoNext

\* However many redemptions and PATCHes overlap, no code is used more often
\* than some limit it has had.
THEOREM RedemptionsStayWithinLimits == PromoSpec => []UsesWithinLimits
  <1>1. UInv => UsesWithinLimits
    BY DEF UInv
  <1> QED
    BY <1>1, UInit, UStep, TAlways, PTL DEF PromoSpec

-----------------------------------------------------------------------------
\* A row is born with no uses, and only apply counts, one at a time.
LEMMA EStep == TInv /\ EveryUseCounted /\ [PromoNext]_promoVars => EveryUseCounted'
  <1> SUFFICES ASSUME TInv, EveryUseCounted, [PromoNext]_promoVars PROVE EveryUseCounted'
    OBVIOUS
  <1> USE DEF EveryUseCounted
  <1>1. CASE \E p \in Promos, body \in Bodies : CreatePromo(p, body)
    BY <1>1 DEF CreatePromo, NoRow, TInv
  <1>2. CASE \E r \in Requests : UpdateWrite(r)
    <2>1. PICK r \in Requests : UpdateWrite(r)
      BY <1>2
    <2>2. promo'[request[r].promo].used_count = promo[request[r].promo].used_count
      BY <2>1, PatchedFields
    <2>3. \A p \in Promos : promo'[p].used_count = promo[p].used_count
      BY <2>1, <2>2, PatchedFields
    <2>4. redeemed' = redeemed
      BY <2>1 DEF UpdateWrite
    <2> QED
      BY <2>3, <2>4
  <1>3. CASE \E r \in Requests : ApplyConsume(r)
    <2>1. PICK r \in Requests : ApplyConsume(r)
      BY <1>3
    <2>2. request[r].promo \in Promos
      BY <2>1, Operations DEF ApplyConsume, ApplyRequest
    <2> QED
      BY <2>1, <2>2 DEF ApplyConsume, TInv, Row
  <1>4. CASE \E p \in Promos : Remove(p) \/ Pass(p)
    BY <1>4 DEF Remove, Pass, TInv, Row
  <1>5. CASE UNCHANGED <<promo, redeemed>>
    BY <1>5
  <1> QED
    BY <1>1, <1>2, <1>3, <1>4, <1>5 DEF PromoNext, promoVars, Update, Apply, Refused, Fail

\* The count of every code is always the number of redemptions granted on it.
THEOREM NoUseIsLost == PromoSpec => []EveryUseCounted
  <1>1. PromoInit => EveryUseCounted
    BY DEF PromoInit, EveryUseCounted, NoRow
  <1> QED
    BY <1>1, EStep, TAlways, PTL DEF PromoSpec

-----------------------------------------------------------------------------
(***************************************************************************)
(* Discounts, while the PATCHes of each code come one at a time.           *)
(***************************************************************************)

\* No two PATCHes of one code are in flight at once.
PatchesApart ==
  \A r, s \in Requests :
    /\ request[r] \in UpdateRequest /\ request[s] \in UpdateRequest
    /\ request[r].promo = request[s].promo
    => r = s

\* What the PATCH in flight will write is sane with what it leaves, because
\* nobody has written the row since it was read.
PatchSane ==
  \A r \in Requests : request[r] \in UpdateRequest =>
    LET p == request[r].promo  body == request[r].body IN
      /\ promo[p].status # "unborn"
      /\ Live(p) => assertDiscountIsSane(Given(body.type, promo[p].type),
                                         Given(body.discount, promo[p].discount))

SInv == PatchSane /\ DiscountSane

\* A step that keeps type and discount of the rows and brings none to life.
LEMMA SKeep ==
  ASSUME TInv, SInv,
         \A p \in Promos : /\ promo'[p].type = promo[p].type
                           /\ promo'[p].discount = promo[p].discount
                           /\ promo'[p].status = "live" => promo[p].status = "live"
                           /\ promo'[p].status = "unborn" => promo[p].status = "unborn",
         \A r \in Requests : request'[r] = request[r] \/ request'[r] \notin UpdateRequest
  PROVE  SInv'
  <1>1. DiscountSane'
    BY DEF SInv, DiscountSane, Live, assertDiscountIsSane
  <1>2. PatchSane'
    <2> SUFFICES ASSUME NEW r \in Requests, request'[r] \in UpdateRequest
                 PROVE  LET p == request'[r].promo  body == request'[r].body IN
                          /\ promo'[p].status # "unborn"
                          /\ promo'[p].status = "live" =>
                               assertDiscountIsSane(Given(body.type, promo'[p].type),
                                                    Given(body.discount, promo'[p].discount))
      BY DEF PatchSane, Live
    <2>1. request'[r] = request[r]
      OBVIOUS
    <2>2. request[r].promo \in Promos
      BY <2>1 DEF UpdateRequest
    <2> QED
      BY <2>1, <2>2 DEF SInv, PatchSane, Live, assertDiscountIsSane, Given
  <1> QED
    BY <1>1, <1>2 DEF SInv

LEMMA SCreate ==
  ASSUME TInv, SInv, NEW p \in Promos, NEW body \in Bodies, CreatePromo(p, body)
  PROVE  SInv'
  <1>1. /\ promo'[p].type = body.type /\ promo'[p].discount = body.discount
        /\ assertDiscountIsSane(body.type, body.discount)
    BY DEF CreatePromo, TInv
  <1>2. promo[p].status = "unborn" /\ request' = request
    BY DEF CreatePromo, NoRow
  <1>3. \A q \in Promos \ {p} : promo'[q] = promo[q]
    BY DEF CreatePromo, TInv
  <1>4. DiscountSane'
    BY <1>1, <1>3 DEF SInv, DiscountSane, Live
  <1>5. PatchSane'
    <2> SUFFICES ASSUME NEW r \in Requests, request[r] \in UpdateRequest
                 PROVE  promo'[request[r].promo] = promo[request[r].promo]
      BY <1>2 DEF SInv, PatchSane, Live
    <2> QED
      BY <1>2, <1>3 DEF SInv, PatchSane, UpdateRequest
  <1> QED
    BY <1>4, <1>5 DEF SInv

LEMMA SUpdate ==
  ASSUME TInv, SInv, NEW r \in Requests, NEW p \in Promos, NEW body \in Bodies,
         Update(r, p, body)
  PROVE  SInv'
  <1>1. promo' = promo
    BY DEF Update
  <1>2. request' = [request EXCEPT ![r] = [op |-> "update", promo |-> p, body |-> body]]
    BY DEF Update
  <1>3. /\ promo[p].status # "unborn"
        /\ assertDiscountIsSane(Given(body.type, promo[p].type),
                                Given(body.discount, promo[p].discount))
    BY DEF Update, Live
  <1>4. PatchSane'
    BY <1>1, <1>2, <1>3 DEF TInv, SInv, PatchSane, Live
  <1> QED
    BY <1>1, <1>4 DEF SInv, DiscountSane, Live

LEMMA SUpdateWrite ==
  ASSUME TInv, SInv, PatchesApart, NEW r \in Requests, UpdateWrite(r)
  PROVE  SInv'
  <1> DEFINE p == request[r].promo
  <1> DEFINE body == request[r].body
  <1>1. request[r] \in UpdateRequest
    BY Operations DEF UpdateWrite
  <1>2. p \in Promos
    BY <1>1 DEF UpdateRequest
  <1>3. /\ promo'[p].type = Given(body.type, promo[p].type)
        /\ promo'[p].discount = Given(body.discount, promo[p].discount)
        /\ Live(p)
    BY PatchedFields DEF UpdateWrite
  <1>4. assertDiscountIsSane(promo'[p].type, promo'[p].discount)
    BY <1>1, <1>3 DEF SInv, PatchSane
  <1>5. \A q \in Promos \ {p} : promo'[q] = promo[q]
    BY PatchedFields
  <1>6. request' = [request EXCEPT ![r] = NoRequest]
    BY DEF UpdateWrite, Finish
  <1>7. \A s \in Requests : request'[s] \in UpdateRequest =>
          request'[s] = request[s] /\ request[s].promo \in Promos \ {p}
    BY <1>1, <1>6, NoRequestIsNoUpdate DEF PatchesApart, TInv, UpdateRequest
  <1>8. PatchSane'
    BY <1>5, <1>7 DEF SInv, PatchSane, Live
  <1> HIDE DEF p
  <1>9. DiscountSane'
    BY <1>4, <1>5 DEF SInv, DiscountSane, Live
  <1> QED
    BY <1>8, <1>9 DEF SInv

LEMMA SStep == PatchesApart /\ TInv /\ SInv /\ [PromoNext]_promoVars => SInv'
  <1> SUFFICES ASSUME PatchesApart, TInv, SInv, [PromoNext]_promoVars PROVE SInv'
    OBVIOUS
  <1>1. CASE \E p \in Promos, body \in Bodies : CreatePromo(p, body)
    BY <1>1, SCreate
  <1>2. CASE \E r \in Requests, p \in Promos, body \in Bodies : Update(r, p, body)
    BY <1>2, SUpdate
  <1>3. CASE \E r \in Requests : UpdateWrite(r)
    BY <1>3, SUpdateWrite
  <1>4. CASE \E r \in Requests, p \in Promos : Apply(r, p)
    BY <1>4, SKeep DEF Apply, TInv, UpdateRequest
  <1>5. CASE \E r \in Requests : ApplyConsume(r)
    <2>1. PICK r \in Requests : ApplyConsume(r)
      BY <1>5
    <2>2. request[r].promo \in Promos
      BY <2>1, Operations DEF ApplyConsume, ApplyRequest
    <2>3. request' = [request EXCEPT ![r] = NoRequest]
      BY <2>1 DEF ApplyConsume, Finish
    <2>4. \A p \in Promos : /\ promo'[p].type = promo[p].type
                            /\ promo'[p].discount = promo[p].discount
                            /\ promo'[p].status = promo[p].status
      BY <2>1, <2>2 DEF ApplyConsume, TInv, Row
    <2> QED
      BY <2>3, <2>4, SKeep, NoRequestIsNoUpdate DEF TInv
  <1>6. CASE \E p \in Promos : Remove(p) \/ Pass(p)
    <2>1. PICK p \in Promos : Remove(p) \/ Pass(p)
      BY <1>6
    <2>2. request' = request /\ Live(p)
      BY <2>1 DEF Remove, Pass
    <2>3. \A q \in Promos : /\ promo'[q].type = promo[q].type
                            /\ promo'[q].discount = promo[q].discount
                            /\ promo'[q].status = "live" => promo[q].status = "live"
                            /\ promo'[q].status = "unborn" => promo[q].status = "unborn"
      BY <2>1 DEF Remove, Pass, TInv, Row, Live
    <2> QED
      BY <2>2, <2>3, SKeep
  <1>7. CASE \E r \in Requests : Refused(r) \/ Fail(r)
    BY <1>7, SKeep, NoRequestIsNoUpdate DEF Refused, Fail, Finish, TInv
  <1>8. CASE UNCHANGED promoVars
    BY <1>8, SKeep DEF promoVars
  <1> QED
    BY <1>1, <1>2, <1>3, <1>4, <1>5, <1>6, <1>7, <1>8 DEF PromoNext

\* As long as the PATCHes of each code come one at a time, no percentage ever
\* exceeds 100, although update checks type and discount one await before it
\* writes them.
THEOREM SerialPatchesStaySane == PromoSpec /\ []PatchesApart => []DiscountSane
  <1>1. PromoInit => SInv
    BY NoRequestIsNoUpdate DEF PromoInit, SInv, PatchSane, DiscountSane, Live, NoRow
  <1>2. SInv => DiscountSane
    BY DEF SInv
  <1> QED
    BY <1>1, <1>2, SStep, TAlways, PTL DEF PromoSpec

\* So it is when a single request PATCHes.
LEMMA OnePatcherIsApart ==
  ASSUME TInv, \A r, s \in Patchers : r = s
  PROVE  PatchesApart
  BY DEF TInv, PatchesApart

-----------------------------------------------------------------------------
(***************************************************************************)
(* Marketplace: the run of the job.                                        *)
(***************************************************************************)

USE DEF inquired

Running == sync # Idle
Publishing == At("push") \/ At("store")
Removing == At("delete") \/ At("clear")
Hands == Publishing \/ Removing

(***************************************************************************)
(* Types.                                                                  *)
(***************************************************************************)

\* TypeOK with `delivery` as a function.
MTypes ==
  /\ space \in [Spaces -> Space]
  /\ booking \in [Bookings -> Booking \cup {None}]
  /\ listing \in [Platforms -> [Listings -> Listing]]
  /\ sync \in {Idle} \cup Loop \cup AtHand
  /\ delivery \in [Deliveries -> {Idle} \cup Reading \cup Resolved]
  /\ faults \in 0..MaxFaults
  /\ adrift \subseteq Platforms \X Listings
  /\ booked \subseteq Markers /\ excused \subseteq Markers

Tables == space \in [Spaces -> Space] /\ booking \in [Bookings -> Booking \cup {None}]
Showing == listing \in [Platforms -> [Listings -> Listing]]
Works == sync \in {Idle} \cup Loop \cup AtHand
Receives == delivery \in [Deliveries -> {Idle} \cup Reading \cup Resolved]
Records ==
  /\ faults \in 0..MaxFaults /\ adrift \subseteq Platforms \X Listings
  /\ booked \subseteq Markers /\ excused \subseteq Markers

LEMMA PartsOfTypes == MTypes <=> Tables /\ Showing /\ Works /\ Receives /\ Records
  BY DEF MTypes, Tables, Showing, Works, Receives, Records

LEMMA PartsOfTypesThen ==
  ASSUME Tables', Showing', Works', Receives', Records'
  PROVE  MTypes'
  BY DEF MTypes, Tables, Showing, Works, Receives, Records

LEMMA RowsAre ==
  ASSUME NEW rows
  PROVE  rows \in Rows <=>
           /\ DOMAIN rows \subseteq Spaces
           /\ rows \in [DOMAIN rows -> Ids]
  BY DEF Rows

\* The operation tells what else the run remembers.
LEMMA Runs ==
  ASSUME Works
  PROVE  /\ sync = Idle => sync.op = "idle"
         /\ At("list") \/ At("unlist") => sync \in Loop
         /\ Hands => sync \in AtHand
         /\ Running => /\ sync.rows \in Rows /\ Todo \subseteq Spaces
                       /\ \A s \in Todo : sync.rows[s] \in Ids
         /\ Running => sync \in Loop \/ sync \in AtHand
         /\ Hands => Running
         /\ At("list") \/ At("unlist") => Running /\ ~Hands
         /\ Hands => /\ sync.space \in Spaces
                     /\ sync.was \in Ids /\ sync.ids \in Ids
                     /\ sync.platform \in Platforms
                     /\ Id \in Listings \cup {None}
<1>1. sync \in Loop => /\ sync.op \in {"list", "unlist"} /\ sync.rows \in Rows
  BY DEF Loop
<1>2. sync \in AtHand => /\ sync.op \in {"push", "store", "delete", "clear"}
                         /\ sync.rows \in Rows /\ sync.space \in Spaces
                         /\ sync.was \in Ids /\ sync.ids \in Ids
                         /\ sync.platform \in Platforms
  BY DEF AtHand
<1>3. sync = Idle => sync.op = "idle"
  BY DEF Idle
<1>4. sync \in AtHand => Id \in Listings \cup {None}
  BY <1>2 DEF Id, Ids
<1>5. sync \in Loop \cup AtHand =>
        Todo \subseteq Spaces /\ \A s \in Todo : sync.rows[s] \in Ids
  BY <1>1, <1>2, RowsAre DEF Todo
<1> QED
  BY <1>1, <1>2, <1>3, <1>4, <1>5
  DEF Works, At, Hands, Publishing, Removing, Running

LEMMA Calls ==
  First \in Platforms /\ Second \in Platforms /\ First # Second /\ Platforms = {First, Second}
  BY DEF First, Second, Platforms

\* What a step leaves the run with.
LEMMA LoopsOn ==
  ASSUME Works, Running, NEW op \in {"list", "unlist"}, Loops(op)
  PROVE  /\ sync' \in Loop /\ Works' /\ Running' /\ ~Hands'
         /\ sync'.op = op /\ sync'.rows = sync.rows
  BY Runs DEF Loops, Go, Works, Loop, Running, Idle, Hands, Publishing, Removing, At

LEMMA TakesUp ==
  ASSUME Works, Running, NEW s, NEW op \in {"push", "delete"}, NEW offers \in SUBSET Hours,
         TakeUp(s, op, offers)
  PROVE  /\ sync' \in AtHand /\ Works' /\ s \in Spaces /\ s \in Todo
         /\ sync'.op = op /\ sync'.space = s /\ sync'.was = sync.rows[s]
         /\ sync'.ids = sync.rows[s] /\ sync'.platform = First
         /\ Todo' = Todo \ {s} /\ \A u \in Todo' : sync'.rows[u] = sync.rows[u]
<1> DEFINE run == [op |-> op, rows |-> [u \in Todo \ {s} |-> sync.rows[u]], space |-> s,
                   was |-> sync.rows[s], ids |-> sync.rows[s], platform |-> First,
                   offers |-> offers]
<1>1. sync' = run /\ s \in Todo
  BY DEF TakeUp, Go
<1>2. s \in Spaces /\ sync.rows[s] \in Ids
  BY <1>1, Runs
<1>3. run.rows \in Rows
  BY Runs, RowsAre
<1>4. run \in AtHand
  BY <1>2, <1>3, Calls DEF AtHand
<1> QED BY <1>1, <1>2, <1>4 DEF Works, Todo

LEMMA Answers ==
  ASSUME Works, Hands, NEW id \in Listings \cup {None}, NEW last \in {"store", "clear"},
         Answered(id, last)
  PROVE  /\ sync' \in AtHand /\ Works' /\ sync'.rows = sync.rows
         /\ sync'.space = sync.space /\ sync'.was = sync.was
         /\ sync'.ids[sync.platform] = id
         /\ \A p \in Platforms \ {sync.platform} : sync'.ids[p] = sync.ids[p]
         /\ sync.platform = First => sync'.op = sync.op /\ sync'.platform = Second
         /\ sync.platform # First => sync'.op = last
<1> DEFINE run == [sync EXCEPT !.ids[sync.platform] = id]
           first == [run EXCEPT !.platform = Second]
           both == [run EXCEPT !.op = last, !.platform = First, !.offers = {}]
<1>1. sync \in AtHand /\ sync.platform \in Platforms /\ sync.ids \in Ids
  BY Runs
<1>2. sync' = IF sync.platform = First THEN first ELSE both
  BY <1>1 DEF Answered, Go, AtHand
<1>3. [sync.ids EXCEPT ![sync.platform] = id] \in Ids
  BY <1>1 DEF Ids
<1>4. run \in AtHand /\ run = [sync EXCEPT !.ids = [sync.ids EXCEPT ![sync.platform] = id]]
  BY <1>1, <1>3 DEF AtHand
<1>5. first \in AtHand /\ both \in AtHand
  BY <1>4, Calls DEF AtHand
<1>6. /\ run.rows = sync.rows /\ run.space = sync.space /\ run.was = sync.was
      /\ run.op = sync.op /\ run.ids = [sync.ids EXCEPT ![sync.platform] = id]
  BY <1>1, <1>4 DEF AtHand
<1>7. CASE sync.platform = First
  <2>1. sync' = first BY <1>2, <1>7
  <2>2. /\ first.rows = run.rows /\ first.space = run.space /\ first.was = run.was
        /\ first.op = run.op /\ first.ids = run.ids /\ first.platform = Second
    BY <1>4 DEF AtHand
  <2> QED BY <1>1, <1>5, <1>6, <1>7, <2>1, <2>2 DEF Works, Ids
<1>8. CASE sync.platform # First
  <2>1. sync' = both BY <1>2, <1>8
  <2>2. /\ both.rows = run.rows /\ both.space = run.space /\ both.was = run.was
        /\ both.op = last /\ both.ids = run.ids
    BY <1>4 DEF AtHand
  <2> QED BY <1>1, <1>5, <1>6, <1>8, <2>1, <2>2 DEF Works, Ids
<1> QED BY <1>7, <1>8

\* A call that changes one listing.
LEMMA Remotes ==
  ASSUME Showing, Works, Hands, NEW l \in Listings, NEW shown \in Listing, Remote(l, shown)
  PROVE  /\ Showing' /\ listing'[sync.platform][l] = shown
         /\ \A p \in Platforms, k \in Listings :
              p # sync.platform \/ k # l => listing'[p][k] = listing[p][k]
  BY Runs DEF Showing, Remote

LEMMA Ended == Gone \in Listing /\ Gone # New /\ Gone.state # "up"
  BY DEF Gone, Listing, New

LEMMA PairsAre ==
  ASSUME NEW ids, NEW p \in Platforms, NEW l
  PROVE  <<p, l>> \in Pairs(ids) <=> ids[p] = l /\ l # None
  BY DEF Pairs

LEMMA PairsOfIds ==
  ASSUME NEW ids \in Ids
  PROVE  Pairs(ids) \subseteq Platforms \X Listings
  BY DEF Pairs, Ids

\* What a run that fails records.
LEMMA DroppedAre ==
  ASSUME Works, NEW p \in Platforms, NEW l
  PROVE  /\ Publishing => (<<p, l>> \in Dropped <=> l # None /\ sync.ids[p] = l /\ sync.was[p] # l)
         /\ Removing => (<<p, l>> \in Dropped
                         <=> l # None /\ sync.ids[p] = l /\ listing'[p][l].state # "up")
         /\ Dropped \subseteq Platforms \X Listings
<1>1. CASE Publishing
  <2>1. Dropped = Pairs(sync.ids) \ Pairs(sync.was)
    BY <1>1 DEF Dropped, Publishing, At
  <2>2. ~Removing
    BY <1>1 DEF Publishing, Removing, At
  <2>3. sync.ids \in Ids
    BY <1>1, Runs DEF Hands
  <2>4. <<p, l>> \in Dropped <=> (sync.ids[p] = l /\ l # None)
                                /\ ~(sync.was[p] = l /\ l # None)
    BY <2>1, PairsAre
  <2>5. Dropped \subseteq Platforms \X Listings
    BY <2>1, <2>3, PairsOfIds
  <2> QED BY <2>2, <2>4, <2>5
<1>2. CASE Removing
  <2>1. Dropped = {m \in Pairs(sync.ids) : listing'[m[1]][m[2]].state # "up"}
    BY <1>2 DEF Dropped, Removing, At
  <2>2. ~Publishing
    BY <1>2 DEF Publishing, Removing, At
  <2>3. sync.ids \in Ids
    BY <1>2, Runs DEF Hands
  <2>4. <<p, l>> \in Pairs(sync.ids) <=> sync.ids[p] = l /\ l # None
    BY PairsAre
  <2>5. <<p, l>> \in Dropped <=> (sync.ids[p] = l /\ l # None)
                                /\ listing'[p][l].state # "up"
    BY <2>1, <2>4
  <2>6. Dropped \subseteq Pairs(sync.ids) /\ Pairs(sync.ids) \subseteq Platforms \X Listings
    BY <2>1, <2>3, PairsOfIds
  <2> QED BY <2>2, <2>5, <2>6
<1>3. CASE ~Hands
  <2>1. Dropped = {}
    BY <1>3 DEF Dropped, Hands, Publishing, Removing, At
  <2> QED BY <1>3, <2>1 DEF Hands
<1> QED BY <1>1, <1>2, <1>3 DEF Hands

LEMMA NoneIsNoListing == None \notin Listings /\ None \notin Spaces
  BY NoneIsNothing

-----------------------------------------------------------------------------
(***************************************************************************)
(* Each step keeps the types.                                              *)
(***************************************************************************)

LEMMA MInit == Init => MTypes
<1> SUFFICES ASSUME Init PROVE MTypes
  OBVIOUS
<1>1. NoIds \in Ids
  BY DEF NoIds, Ids
<1>2. New \in Listing
  BY DEF New, Listing
<1>3. [exists |-> TRUE, open |-> TRUE, ids |-> NoIds] \in Space
  BY <1>1 DEF Space
<1>4. 0 \in 0..MaxFaults
  BY HoursAreNumbers
<1> QED BY <1>2, <1>3, <1>4 DEF Init, MTypes

LEMMA MStaff ==
  ASSUME MTypes, Staff
  PROVE  MTypes'
<1> USE DEF MTypes
<1>1. NoIds \in Ids
  BY DEF NoIds, Ids
<1>2. ASSUME NEW b \in Bookings, Settle(b) PROVE MTypes'
  <2>1. booking[b] \in Booking
    BY <1>2 DEF Settle
  <2>2. [booking[b] EXCEPT !.holds = ~@] \in Booking
    BY <2>1 DEF Booking
  <2>3. booking' = [booking EXCEPT ![b] = [booking[b] EXCEPT !.holds = ~@]]
    BY <1>2 DEF Settle
  <2>4. booking' \in [Bookings -> Booking \cup {None}]
    BY <2>2, <2>3
  <2> QED BY <1>2, <2>4 DEF Settle, history
<1>7. ASSUME NEW S \in SUBSET Bookings, \A b \in S : booking[b] # None, Erase(S)
      PROVE  booked' \subseteq Markers /\ excused' \subseteq Markers
  <2>1. \A b \in S : booking[b].inquiry \in Markers \cup {None}
    BY <1>7 DEF Booking
  <2> QED BY <1>7, <2>1 DEF Erase
<1>3. ASSUME NEW b \in Bookings, RemoveBooking(b) PROVE MTypes'
  <2>1. booked' \subseteq Markers /\ excused' \subseteq Markers
    BY <1>3, <1>7 DEF RemoveBooking
  <2> QED BY <1>3, <2>1 DEF RemoveBooking
<1>8. ASSUME NEW b \in Bookings, NEW holds \in BOOLEAN, Refuse(b, holds) PROVE MTypes'
  <2>1. booked' \subseteq Markers /\ excused' \subseteq Markers
    BY <1>7, <1>8 DEF Refuse
  <2>2. booking[b] \in Booking
    BY <1>8 DEF Refuse
  <2>3. booking' = [booking EXCEPT ![b] = [booking[b] EXCEPT !.holds = holds, !.inquiry = None]]
    BY <1>8 DEF Refuse
  <2>4. [booking[b] EXCEPT !.holds = holds, !.inquiry = None] \in Booking
    BY <2>2 DEF Booking
  <2>5. booking' \in [Bookings -> Booking \cup {None}]
    BY <2>3, <2>4
  <2> QED BY <1>8, <2>1, <2>5 DEF Refuse
<1>4. ASSUME NEW b \in Bookings, NEW s \in Spaces, NEW p \in Periods, Book(b, s, p)
      PROVE  MTypes'
  <2>1. [holds |-> TRUE, space |-> s, period |-> p, inquiry |-> None] \in Booking
    BY DEF Booking
  <2>2. booking' \in [Bookings -> Booking \cup {None}]
    BY <1>4, <2>1 DEF Book
  <2> QED BY <1>4, <2>2 DEF Book, history
<1>5. ASSUME NEW s \in Spaces, remove(s) PROVE MTypes'
  <2>1. [exists |-> FALSE, open |-> FALSE, ids |-> NoIds] \in Space
    BY <1>1 DEF Space
  <2>2. space' \in [Spaces -> Space]
    BY <1>5, <2>1 DEF remove
  <2>3. booking' \in [Bookings -> Booking \cup {None}]
    BY <1>5 DEF remove
  <2>4. Stored(s) \subseteq Platforms \X Listings
    BY PairsOfIds DEF Stored, Space
  <2>5. adrift' \subseteq Platforms \X Listings
    BY <1>5, <2>4 DEF remove
  <2>6. booked' \subseteq Markers /\ excused' \subseteq Markers
    <3> DEFINE lost == {b \in Bookings : booking[b] # None /\ booking[b].space = s}
    <3>1. Erase(lost)
      BY <1>5 DEF remove
    <3> QED BY <1>7, <3>1
  <2> QED BY <1>5, <2>2, <2>3, <2>5, <2>6 DEF remove
<1>6. ASSUME NEW s \in Spaces, NEW open \in BOOLEAN, update(s, open) PROVE MTypes'
  <2>1. [space[s] EXCEPT !.open = open] \in Space
    BY DEF Space
  <2>2. space' = [space EXCEPT ![s] = [space[s] EXCEPT !.open = open]]
    BY <1>6 DEF update
  <2>3. space' \in [Spaces -> Space]
    BY <2>1, <2>2
  <2> QED BY <1>6, <2>3 DEF update, history
<1> QED BY <1>2, <1>3, <1>4, <1>5, <1>6, <1>8 DEF Staff

LEMMA MWebhook ==
  ASSUME MTypes, NEW d \in Deliveries, Webhook(d)
  PROVE  MTypes'
<1> USE DEF MTypes
<1>1. ASSUME NEW i \in Inquiries, Receive(d, i) PROVE MTypes'
  <2>1. [op |-> "resolve", inquiry |-> i] \in Reading
    BY DEF Reading
  <2>2. delivery' \in [Deliveries -> {Idle} \cup Reading \cup Resolved]
    BY <1>1, <2>1 DEF Receive, Turn
  <2>3. excused' \subseteq Markers
    BY <1>1 DEF Receive, Markers
  <2> QED BY <1>1, <2>2, <2>3 DEF Receive
<1>2. ASSUME NEW s \in Spaces, resolveSpace(d, s) PROVE MTypes'
  <2>1. delivery[d] \in Reading
    BY <1>2 DEF resolveSpace, Waits, Resolved, Idle
  <2>2. [op |-> "conflict", inquiry |-> delivery[d].inquiry, space |-> s] \in Resolved
    BY <2>1 DEF Reading, Resolved
  <2>3. delivery' \in [Deliveries -> {Idle} \cup Reading \cup Resolved]
    BY <1>2, <2>2 DEF resolveSpace, Turn
  <2> QED BY <1>2, <2>3 DEF resolveSpace, history
<1>3. ASSUME FindConflict(d) PROVE MTypes'
  <2>1. delivery[d] \in Resolved
    BY <1>3 DEF FindConflict, Waits, Reading, Idle
  <2>2. [delivery[d] EXCEPT !.op = "create"] \in Resolved
    BY <2>1 DEF Resolved
  <2>3. delivery' \in [Deliveries -> {Idle} \cup Reading \cup Resolved]
    BY <1>3, <2>2 DEF FindConflict, Turn
  <2> QED BY <1>3, <2>3 DEF FindConflict, history
<1>4. ASSUME NEW b \in Bookings, Create(d, b) PROVE MTypes'
  <2>1. delivery[d] \in Resolved
    BY <1>4 DEF Create, Waits, Reading, Idle
  <2>2. delivery[d].space \in Spaces /\ delivery[d].inquiry \in Inquiries
    BY <2>1 DEF Resolved
  <2>3. [holds |-> TRUE, space |-> delivery[d].space, period |-> delivery[d].inquiry.period,
         inquiry |-> delivery[d].inquiry.id] \in Booking
    BY <2>2, InquiriesNameASpace DEF Booking, Markers
  <2>4. booking' \in [Bookings -> Booking \cup {None}]
    BY <1>4, <2>3 DEF Create
  <2>5. delivery' \in [Deliveries -> {Idle} \cup Reading \cup Resolved]
    BY <1>4 DEF Create, Turn
  <2>6. booked' \subseteq Markers
    BY <1>4, <2>2 DEF Create, Markers
  <2> QED BY <1>4, <2>4, <2>5, <2>6 DEF Create
<1>5. ASSUME Reject(d) PROVE MTypes'
  BY <1>5 DEF Reject, Turn, history
<1> QED BY <1>1, <1>2, <1>3, <1>4, <1>5 DEF Webhook

LEMMA MFault ==
  ASSUME Records, Fault
  PROVE  faults' \in 0..MaxFaults
  BY HoursAreNumbers DEF Records, Fault

LEMMA MForget ==
  ASSUME Works, Records, Forget
  PROVE  adrift' \subseteq Platforms \X Listings
  BY DroppedAre, Calls DEF Records, Forget

LEMMA MWrites ==
  ASSUME MTypes, Hands, NEW ids \in Ids, Writes(ids)
  PROVE  Tables' /\ Showing' /\ Receives' /\ Records'
<1> USE DEF MTypes
<1>1. sync.space \in Spaces
  BY PartsOfTypes, Runs
<1>2. [space[sync.space] EXCEPT !.ids = ids] \in Space
  BY <1>1 DEF Space
<1>3. CASE space[sync.space].exists
  <2>1. space' = [space EXCEPT ![sync.space] = [space[sync.space] EXCEPT !.ids = ids]]
    BY <1>3 DEF Writes
  <2>2. space' \in [Spaces -> Space]
    BY <1>2, <2>1
  <2> QED BY <1>3, <2>2 DEF Writes, Tables, Showing, Receives, Records
<1>4. CASE ~space[sync.space].exists
  BY <1>4, MForget, PartsOfTypes DEF Writes, Tables, Showing, Receives, Records
<1> QED BY <1>3, <1>4

LEMMA MShow ==
  ASSUME Works, Showing, Hands, sync.offers \in SUBSET Hours, NEW l \in Listings, Show(l)
  PROVE  Showing'
<1>1. [state |-> "up", offers |-> sync.offers] \in Listing
  BY DEF Listing
<1> QED BY <1>1, Remotes DEF Show

LEMMA MOffers == ASSUME Works, Hands PROVE sync.offers \in SUBSET Hours
  BY Runs DEF AtHand

LEMMA MReads ==
  ASSUME MTypes, NEW op \in {"list", "unlist"}, NEW S \in SUBSET Spaces, Read(op, S)
  PROVE  /\ Works' /\ sync' \in Loop /\ sync'.op = op /\ Todo' = S
         /\ \A s \in S : sync'.rows[s] = space[s].ids
<1>1. [s \in S |-> space[s].ids] \in Rows
  BY RowsAre DEF MTypes, Space
<1> QED BY <1>1 DEF Read, Go, Works, Loop, Todo

LEMMA MWorking ==
  ASSUME MTypes, Working
  PROVE  MTypes'
<1>1. Tables /\ Showing /\ Works /\ Receives /\ Records
  BY PartsOfTypes
<1> DEFINE Apart == Tables' /\ Showing' /\ Receives' /\ Records'
<1>2. ASSUME UNCHANGED <<space, booking, listing, delivery, faults, history>>
      PROVE  Apart
  BY <1>1, <1>2 DEF Tables, Showing, Receives, Records, history
<1>3. CASE Start
  <2>1. ToPublish \in SUBSET Spaces
    BY DEF ToPublish
  <2> QED BY <1>1, <1>2, <1>3, <2>1, MReads, PartsOfTypesThen DEF Start, Read
<1>4. CASE Unlist
  <2>1. ToUnpublish \in SUBSET Spaces
    BY DEF ToUnpublish
  <2> QED BY <1>1, <1>2, <1>4, <2>1, MReads, PartsOfTypesThen DEF Unlist, Read
<1>5. CASE End
  BY <1>1, <1>2, <1>5, PartsOfTypesThen DEF End, Go, Works
<1>6. CASE upsertRefused
  <2>1. Hands
    BY <1>6 DEF upsertRefused, Hands, Publishing
  <2>2. Works'
    BY <1>1, <1>6, <2>1, Runs, Answers DEF upsertRefused
  <2>3. faults' \in 0..MaxFaults
    BY <1>1, <1>6, MFault DEF upsertRefused, Records
  <2>4. Apart
    BY <1>1, <1>6, <2>3 DEF upsertRefused, Tables, Showing, Receives, Records, history
  <2> QED BY <2>2, <2>4, PartsOfTypesThen
<1>7. CASE Store
  <2>1. Hands /\ Running /\ sync.ids \in Ids
    BY <1>1, <1>7, Runs DEF Store, Hands, Publishing
  <2> QED BY <1>1, <1>7, <2>1, MWrites, LoopsOn, PartsOfTypesThen DEF Store
<1>8. CASE delete
  <2>1. Hands
    BY <1>8 DEF delete, Hands, Removing
  <2>2. Works'
    BY <1>1, <1>8, <2>1, Runs, Answers DEF delete
  <2>3. Showing'
    <3>1. CASE Id = None
      BY <1>1, <1>8, <3>1 DEF delete, Showing
    <3>2. CASE Id # None
      BY <1>1, <1>8, <2>1, <3>2, Runs, Remotes, Ended DEF delete
    <3> QED BY <3>1, <3>2
  <2>4. Tables' /\ Receives' /\ Records'
    BY <1>1, <1>8 DEF delete, Tables, Receives, Records, history
  <2> QED BY <2>2, <2>3, <2>4, PartsOfTypesThen
<1>9. CASE Clear
  <2>1. Hands /\ Running /\ NoIds \in Ids
    BY <1>1, <1>9, Runs DEF Clear, Hands, Removing, NoIds, Ids
  <2> QED BY <1>1, <1>9, <2>1, MWrites, LoopsOn, PartsOfTypesThen DEF Clear
<1>10. ASSUME NEW s \in Spaces, buildAvailabilityCalendar(s) PROVE MTypes'
  <2>1. Running /\ Free(s) \in SUBSET Hours
    BY <1>1, <1>10, Runs DEF buildAvailabilityCalendar, Free
  <2>2. TakeUp(s, "push", Free(s))
    BY <1>10 DEF buildAvailabilityCalendar
  <2> QED BY <1>1, <1>2, <2>1, <2>2, TakesUp, PartsOfTypesThen DEF TakeUp
<1>11. ASSUME NEW s \in Spaces, Unpublish(s) PROVE MTypes'
  <2>1. Running
    BY <1>1, <1>11, Runs DEF Unpublish
  <2>2. TakeUp(s, "delete", {})
    BY <1>11 DEF Unpublish
  <2> QED BY <1>1, <1>2, <2>1, <2>2, TakesUp, PartsOfTypesThen DEF TakeUp
<1>12. ASSUME NEW l \in Listings, upsert(l) PROVE MTypes'
  <2>1. Hands
    BY <1>12 DEF upsert, Hands, Publishing
  <2>2. Works'
    BY <1>1, <1>12, <2>1, Answers DEF upsert
  <2>3. Showing'
    BY <1>1, <1>12, <2>1, MShow, MOffers DEF upsert
  <2>4. Tables' /\ Receives' /\ Records'
    BY <1>1, <1>12 DEF upsert, Tables, Receives, Records, history
  <2> QED BY <2>2, <2>3, <2>4, PartsOfTypesThen
<1> QED
  BY <1>3, <1>4, <1>5, <1>6, <1>7, <1>8, <1>9, <1>10, <1>11, <1>12 DEF Working

LEMMA MFailing ==
  ASSUME MTypes, Failing
  PROVE  MTypes'
<1>1. Tables /\ Showing /\ Works /\ Receives /\ Records
  BY PartsOfTypes
<1>2. CASE upsertLost
  <2>1. Hands /\ Running
    BY <1>1, <1>2, Runs DEF upsertLost, Hands, Publishing
  <2>2. Works'
    BY <1>1, <1>2, <2>1, LoopsOn DEF upsertLost
  <2>3. faults' \in 0..MaxFaults
    BY <1>1, <1>2, MFault DEF upsertLost
  <2>4. Showing' /\ adrift' \subseteq Platforms \X Listings
    <3>1. CASE UNCHANGED listing /\ Forget
      BY <1>1, <3>1, MForget DEF Showing
    <3>2. ASSUME NEW l \in Listings, Show(l),
                 adrift' = adrift \cup Dropped
                           \cup ({<<sync.platform, l>>} \ Pairs(sync.was))
          PROVE  Showing' /\ adrift' \subseteq Platforms \X Listings
      <4>1. sync.platform \in Platforms
        BY <1>1, <2>1, Runs
      <4>2. Dropped \subseteq Platforms \X Listings
        BY <1>1, DroppedAre, Calls
      <4> QED BY <1>1, <2>1, <3>2, <4>1, <4>2, MShow, MOffers DEF Records
    <3> QED BY <1>2, <3>1, <3>2 DEF upsertLost
  <2>5. Tables' /\ Receives' /\ Records'
    BY <1>1, <1>2, <2>3, <2>4 DEF upsertLost, Tables, Receives, Records
  <2> QED BY <2>2, <2>4, <2>5, PartsOfTypesThen
<1>3. CASE deleteRefused
  <2>1. Hands /\ sync.platform \in Platforms /\ Id \in Listings
    BY <1>1, <1>3, Runs DEF deleteRefused, Hands, Removing
  <2>2. Works'
    BY <1>1, <1>3, <2>1, Answers DEF deleteRefused
  <2>3. faults' \in 0..MaxFaults /\ adrift' \subseteq Platforms \X Listings
    BY <1>1, <1>3, <2>1, MFault DEF deleteRefused, Records
  <2>4. Tables' /\ Showing' /\ Receives' /\ Records'
    BY <1>1, <1>3, <2>3 DEF deleteRefused, Tables, Showing, Receives, Records
  <2> QED BY <2>2, <2>4, PartsOfTypesThen
<1>4. CASE deleteLost
  <2>1. Hands /\ Running /\ sync.platform \in Platforms /\ Id \in Listings
    BY <1>1, <1>4, Runs DEF deleteLost, Hands, Removing
  <2>2. Works'
    BY <1>1, <1>4, <2>1, LoopsOn DEF deleteLost
  <2>3. faults' \in 0..MaxFaults /\ adrift' \subseteq Platforms \X Listings
    BY <1>1, <1>4, MFault, MForget DEF deleteLost
  <2>4. Showing'
    BY <1>1, <1>4, <2>1, Remotes, Ended DEF deleteLost, Showing
  <2>5. Tables' /\ Receives' /\ Records'
    BY <1>1, <1>4, <2>3 DEF deleteLost, Tables, Receives, Records
  <2> QED BY <2>2, <2>4, <2>5, PartsOfTypesThen
<1>5. CASE Stop
  <2>1. faults' \in 0..MaxFaults /\ adrift' \subseteq Platforms \X Listings
    BY <1>1, <1>5, MFault, MForget DEF Stop
  <2>2. Works'
    BY <1>5 DEF Stop, Go, Works
  <2>3. Tables' /\ Showing' /\ Receives' /\ Records'
    BY <1>1, <1>5, <2>1 DEF Stop, Tables, Showing, Receives, Records
  <2> QED BY <2>2, <2>3, PartsOfTypesThen
<1>6. ASSUME NEW l \in Listings, upsertUnread(l) PROVE MTypes'
  <2>1. Hands /\ sync.platform \in Platforms
    BY <1>1, <1>6, Runs DEF upsertUnread, Hands, Publishing
  <2>2. Works'
    BY <1>1, <1>6, <2>1, Runs, Answers DEF upsertUnread
  <2>3. Showing'
    BY <1>1, <1>6, <2>1, MShow, MOffers DEF upsertUnread
  <2>4. faults' \in 0..MaxFaults /\ adrift' \subseteq Platforms \X Listings
    BY <1>1, <1>6, <2>1, MFault DEF upsertUnread, Records
  <2>5. Tables' /\ Receives' /\ Records'
    BY <1>1, <1>6, <2>4 DEF upsertUnread, Tables, Receives, Records
  <2> QED BY <2>2, <2>3, <2>5, PartsOfTypesThen
<1> QED BY <1>2, <1>3, <1>4, <1>5, <1>6 DEF Failing

LEMMA MStep ==
  ASSUME MTypes, [Next]_vars
  PROVE  MTypes'
<1>1. CASE UNCHANGED vars
  BY <1>1 DEF vars, history, MTypes
<1>2. CASE Next
  BY <1>2, MStaff, MWorking, MFailing, MWebhook DEF Next
<1> QED BY <1>1, <1>2

-----------------------------------------------------------------------------
(***************************************************************************)
(* Listings and the ids by which they are known.                           *)
(***************************************************************************)

\* A space knows a listing that its row stores or that the run has read, or
\* been given, for it.
Knows(s, p, l) ==
  \/ space[s].ids[p] = l
  \/ Running /\ s \in Todo /\ sync.rows[s][p] = l
  \/ Hands /\ sync.space = s /\ (sync.was[p] = l \/ sync.ids[p] = l)

\* A listing has been put up for the only space that knows it.
OwnListings ==
  \A p \in Platforms, l \in Listings, s \in Spaces : Knows(s, p, l) =>
    /\ listing[p][l] # New
    /\ \A u \in Spaces : Knows(u, p, l) => u = s

\* A marketplace gives its ids in order.
InOrder ==
  \A p \in Platforms : \E n \in 0..MaxListing :
    {l \in Listings : listing[p][l] # New} = 1..n

\* Ids that were read are those of the row, or the row was deleted since.
Current(s, ids) ==
  /\ space[s].exists => space[s].ids = ids
  /\ ~space[s].exists => \A p \in Platforms : ids[p] # None => <<p, ids[p]>> \in adrift

RowsCurrent ==
  /\ \A s \in Spaces : ~space[s].exists => space[s].ids = NoIds
  /\ Running => \A s \in Todo : Current(s, sync.rows[s])
  /\ Hands => sync.space \notin Todo /\ Current(sync.space, sync.was)

Up(p, l) == listing[p][l].state = "up"

\* What a push holds has kept the ids it read, and shows; what a removal has
\* dealt with does not show any more.
HandsRight ==
  /\ Publishing => \A p \in Platforms :
       /\ sync.was[p] # None => sync.ids[p] = sync.was[p]
       /\ sync.ids[p] # None => Up(p, sync.ids[p]) \/ <<p, sync.ids[p]>> \in adrift
  /\ Removing =>
       /\ \A p \in Platforms : sync.ids[p] = sync.was[p]
       /\ \A p \in Platforms :
            /\ At("clear") \/ (p # sync.platform /\ sync.platform # First)
            /\ sync.ids[p] # None
            => ~Up(p, sync.ids[p]) \/ <<p, sync.ids[p]>> \in adrift

LInv ==
  OwnListings /\ InOrder /\ RowsCurrent /\ HandsRight /\ NoStrayListing /\ StoredIsUp

LEMMA NoIdsAre == NoIds \in Ids /\ \A p \in Platforms : NoIds[p] = None
  BY DEF NoIds, Ids

LEMMA SpacesAre ==
  ASSUME Tables, NEW s \in Spaces
  PROVE  /\ space[s].exists \in BOOLEAN /\ space[s].ids \in Ids
         /\ \A p \in Platforms : space[s].ids[p] \in Listings \cup {None}
  BY DEF Tables, Space, Ids

LEMMA OwnKept ==
  ASSUME OwnListings,
         \A p \in Platforms, l \in Listings, s \in Spaces : Knows(s, p, l)' => Knows(s, p, l),
         \A p \in Platforms, l \in Listings : listing[p][l] # New => listing'[p][l] # New
  PROVE  OwnListings'
  BY DEF OwnListings

LEMMA OrderKept ==
  ASSUME InOrder,
         \A p \in Platforms, l \in Listings : listing'[p][l] # New <=> listing[p][l] # New
  PROVE  InOrder'
<1>1. \A p \in Platforms :
        {l \in Listings : listing'[p][l] # New} = {l \in Listings : listing[p][l] # New}
  OBVIOUS
<1> QED BY <1>1 DEF InOrder

LEMMA LInit == Init => LInv
<1> SUFFICES ASSUME Init PROVE LInv
  OBVIOUS
<1>1. ~Running /\ ~Hands /\ sync.op = "idle"
  BY DEF Init, Running, Hands, Publishing, Removing, At, Idle
<1>2. \A s \in Spaces : space[s].ids = NoIds /\ \A p \in Platforms : space[s].ids[p] = None
  BY NoIdsAre DEF Init
<1>3. \A p \in Platforms, l \in Listings : listing[p][l] = New /\ ~Up(p, l)
  BY DEF Init, Up, New
<1>4. InOrder
  <2>1. \A p \in Platforms : {l \in Listings : listing[p][l] # New} = 1..0
    BY <1>3
  <2>2. 0 \in 0..MaxListing
    BY HoursAreNumbers
  <2> QED BY <2>1, <2>2 DEF InOrder
<1>5. \A s \in Spaces, p \in Platforms, l \in Listings : ~Knows(s, p, l)
  BY <1>1, <1>2, NoneIsNoListing DEF Knows
<1>6. OwnListings
  BY <1>5 DEF OwnListings
<1>7. RowsCurrent
  BY <1>1, <1>2 DEF RowsCurrent
<1>8. HandsRight
  BY <1>1 DEF HandsRight, Hands
<1>9. NoStrayListing /\ StoredIsUp
  BY <1>2, <1>3 DEF NoStrayListing, StoredIsUp, Up
<1> QED BY <1>4, <1>6, <1>7, <1>8, <1>9 DEF LInv

\* Steps that change no id, listing or run.
LEMMA Still ==
  ASSUME MTypes, LInv, UNCHANGED <<listing, sync, adrift>>,
         \A s \in Spaces : space'[s].exists = space[s].exists /\ space'[s].ids = space[s].ids
  PROVE  LInv'
<1>1. /\ (Running' <=> Running) /\ (Hands' <=> Hands) /\ Todo' = Todo
      /\ (Publishing' <=> Publishing) /\ (Removing' <=> Removing)
      /\ (At("clear")' <=> At("clear"))
  BY DEF Running, Hands, Publishing, Removing, At, Todo
<1>2. Todo \subseteq Spaces \/ ~Running
  BY PartsOfTypes, Runs
<1>3. Hands => sync.space \in Spaces
  BY PartsOfTypes, Runs
<1>4. OwnListings'
  BY <1>1, OwnKept DEF LInv, Knows
<1>5. InOrder'
  BY DEF LInv, InOrder
<1>6. RowsCurrent'
  BY <1>1, <1>2, <1>3 DEF LInv, RowsCurrent, Current
<1>7. HandsRight'
  BY <1>1 DEF LInv, HandsRight, Up
<1>8. NoStrayListing' /\ StoredIsUp'
  BY DEF LInv, NoStrayListing, StoredIsUp
<1> QED BY <1>4, <1>5, <1>6, <1>7, <1>8 DEF LInv

LEMMA LRemove ==
  ASSUME MTypes, LInv, NEW s \in Spaces, remove(s)
  PROVE  LInv'
<1>1. /\ (Running' <=> Running) /\ (Hands' <=> Hands) /\ Todo' = Todo
      /\ (Publishing' <=> Publishing) /\ (Removing' <=> Removing)
      /\ (At("clear")' <=> At("clear"))
      /\ listing' = listing /\ sync' = sync
  BY DEF remove, Running, Hands, Publishing, Removing, At, Todo
<1>2. /\ Running => Todo \subseteq Spaces
      /\ Hands => sync.space \in Spaces
  BY PartsOfTypes, Runs
<1>3. /\ ~space'[s].exists /\ space'[s].ids = NoIds
      /\ \A u \in Spaces \ {s} : space'[u] = space[u]
  BY DEF remove, MTypes
<1>4. \A p \in Platforms, l \in Listings \cup {None} :
        <<p, l>> \in adrift' <=> <<p, l>> \in adrift \/ (l # None /\ space[s].ids[p] = l)
  <2>1. adrift' = adrift \cup Pairs(space[s].ids)
    BY DEF remove, Stored
  <2> QED BY <2>1, PairsAre
<1>5. OwnListings'
  BY <1>1, <1>2, <1>3, NoIdsAre, NoneIsNoListing, OwnKept DEF LInv, Knows
<1>6. InOrder'
  BY <1>1 DEF LInv, InOrder
<1>7. ASSUME NEW u \in Spaces, NEW ids \in Ids, Current(u, ids) PROVE Current(u, ids)'
  BY <1>3, <1>4, <1>7, SpacesAre, PartsOfTypes DEF Current, Ids
<1>8. RowsCurrent'
  <2>1. Running => \A u \in Todo : sync.rows[u] \in Ids
    BY PartsOfTypes, Runs
  <2>2. Hands => sync.was \in Ids
    BY PartsOfTypes, Runs
  <2>3. \A u \in Spaces : ~space'[u].exists => space'[u].ids = NoIds
    BY <1>3 DEF LInv, RowsCurrent
  <2>4. Running' => \A u \in Todo' : Current(u, sync.rows[u])'
    BY <1>1, <1>2, <1>7, <2>1 DEF LInv, RowsCurrent
  <2>5. Hands' => sync'.space \notin Todo' /\ Current(sync.space, sync.was)'
    BY <1>1, <1>2, <1>7, <2>2 DEF LInv, RowsCurrent
  <2> QED BY <1>1, <2>3, <2>4, <2>5 DEF RowsCurrent
<1>9. HandsRight'
  BY <1>1 DEF LInv, HandsRight, Up, remove
<1>10. NoStrayListing'
  BY <1>1, <1>3, <1>4, NoneIsNoListing DEF LInv, NoStrayListing
<1>11. StoredIsUp'
  BY <1>1, <1>3, NoIdsAre DEF LInv, StoredIsUp, remove
<1> QED BY <1>5, <1>6, <1>8, <1>9, <1>10, <1>11 DEF LInv

\* The rows are read, or the run ends.
LEMMA LRead ==
  ASSUME MTypes, LInv, ~Hands, ~Hands', UNCHANGED <<space, listing, adrift>>,
         Running' => Todo' \subseteq Spaces /\ \A s \in Todo' : sync'.rows[s] = space[s].ids
  PROVE  LInv'
<1>1. OwnListings'
  BY OwnKept DEF LInv, Knows
<1>2. InOrder'
  BY DEF LInv, InOrder
<1>3. RowsCurrent'
  BY NoIdsAre DEF LInv, RowsCurrent, Current
<1>4. HandsRight'
  BY DEF HandsRight, Hands
<1>5. NoStrayListing' /\ StoredIsUp'
  BY DEF LInv, NoStrayListing, StoredIsUp, Hands, Publishing, Removing, At
<1> QED BY <1>1, <1>2, <1>3, <1>4, <1>5 DEF LInv

LEMMA LTakeUp ==
  ASSUME MTypes, LInv, NEW s \in Spaces, NEW op \in {"push", "delete"},
         NEW offers \in SUBSET Hours, Running, ~Hands, TakeUp(s, op, offers)
  PROVE  LInv'
<1>1. /\ sync'.op = op /\ sync'.space = s /\ sync'.was = sync.rows[s]
      /\ sync'.ids = sync.rows[s] /\ sync'.platform = First
      /\ s \in Todo /\ Todo' = Todo \ {s} /\ \A u \in Todo' : sync'.rows[u] = sync.rows[u]
  BY PartsOfTypes, TakesUp
<1>2. UNCHANGED <<space, listing, adrift>>
  BY DEF TakeUp, history
<1>3. sync.rows[s] \in Ids /\ Todo \subseteq Spaces
  BY <1>1, PartsOfTypes, Runs
<1>4. OwnListings'
  <2>1. \A p \in Platforms, l \in Listings, u \in Spaces : Knows(u, p, l)' => Knows(u, p, l)
    BY <1>1, <1>2 DEF Knows
  <2> QED BY <1>2, <2>1, OwnKept DEF LInv
<1>5. InOrder'
  BY <1>2 DEF LInv, InOrder
<1>6. RowsCurrent'
  BY <1>1, <1>2, <1>3 DEF LInv, RowsCurrent, Current
<1>7. \A p \in Platforms : sync.rows[s][p] # None =>
        Up(p, sync.rows[s][p]) \/ <<p, sync.rows[s][p]>> \in adrift
  <2>1. Current(s, sync.rows[s])
    BY <1>1 DEF LInv, RowsCurrent
  <2>2. ~(sync.op \in {"delete", "clear"})
    BY DEF Hands, Removing, At
  <2> QED BY <2>1, <2>2 DEF LInv, StoredIsUp, Current, Up
<1>8. HandsRight'
  BY <1>1, <1>2, <1>7 DEF HandsRight, Publishing, Removing, At, Up
<1>9. NoStrayListing' /\ StoredIsUp'
  BY <1>1, <1>2 DEF LInv, NoStrayListing, StoredIsUp, Hands, Publishing, Removing, At
<1> QED BY <1>4, <1>5, <1>6, <1>8, <1>9 DEF LInv

\* A run lets go of the space at hand, and records what is forgotten with it.
LEMMA LLetGo ==
  ASSUME MTypes, LInv, Hands, ~Hands', space' = space, InOrder',
         Running' => Todo' = Todo /\ \A s \in Todo : sync'.rows[s] = sync.rows[s],
         adrift \cup Dropped \subseteq adrift',
         \A p \in Platforms, l \in Listings : listing[p][l] # New => listing'[p][l] # New,
         \A p \in Platforms, l \in Listings : Up(p, l)' =>
           Up(p, l) \/ (Publishing /\ (<<p, l>> \in adrift' \/ sync.was[p] = l)),
         \A p \in Platforms, l \in Listings : Up(p, l) /\ ~Up(p, l)' =>
           Removing /\ sync.ids[p] = l
  PROVE  LInv'
<1>1. /\ Running /\ Todo \subseteq Spaces /\ sync.space \in Spaces
      /\ sync.was \in Ids /\ sync.ids \in Ids
  BY PartsOfTypes, Runs
<1>2. OwnListings'
  <2>1. \A p \in Platforms, l \in Listings, s \in Spaces : Knows(s, p, l)' => Knows(s, p, l)
    BY <1>1 DEF Knows
  <2> QED BY <2>1, OwnKept DEF LInv
<1>3. RowsCurrent'
  BY <1>1 DEF LInv, RowsCurrent, Current
<1>4. HandsRight'
  BY DEF HandsRight, Hands
<1>5. NoStrayListing'
  <2> SUFFICES ASSUME NEW p \in Platforms, NEW l \in Listings, Up(p, l)', <<p, l>> \notin adrift'
               PROVE  \E s \in Spaces : space[s].ids[p] = l
    BY DEF NoStrayListing, Up
  <2>1. CASE Publishing /\ sync.was[p] = l
    <3>1. Current(sync.space, sync.was)
      BY <2>1 DEF LInv, RowsCurrent, Hands
    <3>2. l # None /\ <<p, l>> \notin adrift
      BY NoneIsNoListing
    <3> QED BY <1>1, <2>1, <3>1, <3>2 DEF Current
  <2>2. CASE ~(Publishing /\ sync.was[p] = l)
    <3>1. Up(p, l) /\ <<p, l>> \notin adrift /\ <<p, l>> \notin Dropped
      BY <2>2
    <3>2. ~(Publishing /\ sync.ids[p] = l)
      BY <2>2, <3>1, DroppedAre, NoneIsNoListing, PartsOfTypes
    <3> QED BY <3>1, <3>2 DEF LInv, NoStrayListing, Up, Publishing, At
  <2> QED BY <2>1, <2>2
<1>6. StoredIsUp'
  <2> SUFFICES ASSUME NEW s \in Spaces, NEW p \in Platforms, NEW l \in Listings,
                      space[s].ids[p] = l, <<p, l>> \notin adrift'
               PROVE  Up(p, l)'
    BY SpacesAre, PartsOfTypes DEF StoredIsUp, Up
  <2>1. <<p, l>> \notin adrift /\ <<p, l>> \notin Dropped /\ l # None
    BY NoneIsNoListing
  <2>2. Up(p, l) \/ (Removing /\ sync.ids[p] = l)
    BY <2>1 DEF LInv, StoredIsUp, Up, Removing, At
  <2>3. ASSUME ~Up(p, l)' PROVE Removing /\ sync.ids[p] = l
    BY <2>2, <2>3
  <2>4. Removing /\ sync.ids[p] = l => Up(p, l)'
    BY <2>1, DroppedAre, PartsOfTypes DEF Up
  <2> QED BY <2>3, <2>4
<1> QED BY <1>2, <1>3, <1>4, <1>5, <1>6 DEF LInv

\* A listing that is shown was put up for the space at hand, or is new.
LEMMA Shows ==
  ASSUME MTypes, LInv, At("push"), NEW l \in Listings, Show(l)
  PROVE  /\ listing'[sync.platform][l].state = "up" /\ listing'[sync.platform][l] # New
         /\ \A p \in Platforms, k \in Listings :
              p # sync.platform \/ k # l => listing'[p][k] = listing[p][k]
         /\ \A u \in Spaces : Knows(u, sync.platform, l) => u = sync.space
         /\ Id = None \/ l = Id
         /\ InOrder'
<1> DEFINE p == sync.platform
<1>1. /\ Hands /\ Works /\ Showing /\ p \in Platforms /\ Id \in Listings \cup {None}
      /\ sync.space \in Spaces
  BY PartsOfTypes, Runs DEF Hands, Publishing
<1> DEFINE up == [state |-> "up", offers |-> sync.offers]
<1>2. up \in Listing /\ up # New /\ up.state = "up" /\ Remote(l, up)
  BY <1>1, MOffers DEF Listing, New, Show
<1>3. /\ listing'[p][l] = up
      /\ \A q \in Platforms, k \in Listings :
            q # p \/ k # l => listing'[q][k] = listing[q][k]
  BY <1>1, <1>2, Remotes
<1>4. PICK n \in 0..MaxListing : {k \in Listings : listing[p][k] # New} = 1..n
  BY <1>1 DEF LInv, InOrder
<1>5. NextId(p) = n + 1
  <2>1. n \in Int /\ 1 \in Int /\ 0 <= n
    BY HoursAreNumbers
  <2>2. Cardinality(1..n) = n
    BY <2>1, FS_Interval
  <2>3. Cardinality({k \in Listings : listing[p][k] # New}) = n
    BY <1>4, <2>2, Zenon
  <2>4. NextId(p) = 1 + n
    BY <2>3, Zenon DEF NextId
  <2> QED BY <2>1, <2>4
<1>6. CASE Id = None
  <2>1. l = n + 1 /\ l \notin 1..n
    BY <1>4, <1>5, <1>6, HoursAreNumbers DEF Show
  <2>2. listing[p][l] = New
    BY <1>4, <2>1
  <2>3. \A u \in Spaces : ~Knows(u, p, l)
    BY <1>1, <2>2 DEF LInv, OwnListings
  <2>4. InOrder'
    <3>1. l \in 1..MaxListing
      BY DEF Listings
    <3>2. {k \in Listings : listing'[p][k] # New} = 1..l
      <4>1. {k \in Listings : listing'[p][k] # New} = (1..n) \cup {l}
        BY <1>1, <1>2, <1>3, <1>4
      <4>2. (1..n) \cup {l} = 1..l
        BY <2>1, <3>1, HoursAreNumbers
      <4> QED BY <4>1, <4>2
    <3>3. \A q \in Platforms \ {p} :
            {k \in Listings : listing'[q][k] # New} = {k \in Listings : listing[q][k] # New}
      BY <1>1, <1>3
    <3>4. l \in 0..MaxListing
      BY <3>1
    <3>5. ASSUME NEW q \in Platforms
          PROVE  \E m \in 0..MaxListing : {k \in Listings : listing'[q][k] # New} = 1..m
      <4>1. CASE q = p BY <3>2, <3>4, <4>1
      <4>2. CASE q # p BY <3>3, <4>2 DEF LInv, InOrder
      <4> QED BY <4>1, <4>2
    <3> QED BY <3>5 DEF InOrder
  <2> QED BY <1>2, <1>3, <1>6, <2>3, <2>4
<1>7. CASE Id # None
  <2>1. l = Id /\ listing[p][l].state = "up"
    BY <1>7 DEF Show, Shown
  <2>2. Knows(sync.space, p, l)
    BY <1>1, <2>1 DEF Knows, Id
  <2>3. listing[p][l] # New /\ \A u \in Spaces : Knows(u, p, l) => u = sync.space
    BY <1>1, <2>2 DEF LInv, OwnListings
  <2>4. InOrder'
    BY <1>1, <1>2, <1>3, <2>3, OrderKept DEF LInv
  <2> QED BY <1>2, <1>3, <2>1, <2>3, <2>4
<1> QED BY <1>6, <1>7

LEMMA LRefused ==
  ASSUME MTypes, LInv, upsertRefused
  PROVE  LInv'
<1>1. /\ Publishing /\ Hands /\ Running /\ Works /\ Todo \subseteq Spaces
      /\ sync.platform \in Platforms /\ Id \in Listings \cup {None}
      /\ sync.ids \in Ids /\ sync.space \in Spaces
  BY PartsOfTypes, Runs DEF upsertRefused, Hands, Publishing
<1>2. /\ sync' \in AtHand /\ sync'.rows = sync.rows /\ sync'.space = sync.space
      /\ sync'.was = sync.was /\ sync'.op \in {"push", "store"}
      /\ \A p \in Platforms : sync'.ids[p] = sync.ids[p]
  BY <1>1, Answers DEF upsertRefused, At, Id
<1>3. UNCHANGED <<space, listing, adrift>> /\ Todo' = Todo
  BY <1>2 DEF upsertRefused, history, Todo
<1>4. Publishing' /\ ~Removing' /\ Hands'
  BY <1>2 DEF Publishing, Removing, Hands, At
<1>5. OwnListings'
  <2>1. \A p \in Platforms, l \in Listings, s \in Spaces : Knows(s, p, l)' => Knows(s, p, l)
    BY <1>1, <1>2, <1>3 DEF Knows
  <2> QED BY <1>3, <2>1, OwnKept DEF LInv
<1>6. InOrder'
  BY <1>3 DEF LInv, InOrder
<1>7. RowsCurrent'
  BY <1>1, <1>2, <1>3 DEF LInv, RowsCurrent, Current
<1>8. HandsRight'
  BY <1>1, <1>2, <1>3, <1>4 DEF LInv, HandsRight, Up
<1>9. NoStrayListing' /\ StoredIsUp'
  BY <1>1, <1>2, <1>3 DEF LInv, NoStrayListing, StoredIsUp, Publishing, At
<1> QED BY <1>5, <1>6, <1>7, <1>8, <1>9 DEF LInv

LEMMA LUpsert ==
  ASSUME MTypes, LInv, NEW l \in Listings, upsert(l)
  PROVE  LInv'
<1> DEFINE p == sync.platform
<1>1. /\ At("push") /\ Publishing /\ Hands /\ Running /\ Works /\ Todo \subseteq Spaces
      /\ p \in Platforms /\ Id \in Listings \cup {None}
      /\ sync.ids \in Ids /\ sync.was \in Ids /\ sync.space \in Spaces
  BY PartsOfTypes, Runs DEF upsert, Hands, Publishing
<1>2. /\ sync' \in AtHand /\ sync'.rows = sync.rows /\ sync'.space = sync.space
      /\ sync'.was = sync.was /\ sync'.op \in {"push", "store"}
      /\ sync'.ids[p] = l /\ \A q \in Platforms \ {p} : sync'.ids[q] = sync.ids[q]
  BY <1>1, Answers DEF upsert, At
<1>3. UNCHANGED <<space, adrift>> /\ Todo' = Todo
  BY <1>2 DEF upsert, history, Todo
<1>4. Publishing' /\ ~Removing' /\ Hands' /\ Running'
  BY <1>2, PartsOfTypes, Runs DEF Publishing, Removing, Hands, At, Running, Idle
<1>5. /\ listing'[p][l].state = "up" /\ listing'[p][l] # New
      /\ \A q \in Platforms, k \in Listings :
            q # p \/ k # l => listing'[q][k] = listing[q][k]
      /\ \A u \in Spaces : Knows(u, p, l) => u = sync.space
      /\ Id = None \/ l = Id
      /\ InOrder'
  BY <1>1, Shows DEF upsert
<1>6. OwnListings'
  <2>1. \A q \in Platforms, k \in Listings, u \in Spaces :
          Knows(u, q, k)' => Knows(u, q, k) \/ (u = sync.space /\ q = p /\ k = l)
    BY <1>1, <1>2, <1>3 DEF Knows
  <2> QED BY <1>5, <2>1 DEF LInv, OwnListings
<1>7. RowsCurrent'
  BY <1>1, <1>2, <1>3 DEF LInv, RowsCurrent, Current
<1>8. HandsRight'
  <2> SUFFICES ASSUME NEW q \in Platforms
               PROVE  /\ sync'.was[q] # None => sync'.ids[q] = sync'.was[q]
                      /\ sync'.ids[q] # None =>
                           \/ listing'[q][sync'.ids[q]].state = "up"
                           \/ <<q, sync'.ids[q]>> \in adrift'
    BY <1>4 DEF HandsRight, Up
  <2>1. CASE q = p
    <3>1. sync.was[p] # None => sync.was[p] = l
      BY <1>1, <1>5 DEF LInv, HandsRight, Id
    <3> QED BY <1>2, <1>5, <2>1, <3>1 DEF Up
  <2>2. CASE q # p
    <3>1. sync'.ids[q] = sync.ids[q] /\ sync.ids[q] \in Listings \cup {None}
      BY <1>1, <1>2, <2>2 DEF Ids
    <3> QED BY <1>1, <1>2, <1>3, <1>5, <2>2, <3>1 DEF LInv, HandsRight, Up
  <2> QED BY <2>1, <2>2
<1>9. NoStrayListing'
  <2> SUFFICES ASSUME NEW q \in Platforms, NEW k \in Listings, listing'[q][k].state = "up",
                      <<q, k>> \notin adrift
               PROVE  (\E s \in Spaces : space[s].ids[q] = k) \/ sync'.ids[q] = k
    BY <1>2, <1>3 DEF NoStrayListing
  <2>1. CASE q = p /\ k = l
    BY <1>2, <2>1
  <2>2. CASE q # p \/ k # l
    <3>1. (\E s \in Spaces : space[s].ids[q] = k) \/ sync.ids[q] = k
      BY <1>5, <2>2 DEF LInv, NoStrayListing
    <3>2. q = p => sync.ids[q] # k
      BY <1>5, <2>2, NoneIsNoListing DEF Id
    <3> QED BY <1>2, <3>1, <3>2
  <2> QED BY <2>1, <2>2
<1>10. StoredIsUp'
  <2> SUFFICES ASSUME NEW s \in Spaces, NEW q \in Platforms, NEW k \in Listings,
                      space[s].ids[q] = k, <<q, k>> \notin adrift
               PROVE  listing'[q][k].state = "up"
    BY <1>3, SpacesAre, PartsOfTypes DEF StoredIsUp
  <2>1. listing[q][k].state = "up"
    BY <1>1, NoneIsNoListing DEF LInv, StoredIsUp, At
  <2> QED BY <1>5, <2>1
<1> QED BY <1>5, <1>6, <1>7, <1>8, <1>9, <1>10 DEF LInv

\* As LUpsert, but the id of a listing just put up is not known.
LEMMA LUpsertUnread ==
  ASSUME MTypes, LInv, NEW l \in Listings, upsertUnread(l)
  PROVE  LInv'
<1> DEFINE p == sync.platform
<1>1. /\ At("push") /\ Publishing /\ Hands /\ Running /\ Works /\ Todo \subseteq Spaces
      /\ p \in Platforms /\ Id \in Listings \cup {None}
      /\ sync.ids \in Ids /\ sync.was \in Ids /\ sync.space \in Spaces
  BY PartsOfTypes, Runs DEF upsertUnread, Hands, Publishing
<1>2. /\ sync' \in AtHand /\ sync'.rows = sync.rows /\ sync'.space = sync.space
      /\ sync'.was = sync.was /\ sync'.op \in {"push", "store"}
      /\ \A q \in Platforms : sync'.ids[q] = sync.ids[q]
  BY <1>1, Answers DEF upsertUnread, At, Id
<1>3. space' = space /\ Todo' = Todo
  BY <1>2 DEF upsertUnread, Todo
<1>4. Publishing' /\ ~Removing' /\ Hands' /\ Running'
  BY <1>2, PartsOfTypes, Runs DEF Publishing, Removing, Hands, At, Running, Idle
<1>5. /\ listing'[p][l].state = "up" /\ listing'[p][l] # New
      /\ \A q \in Platforms, k \in Listings :
            q # p \/ k # l => listing'[q][k] = listing[q][k]
      /\ Id = None \/ l = Id
      /\ InOrder'
  BY <1>1, Shows DEF upsertUnread
<1>6. adrift \subseteq adrift' /\ (<<p, l>> \in adrift' \/ l = Id)
  BY <1>5 DEF upsertUnread
<1>7. \A q \in Platforms, k \in Listings :
        /\ Up(q, k)' => Up(q, k) \/ (q = p /\ k = l)
        /\ Up(q, k) => Up(q, k)'
        /\ listing[q][k] # New => listing'[q][k] # New
  BY <1>5 DEF Up
<1>8. OwnListings'
  <2>1. \A q \in Platforms, k \in Listings, s \in Spaces : Knows(s, q, k)' => Knows(s, q, k)
    BY <1>1, <1>2, <1>3 DEF Knows
  <2> QED BY <1>7, <2>1, OwnKept DEF LInv
<1>9. RowsCurrent'
  BY <1>1, <1>2, <1>3, <1>6 DEF LInv, RowsCurrent, Current
<1>10. HandsRight'
  <2> SUFFICES ASSUME NEW q \in Platforms
               PROVE  /\ sync.was[q] # None => sync.ids[q] = sync.was[q]
                      /\ sync.ids[q] # None =>
                           \/ listing'[q][sync.ids[q]].state = "up"
                           \/ <<q, sync.ids[q]>> \in adrift'
    BY <1>2, <1>4 DEF HandsRight, Up
  <2>1. sync.ids[q] \in Listings \cup {None}
    BY <1>1 DEF Ids
  <2> QED BY <1>1, <1>6, <1>7, <2>1 DEF LInv, HandsRight, Up
<1>11. NoStrayListing'
  <2> SUFFICES ASSUME NEW q \in Platforms, NEW k \in Listings, Up(q, k)',
                      <<q, k>> \notin adrift'
               PROVE  (\E s \in Spaces : space[s].ids[q] = k) \/ sync.ids[q] = k
    BY <1>2, <1>3 DEF NoStrayListing, Up
  <2>1. CASE q = p /\ k = l
    BY <1>6, <2>1 DEF Id
  <2>2. CASE ~(q = p /\ k = l)
    BY <1>6, <1>7, <2>2 DEF LInv, NoStrayListing, Up
  <2> QED BY <2>1, <2>2
<1>12. StoredIsUp'
  <2> SUFFICES ASSUME NEW s \in Spaces, NEW q \in Platforms, NEW k \in Listings,
                      space[s].ids[q] = k, <<q, k>> \notin adrift'
               PROVE  Up(q, k)'
    BY <1>3, SpacesAre, PartsOfTypes DEF StoredIsUp, Up
  <2>1. Up(q, k)
    BY <1>1, <1>6, NoneIsNoListing DEF LInv, StoredIsUp, At, Up
  <2> QED BY <1>7, <2>1
<1> QED BY <1>5, <1>8, <1>9, <1>10, <1>11, <1>12 DEF LInv

LEMMA LUpsertLost ==
  ASSUME MTypes, LInv, upsertLost
  PROVE  LInv'
<1> DEFINE p == sync.platform
<1>1. /\ At("push") /\ Publishing /\ Hands /\ Running /\ Works /\ p \in Platforms
  BY PartsOfTypes, Runs DEF upsertLost, Hands, Publishing
<1>2. sync'.rows = sync.rows /\ ~Hands' /\ space' = space
  BY <1>1, LoopsOn DEF upsertLost
<1>3. Todo' = Todo
  BY <1>2 DEF Todo
<1>4. CASE UNCHANGED listing /\ Forget
  <2>1. InOrder'
    BY <1>4 DEF LInv, InOrder
  <2>2. adrift \cup Dropped \subseteq adrift'
    BY <1>4 DEF Forget
  <2>3. \A q \in Platforms, k \in Listings : Up(q, k)' <=> Up(q, k)
    BY <1>4 DEF Up
  <2> QED BY <1>1, <1>2, <1>3, <1>4, <2>1, <2>2, <2>3, LLetGo
<1>5. ASSUME NEW l \in Listings, Show(l),
             adrift' = adrift \cup Dropped \cup ({<<p, l>>} \ Pairs(sync.was))
      PROVE  LInv'
  <2>1. /\ listing'[p][l].state = "up" /\ listing'[p][l] # New
        /\ \A q \in Platforms, k \in Listings :
              q # p \/ k # l => listing'[q][k] = listing[q][k]
        /\ InOrder'
    BY <1>1, <1>5, Shows
  <2>2. adrift \cup Dropped \subseteq adrift'
    BY <1>5
  <2>3. <<p, l>> \in adrift' \/ sync.was[p] = l
    BY <1>1, <1>5, PairsAre
  <2>4. \A q \in Platforms, k \in Listings :
          /\ Up(q, k)' => Up(q, k) \/ (q = p /\ k = l)
          /\ Up(q, k) => Up(q, k)'
          /\ listing[q][k] # New => listing'[q][k] # New
    BY <2>1 DEF Up
  <2>5. \A q \in Platforms, k \in Listings :
          Up(q, k)' => Up(q, k) \/ <<q, k>> \in adrift' \/ sync.was[q] = k
    BY <2>3, <2>4
  <2> QED BY <1>1, <1>2, <1>3, <2>1, <2>2, <2>4, <2>5, LLetGo
<1> QED BY <1>4, <1>5 DEF upsertLost

\* The update of the row, or of none.
LEMMA LWritten ==
  ASSUME MTypes, LInv, Hands, ~Hands', NEW ids \in Ids, Writes(ids),
         NEW op \in {"list", "unlist"}, Loops(op),
         \A p \in Platforms : ids[p] # None => ids[p] = sync.ids[p],
         \A p \in Platforms, l \in Listings :
           /\ Up(p, l) /\ <<p, l>> \notin adrift /\ (sync.was[p] = l \/ sync.ids[p] = l)
           => ids[p] = l,
         \A p \in Platforms : ids[p] # None => Up(p, ids[p]) \/ <<p, ids[p]>> \in adrift
  PROVE  LInv'
<1> DEFINE s == sync.space
<1>1. /\ Running /\ Works /\ Todo \subseteq Spaces /\ s \in Spaces
      /\ sync.was \in Ids /\ sync.ids \in Ids
  BY PartsOfTypes, Runs
<1>2. sync'.rows = sync.rows /\ Todo' = Todo /\ Running'
  BY <1>1, LoopsOn DEF Todo
<1>3. CASE ~space[s].exists
  <2>1. space' = space /\ listing' = listing /\ Forget
    BY <1>3 DEF Writes
  <2>2. InOrder'
    BY <2>1 DEF LInv, InOrder
  <2>3. \A p \in Platforms, l \in Listings : Up(p, l)' <=> Up(p, l)
    BY <2>1 DEF Up
  <2>4. adrift \cup Dropped \subseteq adrift'
    BY <2>1 DEF Forget
  <2> QED BY <1>2, <2>1, <2>2, <2>3, <2>4, LLetGo
<1>4. CASE space[s].exists
  <2>1. /\ UNCHANGED <<listing, adrift>>
        /\ space'[s].ids = ids /\ space'[s].exists
        /\ \A u \in Spaces \ {s} : space'[u] = space[u]
    BY <1>1, <1>4 DEF Writes, MTypes, Space
  <2>2. space[s].ids = sync.was /\ s \notin Todo
    BY <1>4 DEF LInv, RowsCurrent, Current
  <2>3. OwnListings'
    <3>1. \A p \in Platforms, l \in Listings, u \in Spaces : Knows(u, p, l)' => Knows(u, p, l)
      BY <1>1, <1>2, <2>1, NoneIsNoListing DEF Knows
    <3> QED BY <2>1, <3>1, OwnKept DEF LInv
  <2>4. InOrder'
    BY <2>1 DEF LInv, InOrder
  <2>5. RowsCurrent'
    BY <1>1, <1>2, <2>1, <2>2 DEF LInv, RowsCurrent, Current
  <2>6. HandsRight'
    BY DEF HandsRight, Hands
  <2>7. NoStrayListing'
    <3> SUFFICES ASSUME NEW p \in Platforms, NEW l \in Listings, Up(p, l), <<p, l>> \notin adrift
                 PROVE  \E u \in Spaces : space'[u].ids[p] = l
      BY <2>1 DEF NoStrayListing, Up
    <3>1. (\E u \in Spaces : space[u].ids[p] = l) \/ sync.ids[p] = l
      BY DEF LInv, NoStrayListing, Up
    <3> QED BY <1>1, <2>1, <2>2, <3>1
  <2>8. StoredIsUp'
    <3> SUFFICES ASSUME NEW u \in Spaces, NEW p \in Platforms, NEW l \in Listings,
                        space'[u].ids[p] = l, <<p, l>> \notin adrift
                 PROVE  Up(p, l)
      <4>1. \A u \in Spaces, p \in Platforms : space'[u].ids[p] \in Listings \cup {None}
        BY <2>1, SpacesAre, PartsOfTypes DEF Ids
      <4> QED BY <2>1, <4>1 DEF StoredIsUp, Up
    <3>1. CASE u = s
      BY <2>1, <3>1, NoneIsNoListing
    <3>2. CASE u # s
      <4>1. space[u].ids[p] = l
        BY <2>1, <3>2
      <4>2. sync.ids[p] # l \/ Publishing
        <5>1. Knows(u, p, l) /\ (sync.ids[p] = l => Knows(s, p, l))
          BY <1>1, <4>1 DEF Knows
        <5> QED BY <1>1, <3>2, <5>1 DEF LInv, OwnListings
      <4> QED BY <4>1, <4>2, NoneIsNoListing
              DEF LInv, StoredIsUp, Up, Publishing, At
    <3> QED BY <3>1, <3>2
  <2> QED BY <2>3, <2>4, <2>5, <2>6, <2>7, <2>8 DEF LInv
<1> QED BY <1>3, <1>4

LEMMA LStore ==
  ASSUME MTypes, LInv, Store
  PROVE  LInv'
<1>1. /\ Publishing /\ Hands /\ Running /\ Works /\ sync.ids \in Ids /\ sync.was \in Ids
      /\ Writes(sync.ids) /\ Loops("list")
  BY PartsOfTypes, Runs DEF Store, Hands, Publishing
<1>2. ~Hands'
  BY <1>1, LoopsOn
<1>3. \A p \in Platforms :
        /\ sync.was[p] # None => sync.ids[p] = sync.was[p]
        /\ sync.ids[p] # None => Up(p, sync.ids[p]) \/ <<p, sync.ids[p]>> \in adrift
  BY <1>1 DEF LInv, HandsRight
<1> QED BY <1>1, <1>2, <1>3, LWritten, NoneIsNoListing

LEMMA LClear ==
  ASSUME MTypes, LInv, Clear
  PROVE  LInv'
<1>1. /\ At("clear") /\ Removing /\ Hands /\ Running /\ Works
      /\ Writes(NoIds) /\ Loops("unlist")
  BY PartsOfTypes, Runs DEF Clear, Hands, Removing
<1>2. ~Hands'
  BY <1>1, LoopsOn
<1>3. \A p \in Platforms :
        /\ sync.ids[p] = sync.was[p]
        /\ sync.ids[p] # None => ~Up(p, sync.ids[p]) \/ <<p, sync.ids[p]>> \in adrift
  BY <1>1 DEF LInv, HandsRight
<1>4. \A p \in Platforms, l \in Listings :
        ~(/\ Up(p, l) /\ <<p, l>> \notin adrift /\ (sync.was[p] = l \/ sync.ids[p] = l))
  BY <1>3, NoneIsNoListing
<1>5. NoIds \in Ids /\ \A p \in Platforms : NoIds[p] = None
  BY NoIdsAre
<1> HIDE DEF NoIds
<1> QED BY <1>1, <1>2, <1>4, <1>5, LWritten

\* A listing of the space at hand is taken down, or taken for it.
LEMMA LTakesDown ==
  ASSUME MTypes, LInv, At("delete"), Answered(Id, "clear"), space' = space,
         adrift \subseteq adrift',
         \A p \in Platforms, l \in Listings :
           \/ listing'[p][l] = listing[p][l]
           \/ p = sync.platform /\ l = Id /\ ~Up(p, l)' /\ listing'[p][l] # New,
         Id # None => \/ listing'[sync.platform][Id].state # "up"
                      \/ <<sync.platform, Id>> \in adrift'
  PROVE  LInv'
<1> DEFINE p == sync.platform
<1>1. /\ Removing /\ ~Publishing /\ Hands /\ Running /\ Works /\ Todo \subseteq Spaces
      /\ p \in Platforms /\ Id \in Listings \cup {None}
      /\ sync.ids \in Ids /\ sync.was \in Ids /\ sync.space \in Spaces
  BY PartsOfTypes, Runs DEF Hands, Removing, Publishing, At
<1>2. /\ sync' \in AtHand /\ sync'.rows = sync.rows /\ sync'.space = sync.space
      /\ sync'.was = sync.was /\ \A q \in Platforms : sync'.ids[q] = sync.ids[q]
      /\ p = First => sync'.op = "delete" /\ sync'.platform = Second
      /\ p # First => sync'.op = "clear"
  BY <1>1, Answers DEF At, Id
<1>3. Removing' /\ ~Publishing' /\ Hands' /\ Running' /\ Todo' = Todo
  BY <1>2, Calls DEF Publishing, Removing, Hands, At, Running, Idle, Todo
<1>4. \A q \in Platforms, k \in Listings :
        /\ Up(q, k)' => Up(q, k)
        /\ Up(q, k) => Up(q, k)' \/ (q = p /\ k = Id)
        /\ listing[q][k] # New => listing'[q][k] # New
  BY DEF Up
<1>5. OwnListings'
  <2>1. \A q \in Platforms, k \in Listings, s \in Spaces : Knows(s, q, k)' => Knows(s, q, k)
    BY <1>1, <1>2, <1>3 DEF Knows
  <2> QED BY <1>4, <2>1, OwnKept DEF LInv
<1>6. InOrder'
  <2>1. ASSUME Id # None PROVE Knows(sync.space, p, Id)
    BY <1>1 DEF Knows, Id
  <2>2. Id # None => listing[p][Id] # New
    BY <1>1, <2>1 DEF LInv, OwnListings
  <2>3. \A q \in Platforms, k \in Listings : listing'[q][k] # New <=> listing[q][k] # New
    BY <1>4, <2>2, NoneIsNoListing
  <2> QED BY <2>3, OrderKept DEF LInv
<1>7. RowsCurrent'
  BY <1>1, <1>2, <1>3 DEF LInv, RowsCurrent, Current
<1>8. HandsRight'
  <2> SUFFICES ASSUME NEW q \in Platforms, NEW k, k = sync.ids[q], k # None,
                      At("clear")' \/ (q # sync'.platform /\ sync'.platform # First)
               PROVE  listing'[q][k].state # "up" \/ <<q, k>> \in adrift'
    BY <1>1, <1>2, <1>3 DEF LInv, HandsRight, Up
  <2>1. CASE q = p
    BY <2>1 DEF Id
  <2>2. CASE q # p
    <3>1. p # First
      BY <1>1, <1>2, <2>2, Calls DEF At
    <3>2. k \in Listings
      BY <1>1 DEF Ids
    <3>3. ~Up(q, k) \/ <<q, k>> \in adrift
      BY <1>1, <2>2, <3>1 DEF LInv, HandsRight
    <3> QED BY <1>4, <3>2, <3>3 DEF Up
  <2> QED BY <2>1, <2>2
<1>9. NoStrayListing'
  <2> SUFFICES ASSUME NEW q \in Platforms, NEW k \in Listings, Up(q, k)', <<q, k>> \notin adrift'
               PROVE  \E s \in Spaces : space[s].ids[q] = k
    BY DEF NoStrayListing, Up
  <2>1. Up(q, k) /\ <<q, k>> \notin adrift
    BY <1>4
  <2> QED BY <1>1, <2>1 DEF LInv, NoStrayListing, Up, Publishing, At
<1>10. StoredIsUp'
  <2> SUFFICES ASSUME NEW s \in Spaces, NEW q \in Platforms, NEW k \in Listings,
                      space[s].ids[q] = k, <<q, k>> \notin adrift'
               PROVE  Up(q, k)' \/ sync.ids[q] = k
    BY <1>2, <1>3, SpacesAre, PartsOfTypes DEF StoredIsUp, Up, Removing, At
  <2>1. Up(q, k) \/ sync.ids[q] = k
    BY NoneIsNoListing DEF LInv, StoredIsUp, Up
  <2> QED BY <1>4, <2>1 DEF Id
<1> QED BY <1>5, <1>6, <1>7, <1>8, <1>9, <1>10 DEF LInv

LEMMA LDelete ==
  ASSUME MTypes, LInv, delete \/ deleteRefused
  PROVE  LInv'
<1>1. /\ At("delete") /\ Hands /\ Works /\ Showing /\ Id \in Listings \cup {None}
      /\ Answered(Id, "clear") /\ space' = space /\ sync.platform \in Platforms
  BY PartsOfTypes, Runs DEF delete, deleteRefused, Hands, Removing
<1>2. CASE delete /\ Id # None
  <2>1. /\ listing'[sync.platform][Id] = Gone
        /\ \A p \in Platforms, k \in Listings :
              p # sync.platform \/ k # Id => listing'[p][k] = listing[p][k]
    BY <1>1, <1>2, Remotes, Ended DEF delete
  <2>2. adrift' = adrift
    BY <1>2 DEF delete, history
  <2> QED BY <1>1, <2>1, <2>2, Ended, LTakesDown DEF Up
<1>3. CASE delete /\ Id = None
  BY <1>1, <1>3, LTakesDown DEF delete, history
<1>4. CASE deleteRefused
  BY <1>1, <1>4, LTakesDown DEF deleteRefused
<1> QED BY <1>2, <1>3, <1>4

LEMMA LDeleteLost ==
  ASSUME MTypes, LInv, deleteLost
  PROVE  LInv'
<1> DEFINE p == sync.platform
<1>1. /\ At("delete") /\ Removing /\ Hands /\ Running /\ Works /\ Showing
      /\ p \in Platforms /\ Id \in Listings /\ sync.space \in Spaces
  BY PartsOfTypes, Runs DEF deleteLost, Hands, Removing
<1>2. sync'.rows = sync.rows /\ Todo' = Todo /\ ~Hands' /\ space' = space
  BY <1>1, LoopsOn DEF deleteLost, Todo
<1>3. adrift \cup Dropped \subseteq adrift'
  BY DEF deleteLost, Forget
<1>4. \A q \in Platforms, k \in Listings :
        \/ listing'[q][k] = listing[q][k]
        \/ q = p /\ k = Id /\ listing'[q][k] = Gone
  BY <1>1, Remotes, Ended DEF deleteLost
<1>5. Knows(sync.space, p, Id)
  BY <1>1 DEF Knows, Id
<1>6. listing[p][Id] # New
  BY <1>1, <1>5 DEF LInv, OwnListings
<1>7. \A q \in Platforms, k \in Listings : listing'[q][k] # New <=> listing[q][k] # New
  BY <1>4, <1>6, Ended
<1>8. InOrder'
  BY <1>7, OrderKept DEF LInv
<1>9. \A q \in Platforms, k \in Listings :
        (Up(q, k)' => Up(q, k)) /\ (Up(q, k) /\ ~Up(q, k)' => sync.ids[q] = k)
  BY <1>4, Ended DEF Up, Id
<1> QED BY <1>1, <1>2, <1>3, <1>7, <1>8, <1>9, LLetGo

LEMMA LStop ==
  ASSUME MTypes, LInv, Stop
  PROVE  LInv'
<1>1. ~Running' /\ ~Hands'
  BY DEF Stop, Go, Running, Hands, Publishing, Removing, At, Idle
<1>2. UNCHANGED <<space, listing>> /\ Forget
  BY DEF Stop
<1>3. \A q \in Platforms, k \in Listings : Up(q, k)' <=> Up(q, k)
  BY <1>2 DEF Up
<1>4. CASE Hands
  <2>1. InOrder'
    BY <1>2 DEF LInv, InOrder
  <2>2. adrift \cup Dropped \subseteq adrift'
    BY <1>2 DEF Forget
  <2> QED BY <1>1, <1>2, <1>3, <1>4, <2>1, <2>2, LLetGo
<1>5. CASE ~Hands
  <2>1. Dropped = {}
    BY <1>5 DEF Dropped, Hands, Publishing, Removing, At
  <2>2. adrift' = adrift
    BY <1>2, <2>1 DEF Forget
  <2> QED BY <1>1, <1>2, <1>5, <2>2, LRead
<1> QED BY <1>4, <1>5

LEMMA LJob ==
  ASSUME MTypes, LInv, Working \/ Failing
  PROVE  LInv'
<1>1. Works
  BY PartsOfTypes
<1>2. CASE Start
  <2>1. ~Hands
    BY <1>2 DEF Start, Hands, Publishing, Removing, At, Idle
  <2>2. Read("list", ToPublish) /\ ToPublish \in SUBSET Spaces
    BY <1>2 DEF Start, ToPublish
  <2>3. /\ sync' \in Loop /\ sync'.op = "list" /\ Todo' = ToPublish
        /\ \A s \in ToPublish : sync'.rows[s] = space[s].ids
    BY <2>2, MReads
  <2>4. ~Hands' /\ UNCHANGED <<space, listing, adrift>>
    BY <2>2, <2>3 DEF Hands, Publishing, Removing, At, Read, history
  <2> QED BY <2>1, <2>2, <2>3, <2>4, LRead
<1>3. CASE Unlist
  <2>1. ~Hands
    BY <1>3 DEF Unlist, Hands, Publishing, Removing, At
  <2>2. Read("unlist", ToUnpublish) /\ ToUnpublish \in SUBSET Spaces
    BY <1>3 DEF Unlist, ToUnpublish
  <2>3. /\ sync' \in Loop /\ sync'.op = "unlist" /\ Todo' = ToUnpublish
        /\ \A s \in ToUnpublish : sync'.rows[s] = space[s].ids
    BY <2>2, MReads
  <2>4. ~Hands' /\ UNCHANGED <<space, listing, adrift>>
    BY <2>2, <2>3 DEF Hands, Publishing, Removing, At, Read, history
  <2> QED BY <2>1, <2>2, <2>3, <2>4, LRead
<1>4. CASE End
  <2>1. ~Hands /\ ~Hands' /\ ~Running' /\ UNCHANGED <<space, listing, adrift>>
    BY <1>4 DEF End, Go, Hands, Publishing, Removing, At, Idle, Running, history
  <2> QED BY <2>1, LRead
<1>5. ASSUME NEW s \in Spaces, buildAvailabilityCalendar(s) PROVE LInv'
  <2>1. Running /\ ~Hands /\ Free(s) \in SUBSET Hours
    BY <1>1, <1>5, Runs DEF buildAvailabilityCalendar, Free
  <2> QED BY <1>5, <2>1, LTakeUp DEF buildAvailabilityCalendar
<1>6. ASSUME NEW s \in Spaces, Unpublish(s) PROVE LInv'
  <2>1. Running /\ ~Hands
    BY <1>1, <1>6, Runs DEF Unpublish
  <2> QED BY <1>6, <2>1, LTakeUp DEF Unpublish
<1> QED
  BY <1>2, <1>3, <1>4, <1>5, <1>6, LRefused, LUpsert, LUpsertUnread, LUpsertLost, LStore, LClear,
     LDelete, LDeleteLost, LStop
  DEF Working, Failing

LEMMA LStep ==
  ASSUME MTypes, LInv, [Next]_vars
  PROVE  LInv'
<1>1. CASE UNCHANGED vars
  BY <1>1, Still DEF vars, history
<1>2. CASE Staff
  <2>1. ASSUME NEW b \in Bookings, Settle(b) \/ RemoveBooking(b) PROVE LInv'
    BY <2>1, Still DEF Settle, RemoveBooking, history
  <2>4. ASSUME NEW b \in Bookings, NEW holds \in BOOLEAN, Refuse(b, holds) PROVE LInv'
    BY <2>4, Still DEF Refuse
  <2>2. ASSUME NEW b \in Bookings, NEW s \in Spaces, NEW p \in Periods, Book(b, s, p)
        PROVE  LInv'
    BY <2>2, Still DEF Book, history
  <2>3. ASSUME NEW s \in Spaces, NEW open \in BOOLEAN, update(s, open) PROVE LInv'
    <3>1. \A u \in Spaces : space'[u].exists = space[u].exists /\ space'[u].ids = space[u].ids
      BY <2>3 DEF update, MTypes, Space
    <3> QED BY <2>3, <3>1, Still DEF update, history
  <2> QED BY <1>2, <2>1, <2>2, <2>3, <2>4, LRemove DEF Staff
<1>3. ASSUME NEW d \in Deliveries, Webhook(d) PROVE LInv'
  <2>1. UNCHANGED <<space, listing, sync, adrift>>
    BY <1>3 DEF Webhook, Receive, resolveSpace, FindConflict, Create, Reject, history
  <2> QED BY <2>1, Still
<1> QED BY <1>1, <1>2, <1>3, LJob DEF Next

LEMMA LAlways == Spec => [](MTypes /\ LInv)
<1>1. Init => MTypes /\ LInv
  BY MInit, LInit
<1>2. MTypes /\ LInv /\ [Next]_vars => (MTypes /\ LInv)'
  BY MStep, LStep
<1> QED BY <1>1, <1>2, PTL DEF Spec

\* Every row, listing, run and delivery always has its type.
THEOREM TypeCorrect == Spec => []TypeOK
<1>1. MTypes => TypeOK
  BY DEF MTypes, TypeOK
<1> QED BY <1>1, LAlways, PTL

\* However calls fail and staff meanwhile list, delist and delete, a listing
\* that is up is always stored at a space or at hand in the run, but for those
\* of calls that failed or gave no id, stopped runs and deleted spaces.
THEOREM NoListingIsStray == Spec => []NoStrayListing
<1>1. LInv => NoStrayListing
  BY DEF LInv
<1> QED BY <1>1, LAlways, PTL

\* A stored id is always that of a listing that is up, or one that the run is
\* taking down, but for listings that a run took down before it failed.
THEOREM StoredListingsShow == Spec => []StoredIsUp
<1>1. LInv => StoredIsUp
  BY DEF LInv
<1> QED BY <1>1, LAlways, PTL

-----------------------------------------------------------------------------
(***************************************************************************)
(* Inquiries.                                                              *)
(***************************************************************************)

\* Two deliveries of one inquiry are on record, and an inquiry that is being
\* answered was not booked before; the notes of one that was booked tell.
QInv ==
  /\ \A d, e \in Deliveries :
       /\ d # e /\ delivery[d] # Idle /\ delivery[e] # Idle
       /\ delivery[d].inquiry.id = delivery[e].inquiry.id
       => delivery[d].inquiry.id \in excused
  /\ \A d \in Deliveries :
       delivery[d] # Idle /\ delivery[d].inquiry.id \in booked
       => delivery[d].inquiry.id \in excused
  /\ \A m \in booked :
       m \in excused \/ \E b \in Bookings : booking[b] # None /\ booking[b].inquiry = m

LEMMA Inquired ==
  ASSUME MTypes, NEW d \in Deliveries, delivery[d] # Idle
  PROVE  /\ delivery[d].inquiry \in Inquiries /\ delivery[d].inquiry.id # None
<1>1. delivery[d].inquiry \in Inquiries
  BY DEF MTypes, Reading, Resolved
<1> QED BY <1>1, InquiriesNameASpace

LEMMA QInit == Init => QInv
  BY DEF Init, QInv

\* Steps that take up no inquiry, and book none.
LEMMA QKept ==
  ASSUME QInv, excused \subseteq excused', booked' = booked,
         \A b \in Bookings : booking[b] # None /\ booking[b].inquiry # None =>
           \/ booking'[b] # None /\ booking'[b].inquiry = booking[b].inquiry
           \/ booking[b].inquiry \in excused',
         None \notin booked,
         \A d \in Deliveries : delivery'[d] # Idle =>
           delivery[d] # Idle /\ delivery'[d].inquiry = delivery[d].inquiry
  PROVE  QInv'
<1>1. ASSUME NEW m \in booked
      PROVE  m \in excused' \/ \E b \in Bookings : booking'[b] # None /\ booking'[b].inquiry = m
  BY <1>1 DEF QInv
<1> QED BY <1>1 DEF QInv

LEMMA QReceive ==
  ASSUME MTypes, QInv, NEW d \in Deliveries, NEW i \in Inquiries, Receive(d, i)
  PROVE  QInv'
<1>1. /\ delivery'[d].inquiry = i /\ delivery[d] = Idle
      /\ \A e \in Deliveries \ {d} : delivery'[e] = delivery[e]
      /\ booking' = booking /\ booked' = booked /\ excused \subseteq excused'
      /\ ~Marked(i)
  BY DEF Receive, Turn, MTypes
<1>2. \A e \in Deliveries \ {d} : delivery[e] # Idle /\ delivery[e].inquiry.id = i.id =>
        i.id \in excused'
  BY DEF Receive
<1>3. ASSUME NEW e \in Deliveries, NEW f \in Deliveries, e # f, delivery'[e] # Idle,
             delivery'[f] # Idle, delivery'[e].inquiry.id = delivery'[f].inquiry.id
      PROVE  delivery'[e].inquiry.id \in excused'
  <2>1. CASE e = d \/ f = d
    BY <1>1, <1>2, <1>3, <2>1
  <2>2. CASE e # d /\ f # d
    BY <1>1, <1>3, <2>2 DEF QInv
  <2> QED BY <2>1, <2>2
<1>4. ASSUME NEW e \in Deliveries, delivery'[e] # Idle, delivery'[e].inquiry.id \in booked
      PROVE  delivery'[e].inquiry.id \in excused'
  <2>1. CASE e = d
    BY <1>1, <1>4, <2>1 DEF QInv, Marked
  <2>2. CASE e # d
    BY <1>1, <1>4, <2>2 DEF QInv
  <2> QED BY <2>1, <2>2
<1> QED BY <1>1, <1>3, <1>4 DEF QInv

LEMMA QCreate ==
  ASSUME MTypes, QInv, NEW d \in Deliveries, NEW b \in Bookings, Create(d, b)
  PROVE  QInv'
<1> DEFINE id == delivery[d].inquiry.id
<1>1. /\ delivery[d] # Idle /\ delivery'[d] = Idle
      /\ \A e \in Deliveries \ {d} : delivery'[e] = delivery[e]
      /\ booking[b] = None /\ booking'[b].inquiry = id
      /\ \A c \in Bookings \ {b} : booking'[c] = booking[c]
      /\ booked' = booked \cup {id} /\ excused' = excused
  BY DEF Create, Turn, Waits, Idle, MTypes
<1>4. booking'[b] # None
  <2>1. delivery[d] \in Resolved
    BY DEF Create, Waits, Reading, Idle, MTypes
  <2>2. booking'[b] \in Booking
    BY <2>1, InquiriesNameASpace DEF Create, MTypes, Resolved, Booking, Markers
  <2> QED BY <2>2, NoneIsNoBooking
<1>2. \A e \in Deliveries : delivery'[e] # Idle /\ delivery'[e].inquiry.id \in booked' =>
        delivery'[e].inquiry.id \in excused
  BY <1>1 DEF QInv
<1>3. \A m \in booked' :
        m \in excused \/ \E c \in Bookings : booking'[c] # None /\ booking'[c].inquiry = m
  BY <1>1, <1>4 DEF QInv
<1> QED BY <1>1, <1>2, <1>3, <1>4 DEF QInv

LEMMA QStep ==
  ASSUME MTypes, QInv, [Next]_vars
  PROVE  QInv'
<1>0. None \notin booked
  BY InquiriesNameASpace DEF MTypes, Markers
<1>1. ASSUME UNCHANGED <<booking, delivery, booked, excused>> PROVE QInv'
  BY <1>1 DEF QInv
<1>2. CASE UNCHANGED vars
  BY <1>1, <1>2 DEF vars, history
<1>3. CASE Staff
  <2>1. ASSUME NEW b \in Bookings, Settle(b) PROVE QInv'
    <3>1. booking[b] \in Booking
      BY <2>1 DEF MTypes, Settle
    <3>2. /\ booking'[b] # None /\ booking'[b].inquiry = booking[b].inquiry
          /\ \A c \in Bookings \ {b} : booking'[c] = booking[c]
      BY <2>1, <3>1, NoneIsNoBooking DEF MTypes, Settle, Booking
    <3> QED BY <1>0, <2>1, <3>2, QKept DEF Settle, history
  <2>2. ASSUME NEW S \in SUBSET Bookings, Erase(S), delivery' = delivery,
               \A c \in Bookings \ S : booking'[c] = booking[c]
        PROVE  QInv'
    <3>1. /\ \A c \in S : booking[c].inquiry # None => booking[c].inquiry \in excused'
          /\ excused \subseteq excused' /\ booked' = booked
      BY <2>2 DEF Erase
    <3> QED BY <1>0, <2>2, <3>1, QKept
  <2>3. ASSUME NEW b \in Bookings, RemoveBooking(b) \/ \E holds \in BOOLEAN : Refuse(b, holds)
        PROVE  QInv'
    <3>1. /\ Erase({b}) /\ delivery' = delivery
          /\ \A c \in Bookings \ {b} : booking'[c] = booking[c]
      BY <2>3 DEF RemoveBooking, Refuse, MTypes
    <3> QED BY <2>2, <3>1
  <2>4. ASSUME NEW b \in Bookings, NEW s \in Spaces, NEW p \in Periods, Book(b, s, p)
        PROVE  QInv'
    BY <1>0, <2>4, QKept DEF Book, MTypes, history
  <2>5. ASSUME NEW s \in Spaces, remove(s) PROVE QInv'
    <3> DEFINE lost == {b \in Bookings : booking[b] # None /\ booking[b].space = s}
    <3>1. /\ Erase(lost) /\ delivery' = delivery
          /\ \A c \in Bookings \ lost : booking'[c] = booking[c]
      BY <2>5 DEF remove
    <3> QED BY <2>2, <3>1
  <2>6. ASSUME NEW s \in Spaces, NEW open \in BOOLEAN, update(s, open) PROVE QInv'
    BY <1>1, <2>6 DEF update, history
  <2> QED BY <1>3, <2>1, <2>3, <2>4, <2>5, <2>6 DEF Staff
<1>4. CASE Working \/ Failing
  <2>1. UNCHANGED <<booking, delivery, booked, excused>>
    BY <1>4
    DEF Working, Failing, Start, Unlist, End, upsertRefused, Store, delete, Clear, Read, TakeUp,
        buildAvailabilityCalendar, Unpublish, upsert, upsertUnread, upsertLost, deleteRefused,
        deleteLost, Stop, Writes, history
  <2> QED BY <1>1, <2>1
<1>5. ASSUME NEW d \in Deliveries, Webhook(d) PROVE QInv'
  <2>1. ASSUME NEW s \in Spaces, resolveSpace(d, s) PROVE QInv'
    BY <1>0, <2>1, QKept DEF resolveSpace, Turn, Waits, Idle, MTypes, history
  <2>2. CASE FindConflict(d)
    <3>1. delivery[d] \in Resolved
      BY <2>2 DEF MTypes, FindConflict, Waits, Idle, Reading
    <3>2. delivery'[d].inquiry = delivery[d].inquiry /\ delivery[d] # Idle
      BY <2>2, <3>1 DEF MTypes, FindConflict, Turn, Waits, Idle, Resolved
    <3> QED BY <1>0, <2>2, <3>2, QKept DEF FindConflict, Turn, MTypes, history
  <2>3. CASE Reject(d)
    BY <1>0, <2>3, QKept DEF Reject, Turn, MTypes, history
  <2> QED BY <1>5, <2>1, <2>2, <2>3, QReceive, QCreate DEF Webhook
<1> QED BY <1>2, <1>3, <1>4, <1>5 DEF Next

\* A step that books an inquiry answers a delivery of it.
LEMMA Booker ==
  ASSUME MTypes, [Next]_vars, NEW b \in Bookings,
         booking[b] = None, booking'[b] # None, booking'[b].inquiry # None
  PROVE  \E d \in Deliveries : delivery[d] # Idle /\ booking'[b].inquiry = delivery[d].inquiry.id
<1>1. ASSUME NEW d \in Deliveries, NEW c \in Bookings, Create(d, c)
      PROVE  delivery[d] # Idle /\ booking'[b].inquiry = delivery[d].inquiry.id
  BY <1>1 DEF Create, Waits, Idle, MTypes
<1>2. CASE Staff
  <2>1. ASSUME NEW c \in Bookings, NEW s \in Spaces, NEW p \in Periods, Book(c, s, p)
        PROVE  FALSE
    BY <2>1 DEF Book, MTypes
  <2>2. ASSUME NEW c \in Bookings,
               Settle(c) \/ RemoveBooking(c) \/ \E holds \in BOOLEAN : Refuse(c, holds)
        PROVE  FALSE
    BY <2>2 DEF Settle, RemoveBooking, Refuse, MTypes
  <2>3. ASSUME NEW s \in Spaces, remove(s) PROVE FALSE
    BY <2>3 DEF remove
  <2>4. ASSUME NEW s \in Spaces, NEW open \in BOOLEAN, update(s, open) PROVE FALSE
    BY <2>4 DEF update
  <2> QED BY <1>2, <2>1, <2>2, <2>3, <2>4 DEF Staff
<1>3. CASE Working \/ Failing
  BY <1>3
  DEF Working, Failing, Start, Unlist, End, upsertRefused, Store, delete, Clear, Read, TakeUp,
      buildAvailabilityCalendar, Unpublish, upsert, upsertUnread, upsertLost, deleteRefused,
      deleteLost, Stop, Writes
<1>4. ASSUME NEW d \in Deliveries, Webhook(d)
      PROVE  \E e \in Deliveries : delivery[e] # Idle /\ booking'[b].inquiry = delivery[e].inquiry.id
  BY <1>1, <1>4 DEF Webhook, Receive, resolveSpace, FindConflict, Reject
<1> QED BY <1>2, <1>3, <1>4 DEF Next, vars

\* However often an inquiry is delivered, it is booked once, unless two of its
\* deliveries were in flight together or a booking of it has lost its notes.
THEOREM InquiriesAreBookedOnce == Spec => InquiryBookedOnce
<1>1. Init => MTypes /\ QInv
  BY MInit, QInit
<1>2. MTypes /\ QInv /\ [Next]_vars => (MTypes /\ QInv)'
  BY MStep, QStep
<1>3. MTypes /\ QInv /\ [Next]_vars =>
        [\A b \in Bookings :
           /\ booking[b] = None /\ booking'[b] # None /\ booking'[b].inquiry \in booked
           => booking'[b].inquiry \in excused]_vars
  <2> SUFFICES ASSUME MTypes, QInv, [Next]_vars, NEW b \in Bookings,
                      booking[b] = None, booking'[b] # None, booking'[b].inquiry \in booked
               PROVE  booking'[b].inquiry \in excused
    OBVIOUS
  <2>1. booking'[b].inquiry # None
    BY InquiriesNameASpace DEF MTypes, Markers
  <2> QED BY <2>1, Booker DEF QInv
<1> QED BY <1>1, <1>2, <1>3, PTL DEF Spec, InquiryBookedOnce
=============================================================================
