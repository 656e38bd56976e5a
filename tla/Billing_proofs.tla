--------------------------- MODULE Billing_proofs ---------------------------
(***************************************************************************)
(* Theorems about Billing, for any number of invoices, payments, lines and *)
(* requests that overlap, and for the sums it computes.                    *)
(***************************************************************************)
EXTENDS Billing, FiniteSetTheorems, TLAPS

-----------------------------------------------------------------------------
(***************************************************************************)
(* What SumFunction computes.  Finite sets are well-founded by inclusion,  *)
(* so that whatever holds of a set once it holds of all smaller ones holds *)
(* of every finite set.                                                    *)
(***************************************************************************)

LEMMA SmallestCounterexample ==
  ASSUME NEW S, IsFiniteSet(S), NEW Holding,
         \A T \in SUBSET S : (\A U \in SUBSET T : U # T => U \in Holding) => T \in Holding
  PROVE  S \in Holding
<1> SUFFICES ASSUME S \notin Holding PROVE FALSE
  OBVIOUS
<1> DEFINE Bad == (SUBSET S) \ Holding
           Order == StrictSubsetOrdering(S)
<1>1. IsWellFoundedOn(Order, FiniteSubsetsOf(S))
  BY FS_StrictSubsetOrderingWellFounded
<1>2. Bad \subseteq FiniteSubsetsOf(S) /\ Bad # {}
  BY FS_Subset DEF FiniteSubsetsOf
<1>3. PICK T \in Bad : \A U \in Bad : ~(<<U, T>> \in Order)
  <2> HIDE DEF Bad, Order
  <2> QED BY <1>1, <1>2, WFMin
<1>4. \A U \in SUBSET T : U # T => U \in Holding
  BY <1>3 DEF StrictSubsetOrdering
<1> QED BY <1>3, <1>4

\* The member that a sum takes first, the others, and the sum in terms of g for
\* them.
One(s) == CHOOSE x \in s : TRUE
Rest(s) == s \ {One(s)}
Summed(f, g, s) == IF s = {} THEN 0 ELSE f[One(s)] + g[Rest(s)]

LEMMA OneIsIn == \A s : s # {} => One(s) \in s
  BY DEF One

LEMMA RestIsSmaller ==
  ASSUME NEW s, IsFiniteSet(s), s # {}
  PROVE  /\ IsFiniteSet(Rest(s)) /\ Rest(s) \subseteq s /\ Rest(s) # s
         /\ Cardinality(s) \in Nat /\ Cardinality(Rest(s)) \in Nat
         /\ Cardinality(s) = Cardinality(Rest(s)) + 1
<1>1. One(s) \in s
  BY OneIsIn
<1>2. IsFiniteSet(Rest(s)) /\ Cardinality(Rest(s)) = Cardinality(s) - 1
  BY <1>1, FS_RemoveElement DEF Rest
<1>3. Cardinality(s) \in Nat /\ Cardinality(Rest(s)) \in Nat
  BY <1>2, FS_CardinalityType
<1> QED BY <1>1, <1>2, <1>3 DEF Rest

LEMMA SumExists ==
  ASSUME NEW S, IsFiniteSet(S), NEW f \in [S -> Nat]
  PROVE  \E g \in [SUBSET S -> Nat] : \A s \in SUBSET S : g[s] = Summed(f, g, s)
<1> DEFINE Small(T) == {s \in SUBSET S : Cardinality(s) <= Cardinality(T)}
           Holding == {T \in SUBSET S : \E g \in [Small(T) -> Nat] :
                      \A s \in Small(T) : g[s] = Summed(f, g, s)}
<1>1. \A s \in SUBSET S : IsFiniteSet(s) /\ Cardinality(s) \in Nat
                            /\ Cardinality(s) <= Cardinality(S)
  BY FS_Subset, FS_CardinalityType
<1>2. ASSUME NEW T \in SUBSET S, \A U \in SUBSET T : U # T => U \in Holding
      PROVE  T \in Holding
  <2>1. CASE T = {}
    <3> DEFINE g == [s \in Small(T) |-> 0]
    <3>1. Small(T) = {{}}
      BY <1>1, <2>1, FS_EmptySet
    <3>2. \A s \in Small(T) : g[s] = Summed(f, g, s)
      BY <3>1 DEF Summed
    <3> QED BY <3>2
  <2>2. CASE T # {}
    <3>1. /\ Rest(T) \in SUBSET T /\ Rest(T) # T
          /\ Cardinality(T) = Cardinality(Rest(T)) + 1
      BY <1>1, <2>2, RestIsSmaller
    <3>2. PICK g \in [Small(Rest(T)) -> Nat] :
            \A s \in Small(Rest(T)) : g[s] = Summed(f, g, s)
      BY <1>2, <3>1
    <3> DEFINE h == [s \in Small(T) |-> Summed(f, g, s)]
    <3>3. \A s \in Small(T) : s # {} => Rest(s) \in Small(Rest(T)) /\ One(s) \in S
      <4> SUFFICES ASSUME NEW s \in Small(T), s # {}
                   PROVE  Rest(s) \in Small(Rest(T)) /\ One(s) \in S
        OBVIOUS
      <4>1. Rest(s) \in SUBSET S /\ Cardinality(s) = Cardinality(Rest(s)) + 1
        BY <1>1, RestIsSmaller
      <4>2. One(s) \in S
        BY OneIsIn
      <4>3. Rest(T) \in SUBSET S
        BY <3>1
      <4>4. Cardinality(Rest(s)) <= Cardinality(Rest(T))
        BY <1>1, <4>1, <4>3, <3>1
      <4> QED BY <4>1, <4>2, <4>4
    <3>4. h \in [Small(T) -> Nat]
      <4> HIDE DEF Small
      <4> SUFFICES ASSUME NEW s \in Small(T) PROVE Summed(f, g, s) \in Nat
        OBVIOUS
      <4> QED BY <3>3 DEF Summed
    <3>5. \A s \in Small(Rest(T)) : s \in Small(T) /\ h[s] = g[s]
      <4>1. Small(Rest(T)) \subseteq Small(T)
        BY <1>1, <3>1
      <4> HIDE DEF Small
      <4> QED BY <4>1, <3>2
    <3>6. \A s \in Small(T) : h[s] = Summed(f, h, s)
      <4> HIDE DEF Small
      <4> SUFFICES ASSUME NEW s \in Small(T) PROVE h[s] = Summed(f, h, s)
        OBVIOUS
      <4>1. s # {} => h[Rest(s)] = g[Rest(s)]
        BY <3>3, <3>5
      <4>2. h[s] = Summed(f, g, s)
        OBVIOUS
      <4> HIDE DEF h
      <4> QED BY <4>1, <4>2 DEF Summed
    <3> HIDE DEF h, Small
    <3> QED BY <3>4, <3>6
  <2> QED BY <2>1, <2>2
<1>3. S \in Holding
  <2> HIDE DEF Holding
  <2> QED BY <1>2, SmallestCounterexample
<1>4. Small(S) = SUBSET S
  BY <1>1
<1> QED BY <1>3, <1>4

\* The function that SumFunction unfolds to.
Sums(f) == CHOOSE g : g = [s \in SUBSET DOMAIN f |-> Summed(f, g, s)]

LEMMA SumIsRecursive ==
  ASSUME NEW f
  PROVE  SumFunction(f) = Sums(f)[DOMAIN f]
  BY DEF SumFunction, SumFunctionOnSet, FoldFunctionOnSet, MapThenFoldSet, Sums,
     Summed, One, Rest

LEMMA SumsType ==
  ASSUME NEW S, IsFiniteSet(S), NEW f \in [S -> Nat]
  PROVE  /\ \A s \in SUBSET S : Sums(f)[s] = Summed(f, Sums(f), s)
         /\ Sums(f) \in [SUBSET S -> Nat]
<1>1. \E g : g = [s \in SUBSET DOMAIN f |-> Summed(f, g, s)]
  <2>1. PICK g \in [SUBSET S -> Nat] : \A s \in SUBSET S : g[s] = Summed(f, g, s)
    BY SumExists
  <2>2. g = [s \in SUBSET DOMAIN f |-> Summed(f, g, s)]
    BY <2>1
  <2> QED BY <2>2
<1>2. Sums(f) = [s \in SUBSET S |-> Summed(f, Sums(f), s)]
  BY <1>1 DEF Sums
<1> DEFINE Holding == {s \in SUBSET S : Sums(f)[s] \in Nat}
<1>3. \A T \in SUBSET S : T \in Holding
  <2> SUFFICES ASSUME NEW T \in SUBSET S PROVE T \in Holding
    OBVIOUS
  <2>1. ASSUME NEW U \in SUBSET T, \A V \in SUBSET U : V # U => V \in Holding
        PROVE  U \in Holding
    <3>1. Sums(f)[U] = Summed(f, Sums(f), U)
      BY <1>2
    <3>2. CASE U = {}
      BY <3>1, <3>2 DEF Summed
    <3>3. CASE U # {}
      <4>1. IsFiniteSet(U)
        BY FS_Subset
      <4>2. Rest(U) \in Holding /\ One(U) \in S
        BY <2>1, <3>3, <4>1, RestIsSmaller, OneIsIn
      <4> QED BY <3>1, <3>3, <4>2 DEF Summed
    <3> QED BY <3>2, <3>3
  <2>2. IsFiniteSet(T)
    BY FS_Subset
  <2> HIDE DEF Holding
  <2> QED BY <2>1, <2>2, SmallestCounterexample
<1>4. \A s \in SUBSET S : Sums(f)[s] = Summed(f, Sums(f), s)
  BY <1>2
<1> QED BY <1>2, <1>3, <1>4

LEMMA SumIsNatural ==
  ASSUME NEW S, IsFiniteSet(S), NEW f \in [S -> Nat]
  PROVE  SumFunction(f) \in Nat
<1>1. Sums(f) \in [SUBSET S -> Nat] /\ DOMAIN f = S
  BY SumsType
<1> QED BY <1>1, SumIsRecursive

\* The order in which members are summed makes no difference.
LEMMA SumsAdd ==
  ASSUME NEW S, IsFiniteSet(S), NEW f \in [S -> Nat]
  PROVE  \A T \in SUBSET S : \A x \in S \ T : Sums(f)[T \cup {x}] = Sums(f)[T] + f[x]
<1> DEFINE sum == Sums(f)
           Holding == {T \in SUBSET S : \A x \in S \ T : sum[T \cup {x}] = sum[T] + f[x]}
<1>1. /\ \A T \in SUBSET S : sum[T] = Summed(f, sum, T)
      /\ sum \in [SUBSET S -> Nat]
  BY SumsType
<1> HIDE DEF sum
<1>2. ASSUME NEW T \in SUBSET S, \A U \in SUBSET T : U # T => U \in Holding
      PROVE  T \in Holding
  <2> SUFFICES ASSUME NEW x \in S \ T PROVE sum[T \cup {x}] = sum[T] + f[x]
    OBVIOUS
  <2> DEFINE V == T \cup {x}
             o == One(V)
  <2>1. o \in V
    BY OneIsIn
  <2>2. sum[V] = f[o] + sum[V \ {o}]
    BY <1>1, <2>1 DEF Summed, Rest
  <2> HIDE DEF o
  <2>3. CASE o = x
    <3>1. V \ {o} = T
      BY <2>3
    <3>2. sum[T] \in Nat /\ f[x] \in Nat
      BY <1>1
    <3>3. sum[V] = f[x] + sum[T]
      BY <2>2, <2>3, <3>1
    <3> HIDE DEF V
    <3>4. sum[V] = sum[T] + f[x]
      BY <3>2, <3>3
    <3> QED BY <3>4 DEF V
  <2>4. CASE o # x
    <3> DEFINE U == T \ {o}
    <3>1. /\ V \ {o} = U \cup {x} /\ T = U \cup {o}
          /\ o \in S \ U /\ x \in S \ U /\ U \in Holding
      BY <1>2, <2>1, <2>4
    <3>2. sum[U \cup {x}] = sum[U] + f[x] /\ sum[U \cup {o}] = sum[U] + f[o]
      BY <3>1
    <3>3. U \in SUBSET S /\ sum[U] \in Nat /\ f[x] \in Nat /\ f[o] \in Nat
      BY <1>1, <3>1
    <3>4. sum[V] = f[o] + (sum[U] + f[x]) /\ sum[T] = sum[U] + f[o]
      BY <2>2, <3>1, <3>2
    <3> HIDE DEF U, V
    <3>5. sum[V] = sum[T] + f[x]
      BY <3>3, <3>4
    <3> QED BY <3>5 DEF V
  <2> QED BY <2>3, <2>4
<1> SUFFICES ASSUME NEW T \in SUBSET S PROVE T \in Holding
  BY DEF sum
<1>3. \A V \in SUBSET T : (\A U \in SUBSET V : U # V => U \in Holding) => V \in Holding
  <2> HIDE DEF Holding
  <2> QED BY <1>2
<1>4. IsFiniteSet(T)
  BY FS_Subset
<1> HIDE DEF Holding
<1> QED BY <1>3, <1>4, SmallestCounterexample

\* A sum depends on nothing but the members summed.
LEMMA SumsRestrict ==
  ASSUME NEW S, IsFiniteSet(S), NEW f \in [S -> Nat], NEW T \in SUBSET S,
         NEW g \in [T -> Nat], \A x \in T : g[x] = f[x]
  PROVE  Sums(g)[T] = Sums(f)[T]
<1> DEFINE sumf == Sums(f)
           sumg == Sums(g)
           Holding == {U \in SUBSET T : sumg[U] = sumf[U]}
<1>1. IsFiniteSet(T)
  BY FS_Subset
<1>2. \A U \in SUBSET S : sumf[U] = Summed(f, sumf, U)
  BY SumsType
<1>3. \A U \in SUBSET T : sumg[U] = Summed(g, sumg, U)
  BY <1>1, SumsType
<1> HIDE DEF sumf, sumg
<1>4. ASSUME NEW U \in SUBSET T, \A V \in SUBSET U : V # U => V \in Holding
      PROVE  U \in Holding
  <2>1. CASE U = {}
    BY <1>2, <1>3, <2>1 DEF Summed
  <2>2. CASE U # {}
    <3>1. One(U) \in U
      BY <2>2, OneIsIn
    <3>2. Rest(U) \in Holding
      BY <1>4, <3>1 DEF Rest
    <3>3. g[One(U)] = f[One(U)]
      BY <3>1
    <3> QED BY <1>2, <1>3, <2>2, <3>2, <3>3 DEF Summed
  <2> QED BY <2>1, <2>2
<1> SUFFICES T \in Holding
  BY DEF sumf, sumg
<1> HIDE DEF Holding
<1> QED BY <1>1, <1>4, SmallestCounterexample

LEMMA SumWithOneMore ==
  ASSUME NEW T, IsFiniteSet(T), NEW x, x \notin T,
         NEW f \in [T \cup {x} -> Nat], NEW g \in [T -> Nat],
         \A y \in T : g[y] = f[y]
  PROVE  SumFunction(f) = SumFunction(g) + f[x]
<1> DEFINE S == T \cup {x}
<1>1. IsFiniteSet(S)
  BY FS_AddElement
<1>2. DOMAIN f = S /\ DOMAIN g = T
  OBVIOUS
<1>3. SumFunction(f) = Sums(f)[S] /\ SumFunction(g) = Sums(g)[T]
  BY <1>2, SumIsRecursive
<1>4. f \in [S -> Nat] /\ T \in SUBSET S /\ x \in S \ T /\ S = T \cup {x}
  OBVIOUS
<1> HIDE DEF S
<1>5. Sums(f)[T \cup {x}] = Sums(f)[T] + f[x]
  BY <1>1, <1>4, SumsAdd
<1>6. Sums(g)[T] = Sums(f)[T]
  BY <1>1, <1>4, SumsRestrict
<1> QED BY <1>3, <1>4, <1>5, <1>6
-----------------------------------------------------------------------------
\* What a request remembers, by its operation; all but the list of overdue
\* invoices is about one.
Good(m) ==
  /\ m.op = "pay" => /\ m.amount \in Nat /\ m.renter \in BOOLEAN
                     /\ m.status \in {"PENDING", "COMPLETED"}
  /\ m.op \in {"confirm", "refund"} => m.payment \in Payments
  /\ m.op = "settled" => m.status \in InvoiceStatus
  /\ m.op = "edit" => m.body \in Edits
  /\ m.op \notin {"idle", "overdue"} => \A i, j \in m.on : i = j

\* The invoices of a request and of a payment have existed.
Born(i) == i \in Invoices /\ invoice[i].status # "none"

RInv == /\ DOMAIN request = Requests
        /\ \A r \in Requests : Good(request[r])
        /\ \A r \in Requests : request[r].op # "idle" =>
             \A i \in request[r].on : Born(i)
BInv == /\ payment \in [Payments -> PaymentRow]
        /\ \A p \in Payments : payment[p].invoice # None => Born(payment[p].invoice)
IInv == /\ DOMAIN invoice = Invoices
        /\ \A i \in Invoices :
             /\ DOMAIN invoice[i] = {"status", "total", "late"}
             /\ invoice[i].status \in InvoiceStatus \cup {"none", "deleted"}
TInv == RInv /\ BInv /\ IInv

\* No invoice is unborn, and the rows keep their shape.
Ages == /\ IInv'
        /\ \A i \in Invoices : invoice[i].status # "none" => invoice'[i].status # "none"

LEMMA ExistsBorn == \A i \in Invoices : Exists(i) => Born(i)
  BY DEF Exists, Born, InvoiceStatus

-----------------------------------------------------------------------------
(* Steps as a whole: what happens to the memory of requests, to payments and *)
(* to invoices.                                                              *)

\* One request goes on to a memory that is as it should be.
Moves == \E r \in Requests : \E m :
           /\ request' = [request EXCEPT ![r] = m]
           /\ Good(m)
           /\ m.op # "idle" => \A i \in m.on : Born(i) \/ Born(i)'

LEMMA IdleGood == Good(Idle) /\ Idle.op = "idle"
  BY DEF Good, Idle

LEMMA RStep ==
  ASSUME RInv, Ages, Moves \/ request' = request
  PROVE  RInv'
  BY DEF RInv, Ages, Moves, Born

LEMMA BStep ==
  ASSUME BInv, Ages, payment' = payment
  PROVE  BInv'
  BY DEF BInv, Ages, Born

LEMMA TInit == Init => TInv
  BY IdleGood
  DEF Init, TInv, RInv, BInv, IInv, NoInvoice, NoPayment, PaymentRow

-----------------------------------------------------------------------------
(* What each step does to the invoices. *)

LEMMA AgesSame == ASSUME IInv, invoice' = invoice PROVE Ages
  BY DEF IInv, Ages

LEMMA AgesStatus ==
  ASSUME IInv, NEW i \in Invoices, NEW s \in InvoiceStatus, SetStatus(i, s)
  PROVE  Ages /\ \A j \in Invoices : invoice'[j].status = IF j = i THEN s ELSE invoice[j].status
  BY DEF IInv, Ages, SetStatus, InvoiceStatus

LEMMA AgesInsert ==
  ASSUME IInv, NEW i \in Invoices, NEW s \in InvoiceStatus, NEW total,
         InsertInvoice(i, s, total)
  PROVE  Ages /\ \A j \in Invoices : invoice'[j].status = IF j = i THEN s ELSE invoice[j].status
  BY DEF IInv, Ages, InsertInvoice, InvoiceStatus

LEMMA AgesEdit ==
  ASSUME IInv, RInv, NEW r \in Requests, updateInvoiceWrite(r)
  PROVE  Ages /\ \A j \in Invoices :
           \/ invoice'[j].status = invoice[j].status
           \/ j \in request[r].on /\ invoice'[j].status = request[r].body.status
  <1>1. PICK i \in request[r].on :
          /\ Exists(i)
          /\ invoice' = [invoice EXCEPT
               ![i].status = Given(request[r].body.status, @),
               ![i].total = Given(request[r].body.total, @),
               ![i].late = Given(request[r].body.late, @)]
    BY DEF updateInvoiceWrite
  <1>2. i \in Invoices /\ request[r].body \in Edits
    BY DEF RInv, Good, Born, updateInvoiceWrite, At
  <1>3. request[r].body.status \in InvoiceStatus \cup {Same}
    BY <1>2, EditsValidated DEF Edit
  <1> DEFINE s == Given(request[r].body.status, invoice[i].status)
  <1>4. s \in InvoiceStatus
    BY <1>1, <1>3 DEF Given, Exists
  <1>5. invoice'[i].status = s /\ DOMAIN invoice'[i] = {"status", "total", "late"}
    BY <1>1, <1>2 DEF IInv
  <1>6. DOMAIN invoice' = Invoices /\ \A j \in Invoices \ {i} : invoice'[j] = invoice[j]
    BY <1>1, <1>2 DEF IInv
  <1>7. s = invoice[i].status \/ s = request[r].body.status
    BY DEF Given
  <1> HIDE DEF s
  <1>8. IInv'
    BY <1>4, <1>5, <1>6 DEF IInv
  <1>9. Ages
    BY <1>4, <1>5, <1>6, <1>8 DEF Ages, InvoiceStatus
  <1> QED
    BY <1>5, <1>6, <1>7, <1>9

LEMMA AgesField ==
  ASSUME IInv, NEW i \in Invoices, Exists(i),
         \/ \E total : invoice' = [invoice EXCEPT ![i].total = total]
         \/ \E late : invoice' = [invoice EXCEPT ![i].late = late]
  PROVE  Ages /\ \A j \in Invoices : invoice'[j].status = invoice[j].status
  BY DEF IInv, Ages

LEMMA AgesDelete ==
  ASSUME IInv, NEW i \in Invoices, invoice' = [invoice EXCEPT ![i] = Deleted]
  PROVE  Ages /\ \A j \in Invoices : invoice'[j].status = IF j = i THEN "deleted" ELSE invoice[j].status
  BY DEF IInv, Ages, Deleted, NoInvoice

LEMMA AgesOverdue ==
  ASSUME IInv, NEW r \in Requests, getOverdueInvoicesWrite(r)
  PROVE  Ages /\ \A j \in Invoices :
           \/ invoice'[j].status = invoice[j].status
           \/ j \in request[r].on /\ Exists(j) /\ invoice'[j].status = "OVERDUE"
  BY DEF IInv, Ages, getOverdueInvoicesWrite, InvoiceStatus, Exists

-----------------------------------------------------------------------------
(* Groups of steps. *)

Reads(r) ==
  \/ \E i \in Invoices :
       \/ \E body \in Edits : updateInvoice(r, i, body)
       \/ removeInvoice(r, i) \/ sendInvoice(r, i) \/ cancelInvoice(r, i)
       \/ \E charge \in Charges : addInvoiceLine(r, i, charge)
       \/ \E l \in Lines : removeInvoiceLine(r, i, l)
  \/ addInvoiceLineRead(r)
  \/ \E p \in Payments : confirmPayment(r, p) \/ refundPayment(r, p)

Submits(r) ==
  \E i \in Invoices, amount \in Amounts :
    createPaymentByRenter(r, i, amount) \/ createPaymentByStaff(r, i, amount)

LEMMA ReadsMove ==
  ASSUME TInv, NEW r \in Requests, Reads(r)
  PROVE  \E m : /\ request' = [request EXCEPT ![r] = m] /\ Good(m)
                /\ m.op \notin {"idle", "pay", "settled", "overdue"}
                /\ \A i \in m.on : Born(i)
                /\ m.op \in {"send", "cancel"} =>
                     \A i \in m.on : invoice[i].status # "PAID"
                /\ UNCHANGED tables
  <1>1. CASE \E i \in Invoices, body \in Edits : updateInvoice(r, i, body)
    <2>1. PICK i \in Invoices, body \in Edits : updateInvoice(r, i, body)
      BY <1>1
    <2> WITNESS [op |-> "edit", on |-> {i}, body |-> body]
    <2> QED
      BY <2>1, ExistsBorn DEF updateInvoice, Begin, Good
  <1>2. CASE \E i \in Invoices : removeInvoice(r, i) \/ sendInvoice(r, i) \/ cancelInvoice(r, i)
    <2>1. PICK i \in Invoices : removeInvoice(r, i) \/ sendInvoice(r, i) \/ cancelInvoice(r, i)
      BY <1>2
    <2>2. PICK op \in {"remove", "send", "cancel"} :
            /\ request' = [request EXCEPT ![r] = [op |-> op, on |-> {i}]]
            /\ op # "remove" => invoice[i].status # "PAID"
      BY <2>1 DEF removeInvoice, sendInvoice, cancelInvoice, Begin
    <2>3. Exists(i) /\ UNCHANGED tables
      BY <2>1 DEF removeInvoice, sendInvoice, cancelInvoice
    <2> WITNESS [op |-> op, on |-> {i}]
    <2> QED
      BY <2>2, <2>3, ExistsBorn DEF Good
  <1>3. CASE \E i \in Invoices, charge \in Charges : addInvoiceLine(r, i, charge)
    <2>1. PICK i \in Invoices, charge \in Charges : addInvoiceLine(r, i, charge)
      BY <1>3
    <2> WITNESS [op |-> "line", on |-> {i}, charge |-> charge]
    <2> QED
      BY <2>1, ExistsBorn DEF addInvoiceLine, Begin, Good
  <1>4. CASE \E i \in Invoices, l \in Lines : removeInvoiceLine(r, i, l)
    <2>1. PICK i \in Invoices, l \in Lines : removeInvoiceLine(r, i, l)
      BY <1>4
    <2> WITNESS [op |-> "drop", on |-> {i}, line |-> l]
    <2> QED
      BY <2>1, ExistsBorn DEF removeInvoiceLine, Begin, Good
  <1>5. CASE addInvoiceLineRead(r)
    <2>1. PICK i \in request[r].on : request' = [request EXCEPT ![r] =
            [op |-> "total", on |-> {i},
             total |-> SumFunction([l \in LinesOf(i) |-> line[l].charge])]]
      BY <1>5 DEF addInvoiceLineRead, Continue
    <2>2. Born(i) /\ UNCHANGED tables
      BY <1>5 DEF addInvoiceLineRead, At, TInv, RInv
    <2> DEFINE sum == SumFunction([l \in LinesOf(i) |-> line[l].charge])
    <2> HIDE DEF sum
    <2>3. request' = [request EXCEPT ![r] = [op |-> "total", on |-> {i}, total |-> sum]]
      BY <2>1 DEF sum
    <2> WITNESS [op |-> "total", on |-> {i}, total |-> sum]
    <2> QED
      BY <2>2, <2>3 DEF Good
  <1>6. CASE \E p \in Payments : confirmPayment(r, p) \/ refundPayment(r, p)
    <2>1. PICK p \in Payments : confirmPayment(r, p) \/ refundPayment(r, p)
      BY <1>6
    <2>2. PICK op \in {"confirm", "refund"} :
            request' = [request EXCEPT ![r] =
              [op |-> op, on |-> InvoiceOf(p), payment |-> p]]
      BY <2>1 DEF confirmPayment, refundPayment, Begin
    <2>3. \A i \in InvoiceOf(p) : Born(i) /\ \A j \in InvoiceOf(p) : i = j
      BY DEF InvoiceOf, TInv, BInv
    <2>4. UNCHANGED tables
      BY <2>1 DEF confirmPayment, refundPayment
    <2> WITNESS [op |-> op, on |-> InvoiceOf(p), payment |-> p]
    <2> QED
      BY <2>2, <2>3, <2>4 DEF Good
  <1> QED
    BY <1>1, <1>2, <1>3, <1>4, <1>5, <1>6 DEF Reads

-----------------------------------------------------------------------------
\* Payments stay, and whichever request goes on does not come to submit one.
Quiet ==
  /\ payment' = payment
  /\ \/ request' = request
     \/ \E r \in Requests : \E m :
          /\ request' = [request EXCEPT ![r] = m] /\ Good(m) /\ m.op # "pay"
          /\ m.op # "idle" => \A i \in m.on : Born(i) \/ Born(i)'

Writes(r) ==
  \/ updateInvoiceWrite(r) \/ sendInvoiceWrite(r) \/ cancelInvoiceWrite(r)
  \/ updateInvoiceStatusWrite(r) \/ getOverdueInvoicesWrite(r)
  \/ addInvoiceLineWrite(r)

LEMMA QuietIdle ==
  ASSUME NEW r \in Requests, request' = [request EXCEPT ![r] = Idle],
         payment' = payment
  PROVE  Quiet
  BY IdleGood DEF Quiet

LEMMA QuietMove ==
  ASSUME NEW r \in Requests, NEW m, request' = [request EXCEPT ![r] = m],
         Good(m), m.op # "pay", \A i \in m.on : Born(i) \/ Born(i)',
         payment' = payment
  PROVE  Quiet
  BY DEF Quiet

LEMMA ReadsQuiet ==
  ASSUME TInv, NEW r \in Requests, Reads(r)
  PROVE  Quiet /\ Ages
  BY ReadsMove, AgesSame DEF Quiet, tables, TInv

LEMMA OverdueQuiet ==
  ASSUME TInv, NEW r \in Requests, NEW list \in SUBSET Invoices,
         getOverdueInvoices(r, list)
  PROVE  Quiet /\ Ages
  <1> DEFINE on == {i \in list : /\ Exists(i) /\ invoice[i].late
                                 /\ invoice[i].status \notin {"PAID", "CANCELLED"}}
  <1>1. request' = [request EXCEPT ![r] = [op |-> "overdue", on |-> on]]
    BY DEF getOverdueInvoices, Begin
  <1>2. \A i \in on : Born(i)
    BY ExistsBorn
  <1>3. UNCHANGED tables
    BY DEF getOverdueInvoices
  <1> DEFINE m == [op |-> "overdue", on |-> on]
  <1>4. Good(m) /\ m.op # "pay" /\ m.on = on
    BY DEF Good
  <1> HIDE DEF on, m
  <1>5. request' = [request EXCEPT ![r] = m] /\ payment' = payment
    BY <1>1, <1>3 DEF m, tables
  <1>6. Quiet
    BY <1>2, <1>4, <1>5, QuietMove
  <1> QED
    BY <1>3, <1>6, AgesSame DEF tables, TInv

LEMMA SettledType ==
  ASSUME TInv, NEW i \in Invoices, Exists(i)
  PROVE  SettledStatus(i) \in InvoiceStatus
  BY DEF SettledStatus, InvoiceStatus, Exists

LEMMA SettleQuiet ==
  ASSUME TInv, NEW r \in Requests, updateInvoiceStatus(r)
  PROVE  Quiet /\ Ages
  <1>1. PICK i \in request[r].on :
          /\ Exists(i)
          /\ request' = [request EXCEPT ![r] =
               [op |-> "settled", on |-> {i}, status |-> SettledStatus(i)]]
    BY DEF updateInvoiceStatus, Continue
  <1>2. Born(i)
    BY DEF updateInvoiceStatus, At, TInv, RInv
  <1>3. SettledStatus(i) \in InvoiceStatus
    BY <1>1, <1>2, SettledType DEF Born
  <1>4. UNCHANGED tables
    BY DEF updateInvoiceStatus
  <1> DEFINE m == [op |-> "settled", on |-> {i}, status |-> SettledStatus(i)]
  <1>5. Good(m) /\ m.op # "pay" /\ m.on = {i}
    BY <1>3 DEF Good
  <1> HIDE DEF m
  <1>6. request' = [request EXCEPT ![r] = m] /\ payment' = payment
    BY <1>1, <1>4 DEF m, tables
  <1>7. Quiet
    BY <1>2, <1>5, <1>6, QuietMove
  <1> QED
    BY <1>4, <1>7, AgesSame DEF tables, TInv

LEMMA WriteStatusAges ==
  ASSUME TInv, NEW r \in Requests, NEW op, NEW s \in InvoiceStatus,
         op # "idle", WriteStatus(r, op, s)
  PROVE  Quiet /\ Ages /\ \A j \in Invoices :
           \/ invoice'[j].status = invoice[j].status
           \/ j \in request[r].on /\ Exists(j) /\ invoice'[j].status = s
  <1>1. PICK i \in request[r].on : Exists(i) /\ SetStatus(i, s)
    BY DEF WriteStatus
  <1>2. i \in Invoices
    BY DEF WriteStatus, At, TInv, RInv, Born
  <1>3. Ages /\ \A j \in Invoices :
          invoice'[j].status = IF j = i THEN s ELSE invoice[j].status
    BY <1>1, <1>2, AgesStatus DEF TInv
  <1>4. Quiet
    BY QuietIdle DEF WriteStatus, Finish
  <1> QED
    BY <1>1, <1>3, <1>4

LEMMA WritesQuiet ==
  ASSUME TInv, NEW r \in Requests, Writes(r)
  PROVE  Quiet /\ Ages
  <1>1. CASE updateInvoiceWrite(r)
    BY <1>1, AgesEdit, QuietIdle DEF TInv, updateInvoiceWrite, Finish
  <1>2. CASE sendInvoiceWrite(r)
    BY <1>2, WriteStatusAges DEF sendInvoiceWrite, InvoiceStatus
  <1>3. CASE cancelInvoiceWrite(r)
    BY <1>3, WriteStatusAges DEF cancelInvoiceWrite, InvoiceStatus
  <1>4. CASE updateInvoiceStatusWrite(r)
    <2>1. request[r].status \in InvoiceStatus
      BY <1>4 DEF updateInvoiceStatusWrite, WriteStatus, At, TInv, RInv, Good
    <2> QED
      BY <1>4, <2>1, WriteStatusAges DEF updateInvoiceStatusWrite
  <1>5. CASE getOverdueInvoicesWrite(r)
    BY <1>5, AgesOverdue, QuietIdle DEF TInv, getOverdueInvoicesWrite, Finish
  <1>6. CASE addInvoiceLineWrite(r)
    <2>1. PICK i \in request[r].on :
            Exists(i) /\ invoice' = [invoice EXCEPT ![i].total = request[r].total]
      BY <1>6 DEF addInvoiceLineWrite
    <2>2. i \in Invoices
      BY <1>6 DEF addInvoiceLineWrite, At, TInv, RInv, Born
    <2>3. Ages
      BY <2>1, <2>2, AgesField DEF TInv
    <2> QED
      BY <1>6, <2>3, QuietIdle DEF addInvoiceLineWrite, Finish
  <1> QED
    BY <1>1, <1>2, <1>3, <1>4, <1>5, <1>6 DEF Writes

\* The steps that write at most lines.
LinesOnly(r) ==
  \/ \E l \in Lines : createInvoiceNote(r, l) \/ addInvoiceLineInsert(r, l)
  \/ removeInvoiceLineWrite(r) \/ Fail(r)

LEMMA LinesQuiet ==
  ASSUME TInv, NEW r \in Requests, LinesOnly(r)
  PROVE  Quiet /\ Ages /\ invoice' = invoice
  <1>1. CASE (\E l \in Lines : createInvoiceNote(r, l)) \/ removeInvoiceLineWrite(r) \/ Fail(r)
    <2>1. request' = [request EXCEPT ![r] = Idle] /\ payment' = payment /\ invoice' = invoice
      BY <1>1 DEF createInvoiceNote, removeInvoiceLineWrite, Fail, Finish, tables
    <2> QED
      BY <2>1, QuietIdle, AgesSame DEF TInv
  <1>2. CASE \E l \in Lines : addInvoiceLineInsert(r, l)
    <2>1. /\ request' = [request EXCEPT ![r] = [op |-> "retotal", on |-> request[r].on]]
          /\ payment' = payment /\ invoice' = invoice
      BY <1>2 DEF addInvoiceLineInsert, Continue
    <2>2. \A i \in request[r].on : Born(i) /\ \A j \in request[r].on : i = j
      BY <1>2 DEF addInvoiceLineInsert, At, TInv, RInv, Good
    <2> DEFINE m == [op |-> "retotal", on |-> request[r].on]
    <2>3. Good(m) /\ m.op # "pay" /\ m.on = request[r].on
      BY <2>2 DEF Good
    <2> HIDE DEF m
    <2>4. request' = [request EXCEPT ![r] = m]
      BY <2>1 DEF m
    <2>5. Quiet
      BY <2>1, <2>2, <2>3, <2>4, QuietMove
    <2> QED
      BY <2>1, <2>5, AgesSame DEF TInv
  <1> QED
    BY <1>1, <1>2 DEF LinesOnly

LEMMA BirthQuiet ==
  ASSUME TInv, NEW i \in Invoices, NEW total \in Totals,
         \/ \E r \in Requests : createInvoice(r, i, total)
         \/ \E l \in Lines : generateInvoiceFromBooking(i, l, total)
  PROVE  /\ Ages
         /\ payment' = payment
         /\ \/ request' = request
            \/ \E r \in Requests : request' = [request EXCEPT ![r] =
                 [op |-> "note", on |-> {i}, charge |-> total]]
         /\ invoice[i] = NoInvoice
         /\ \E s \in InvoiceStatus : \A j \in Invoices :
              invoice'[j].status = IF j = i THEN s ELSE invoice[j].status
  <1>1. PICK s \in InvoiceStatus : InsertInvoice(i, s, total)
    BY DEF createInvoice, generateInvoiceFromBooking, InvoiceStatus
  <1>2. Ages /\ \A j \in Invoices :
          invoice'[j].status = IF j = i THEN s ELSE invoice[j].status
    BY <1>1, AgesInsert DEF TInv, InvoiceStatus
  <1>3. payment' = payment
    BY DEF createInvoice, generateInvoiceFromBooking
  <1>4. \/ request' = request
        \/ \E r \in Requests : request' = [request EXCEPT ![r] =
             [op |-> "note", on |-> {i}, charge |-> total]]
    BY DEF createInvoice, generateInvoiceFromBooking, Begin
  <1>5. invoice[i] = NoInvoice
    BY <1>1 DEF InsertInvoice
  <1> QED
    BY <1>1, <1>2, <1>3, <1>4, <1>5

\* An invoice is born with any status.
LEMMA BirthIsQuiet ==
  ASSUME TInv, NEW i \in Invoices, NEW total \in Totals,
         \/ \E r \in Requests : createInvoice(r, i, total)
         \/ \E l \in Lines : generateInvoiceFromBooking(i, l, total)
  PROVE  Quiet
  <1> DEFINE m == [op |-> "note", on |-> {i}, charge |-> total]
  <1>1. Good(m) /\ m.op # "pay" /\ m.on = {i}
    BY DEF Good
  <1>2. Born(i)'
    BY BirthQuiet DEF Born, InvoiceStatus
  <1>3. payment' = payment /\ (request' = request
          \/ \E r \in Requests : request' = [request EXCEPT ![r] = m])
    BY BirthQuiet
  <1> HIDE DEF m
  <1> QED
    BY <1>1, <1>2, <1>3 DEF Quiet

LEMMA DueQuiet ==
  ASSUME TInv, NEW i \in Invoices, DueDatePasses(i)
  PROVE  Quiet /\ Ages /\ \A j \in Invoices : invoice'[j].status = invoice[j].status
  BY AgesField DEF TInv, DueDatePasses, Quiet

-----------------------------------------------------------------------------
(* The steps that write payments or are about to. *)

LEMMA SubmitsMove ==
  ASSUME TInv, NEW r \in Requests, Submits(r)
  PROVE  \E i \in Invoices : \E m :
           /\ request' = [request EXCEPT ![r] = m] /\ Good(m) /\ m.on = {i}
           /\ m.op = "pay" /\ Born(i) /\ UNCHANGED tables
           /\ m.renter => PaymentsOf(i, "PENDING") = {}
  <1>1. PICK i \in Invoices, amount \in Amounts, renter \in BOOLEAN,
             status \in {"PENDING", "COMPLETED"} :
          /\ Payable(i) /\ Pay(r, i, amount, renter, status)
          /\ renter => PaymentsOf(i, "PENDING") = {}
    BY DEF Submits, createPaymentByRenter, createPaymentByStaff
  <1>2. Born(i)
    BY <1>1, ExistsBorn DEF Payable
  <1> DEFINE m == [op |-> "pay", on |-> {i}, amount |-> amount,
                   renter |-> renter, status |-> status]
  <1>3. request' = [request EXCEPT ![r] = m] /\ UNCHANGED tables
    BY <1>1 DEF Pay, Begin
  <1>4. amount \in Nat
    BY AmountsAreNatural
  <1>5. Good(m) /\ m.on = {i} /\ m.op = "pay" /\ m.renter = renter
    BY <1>4 DEF Good
  <1> HIDE DEF m
  <1> QED
    BY <1>1, <1>2, <1>3, <1>5

LEMMA TSubmits ==
  ASSUME TInv, NEW r \in Requests, Submits(r)
  PROVE  TInv' /\ Ages
  <1>1. Ages /\ payment' = payment
    BY SubmitsMove, AgesSame DEF tables, TInv
  <1>2. Moves
    BY SubmitsMove DEF Moves
  <1> QED
    BY <1>1, <1>2, RStep, BStep DEF TInv, Ages

LEMMA TQuiet ==
  ASSUME TInv, Quiet, Ages
  PROVE  TInv'
  BY RStep, BStep DEF TInv, Ages, Quiet, Moves

\* After its payment a request settles the invoice, or ends.
LEMMA SettleGood ==
  ASSUME NEW on, \A i, j \in on : i = j
  PROVE  /\ Good([op |-> "settle", on |-> on])
         /\ [op |-> "settle", on |-> on].op = "settle"
         /\ [op |-> "settle", on |-> on].on = on
  BY DEF Good

LEMMA SettleOrEnd ==
  ASSUME TInv, NEW r \in Requests, request[r].op \notin {"idle", "overdue"},
         \/ request' = [request EXCEPT ![r] = [op |-> "settle", on |-> request[r].on]]
         \/ request' = [request EXCEPT ![r] = Idle]
  PROVE  Moves
  <1> DEFINE m == [op |-> "settle", on |-> request[r].on]
  <1>a. \A i, j \in request[r].on : i = j
    BY DEF TInv, RInv, Good
  <1>1. Good(m) /\ m.on = request[r].on
    BY <1>a, SettleGood
  <1>2. \A i \in request[r].on : Born(i)
    BY DEF TInv, RInv
  <1>3. request' = [request EXCEPT ![r] = m] \/ request' = [request EXCEPT ![r] = Idle]
    OBVIOUS
  <1> HIDE DEF m
  <1> QED
    BY <1>1, <1>2, <1>3, IdleGood DEF Moves

LEMMA InsertMove ==
  ASSUME TInv, NEW r \in Requests, NEW p \in Payments, createPaymentInsert(r, p)
  PROVE  \E i \in Invoices :
           /\ request[r].op = "pay" /\ i \in request[r].on /\ Exists(i)
           /\ payment[p] = NoPayment
           /\ payment' = [payment EXCEPT ![p] =
                [status |-> request[r].status, invoice |-> i,
                 amount |-> request[r].amount, renter |-> request[r].renter]]
           /\ \/ request' = [request EXCEPT ![r] = [op |-> "settle", on |-> request[r].on]]
              \/ request' = [request EXCEPT ![r] = Idle]
           /\ invoice' = invoice
  BY DEF createPaymentInsert, At, Continue, Finish, TInv, RInv, Born

LEMMA TInsert ==
  ASSUME TInv, NEW r \in Requests, NEW p \in Payments, createPaymentInsert(r, p)
  PROVE  TInv' /\ Ages
  <1>1. PICK i \in Invoices :
           /\ request[r].op = "pay" /\ Exists(i)
           /\ payment' = [payment EXCEPT ![p] =
                [status |-> request[r].status, invoice |-> i,
                 amount |-> request[r].amount, renter |-> request[r].renter]]
           /\ \/ request' = [request EXCEPT ![r] = [op |-> "settle", on |-> request[r].on]]
              \/ request' = [request EXCEPT ![r] = Idle]
           /\ invoice' = invoice
    BY InsertMove
  <1>2. Ages
    BY <1>1, AgesSame DEF TInv
  <1>3. RInv'
    BY <1>1, <1>2, SettleOrEnd, RStep DEF TInv
  <1>4. Good(request[r])
    BY DEF TInv, RInv
  <1>5. BInv'
    BY <1>1, <1>4, ExistsBorn DEF TInv, BInv, PaymentRow, Good, Born
  <1> QED
    BY <1>2, <1>3, <1>5 DEF TInv, Ages

PaymentWrites(r) == confirmPaymentWrite(r) \/ refundPaymentWrite(r)

LEMMA PaymentMove ==
  ASSUME TInv, NEW r \in Requests, PaymentWrites(r)
  PROVE  /\ request[r].op \in {"confirm", "refund"}
         /\ request[r].payment \in Payments
         /\ \E s \in {"COMPLETED", "REFUNDED"} :
              payment' = [payment EXCEPT ![request[r].payment].status = s]
         /\ \/ request' = [request EXCEPT ![r] = [op |-> "settle", on |-> request[r].on]]
            \/ request' = [request EXCEPT ![r] = Idle]
         /\ invoice' = invoice
  BY DEF PaymentWrites, confirmPaymentWrite, refundPaymentWrite, WritePayment, At,
         Continue, Finish, TInv, RInv, Good

LEMMA TPayment ==
  ASSUME TInv, NEW r \in Requests, PaymentWrites(r)
  PROVE  TInv' /\ Ages
  <1>1. Ages
    BY PaymentMove, AgesSame DEF TInv
  <1>2. RInv'
    BY <1>1, PaymentMove, SettleOrEnd, RStep DEF TInv
  <1>3. PICK s \in {"COMPLETED", "REFUNDED"} :
          payment' = [payment EXCEPT ![request[r].payment].status = s]
    BY PaymentMove
  <1>4. invoice' = invoice /\ request[r].payment \in Payments
    BY PaymentMove
  <1>5. BInv'
    BY <1>3, <1>4 DEF TInv, BInv, PaymentRow, Born
  <1> QED
    BY <1>1, <1>2, <1>5 DEF TInv, Ages

LEMMA RemoveMove ==
  ASSUME TInv, NEW r \in Requests, removeInvoiceWrite(r)
  PROVE  \E i \in Invoices :
           /\ invoice' = [invoice EXCEPT ![i] = Deleted]
           /\ payment' = [p \in Payments |->
                IF payment[p].invoice = i THEN [payment[p] EXCEPT !.invoice = None]
                ELSE payment[p]]
           /\ request' = [request EXCEPT ![r] = Idle]
           /\ Exists(i)
  BY DEF removeInvoiceWrite, At, Finish, TInv, RInv, Born

LEMMA TRemove ==
  ASSUME TInv, NEW r \in Requests, removeInvoiceWrite(r)
  PROVE  TInv' /\ Ages
  <1>1. PICK i \in Invoices :
           /\ invoice' = [invoice EXCEPT ![i] = Deleted]
           /\ payment' = [p \in Payments |->
                IF payment[p].invoice = i THEN [payment[p] EXCEPT !.invoice = None]
                ELSE payment[p]]
           /\ request' = [request EXCEPT ![r] = Idle]
    BY RemoveMove
  <1>2. Ages
    BY <1>1, AgesDelete DEF TInv
  <1>3. RInv'
    BY <1>1, <1>2, IdleGood, RStep DEF TInv, Moves
  <1>4. payment' \in [Payments -> PaymentRow]
    BY <1>1 DEF TInv, BInv, PaymentRow
  <1>5. \A p \in Payments : payment'[p].invoice # None =>
          payment'[p].invoice = payment[p].invoice
    BY <1>1 DEF TInv, BInv, PaymentRow
  <1>6. BInv'
    BY <1>2, <1>4, <1>5 DEF TInv, BInv, Ages, Born
  <1> QED
    BY <1>2, <1>3, <1>6 DEF TInv, Ages

-----------------------------------------------------------------------------
\* Every step is one of these.
LEMMA StepCases ==
  ASSUME Next
  PROVE  \/ \E r \in Requests : Reads(r)
         \/ \E r \in Requests, list \in SUBSET Invoices : getOverdueInvoices(r, list)
         \/ \E r \in Requests : updateInvoiceStatus(r)
         \/ \E r \in Requests : Writes(r)
         \/ \E r \in Requests : LinesOnly(r)
         \/ \E i \in Invoices, total \in Totals :
              \/ \E r \in Requests : createInvoice(r, i, total)
              \/ \E l \in Lines : generateInvoiceFromBooking(i, l, total)
         \/ \E i \in Invoices : DueDatePasses(i)
         \/ \E r \in Requests : Submits(r)
         \/ \E r \in Requests, p \in Payments : createPaymentInsert(r, p)
         \/ \E r \in Requests : PaymentWrites(r)
         \/ \E r \in Requests : removeInvoiceWrite(r)
  BY Zenon DEF Next, Starts, Goes, Reads, Writes, LinesOnly, Submits, PaymentWrites

\* The steps that leave payments alone.
LEMMA QuietOrPayment ==
  ASSUME TInv, Next
  PROVE  \/ Quiet /\ Ages
         \/ \E r \in Requests : Submits(r)
         \/ \E r \in Requests, p \in Payments : createPaymentInsert(r, p)
         \/ \E r \in Requests : PaymentWrites(r)
         \/ \E r \in Requests : removeInvoiceWrite(r)
  BY StepCases, ReadsQuiet, OverdueQuiet, SettleQuiet, WritesQuiet, LinesQuiet,
     BirthQuiet, BirthIsQuiet, DueQuiet

LEMMA TStep == TInv /\ [Next]_vars => TInv' /\ Ages
  <1>1. ASSUME TInv, Next PROVE TInv' /\ Ages
    BY <1>1, QuietOrPayment, TQuiet, TSubmits, TInsert, TPayment, TRemove
  <1>2. ASSUME TInv, UNCHANGED vars PROVE TInv' /\ Ages
    BY <1>2, AgesSame, RStep, BStep DEF TInv, vars, Ages
  <1> QED
    BY <1>1, <1>2

LEMMA TAlways == Spec => []TInv
  <1>1. TInv /\ [Next]_vars => TInv'
    BY TStep
  <1> QED
    BY <1>1, TInit, PTL DEF Spec

-----------------------------------------------------------------------------
(***************************************************************************)
(* Pending submissions.                                                    *)
(***************************************************************************)

PInv == /\ \A i \in Invoices : IsFiniteSet(Pending(i))
        /\ PendingBounded

LEMMA SubmittingFinite ==
  ASSUME NEW i
  PROVE  /\ IsFiniteSet(Submitting(i))
         /\ Cardinality(Submitting(i)) \in Nat /\ Cardinality(Requests) \in Nat
         /\ Cardinality(Submitting(i)) <= Cardinality(Requests)
  BY RequestsFinite, FS_Subset, FS_CardinalityType DEF Submitting

\* Fewer pending and fewer about to be: nothing to fear.
LEMMA PKeep ==
  ASSUME PInv, \A i \in Invoices : /\ Pending(i)' \subseteq Pending(i)
                                   /\ Submitting(i)' \subseteq Submitting(i)
  PROVE  PInv'
  <1> SUFFICES ASSUME NEW i \in Invoices
               PROVE  /\ IsFiniteSet(Pending(i)')
                      /\ Pending(i)' # {} =>
                           Cardinality(Pending(i)') + Cardinality(Submitting(i)')
                             <= Cardinality(Requests)
    BY DEF PInv, PendingBounded
  <1>1. IsFiniteSet(Pending(i)) /\ Pending(i)' \subseteq Pending(i)
    BY DEF PInv
  <1>2. /\ IsFiniteSet(Pending(i)') /\ Cardinality(Pending(i)') \in Nat
        /\ Cardinality(Pending(i)) \in Nat
        /\ Cardinality(Pending(i)') <= Cardinality(Pending(i))
    BY <1>1, FS_Subset, FS_CardinalityType
  <1>3. /\ Cardinality(Submitting(i)) \in Nat /\ Cardinality(Submitting(i)') \in Nat
        /\ Cardinality(Submitting(i)') <= Cardinality(Submitting(i))
        /\ Cardinality(Requests) \in Nat
    BY SubmittingFinite, FS_Subset, FS_CardinalityType
  <1>4. Pending(i)' # {} =>
          Cardinality(Pending(i)) + Cardinality(Submitting(i)) <= Cardinality(Requests)
    BY <1>1 DEF PInv, PendingBounded
  <1> QED
    BY <1>2, <1>3, <1>4

LEMMA SubmittingShrinks ==
  ASSUME TInv, NEW i \in Invoices,
         \A r \in Requests : request'[r] = request[r] \/ request'[r].op # "pay"
  PROVE  Submitting(i)' \subseteq Submitting(i)
  BY DEF Submitting, At

LEMMA NotPay == Idle.op # "pay" /\ \A on : [op |-> "settle", on |-> on].op # "pay"
  BY DEF Idle

LEMMA PQuiet ==
  ASSUME TInv, PInv, Quiet
  PROVE  PInv'
  <1>1. \A r \in Requests : request'[r] = request[r] \/ request'[r].op # "pay"
    BY DEF Quiet, TInv, RInv
  <1>2. \A i \in Invoices : Pending(i)' = Pending(i)
    BY DEF Quiet, Pending, PaymentsOf
  <1> QED
    BY <1>1, <1>2, SubmittingShrinks, PKeep

\* A renter's request begins only where nothing is pending.
LEMMA PSubmits ==
  ASSUME TInv, PInv, NEW r \in Requests, Submits(r)
  PROVE  PInv'
  <1>a. PICK i \in Invoices : \E m :
           /\ request' = [request EXCEPT ![r] = m] /\ m.on = {i}
           /\ m.op = "pay" /\ UNCHANGED tables
           /\ m.renter => PaymentsOf(i, "PENDING") = {}
    BY SubmitsMove
  <1>1. PICK m :
           /\ request' = [request EXCEPT ![r] = m] /\ m.on = {i}
           /\ m.op = "pay" /\ UNCHANGED tables
           /\ m.renter => PaymentsOf(i, "PENDING") = {}
    BY <1>a
  <1>2. \A j \in Invoices : Pending(j)' = Pending(j)
    BY <1>1 DEF Pending, PaymentsOf, tables
  <1>3. \A j \in Invoices \ {i} : Submitting(j)' \subseteq Submitting(j)
    BY <1>1 DEF Submitting, At, TInv, RInv
  <1>4. ~m.renter => Submitting(i)' \subseteq Submitting(i)
    BY <1>1 DEF Submitting, At, TInv, RInv
  <1>5. m.renter => Pending(i) = {}
    BY <1>1 DEF Pending
  <1>6. CASE ~m.renter
    BY <1>2, <1>3, <1>4, <1>6, PKeep
  <1>7. CASE m.renter
    <2> SUFFICES ASSUME NEW j \in Invoices
                 PROVE  /\ IsFiniteSet(Pending(j)')
                        /\ Pending(j)' # {} =>
                             Cardinality(Pending(j)') + Cardinality(Submitting(j)')
                               <= Cardinality(Requests)
      BY DEF PInv, PendingBounded
    <2>1. CASE j = i
      BY <1>2, <1>5, <1>7, <2>1 DEF PInv
    <2>2. CASE j # i
      <3>1. Submitting(j)' \subseteq Submitting(j)
        BY <1>3, <2>2
      <3>2. /\ Cardinality(Submitting(j)) \in Nat /\ Cardinality(Submitting(j)') \in Nat
            /\ Cardinality(Submitting(j)') <= Cardinality(Submitting(j))
            /\ Cardinality(Requests) \in Nat
        BY <3>1, SubmittingFinite, FS_Subset, FS_CardinalityType
      <3>3. IsFiniteSet(Pending(j)) /\ Cardinality(Pending(j)) \in Nat
        BY FS_CardinalityType DEF PInv
      <3> QED
        BY <1>2, <3>2, <3>3 DEF PInv, PendingBounded
    <2> QED
      BY <2>1, <2>2
  <1> QED
    BY <1>6, <1>7

\* The request that adds a pending submission is no longer about to.
LEMMA PInsert ==
  ASSUME TInv, PInv, NEW r \in Requests, NEW p \in Payments, createPaymentInsert(r, p)
  PROVE  PInv'
  <1>1. PICK i \in Invoices :
           /\ request[r].op = "pay" /\ i \in request[r].on
           /\ payment[p] = NoPayment
           /\ payment' = [payment EXCEPT ![p] =
                [status |-> request[r].status, invoice |-> i,
                 amount |-> request[r].amount, renter |-> request[r].renter]]
           /\ \/ request' = [request EXCEPT ![r] = [op |-> "settle", on |-> request[r].on]]
              \/ request' = [request EXCEPT ![r] = Idle]
    BY InsertMove
  <1>2. \A s \in Requests : IF s = r THEN request'[s].op # "pay" ELSE request'[s] = request[s]
    BY <1>1, NotPay DEF TInv, RInv
  <1>3. \A j \in Invoices : Submitting(j)' \subseteq Submitting(j)
    BY <1>2, SubmittingShrinks
  <1>4. \A j \in Invoices \ {i} : Pending(j)' \subseteq Pending(j)
    BY <1>1 DEF Pending, PaymentsOf, TInv, BInv
  <1>5. Pending(i)' \subseteq Pending(i) \cup {p}
    BY <1>1 DEF Pending, PaymentsOf, TInv, BInv
  <1>6. p \in Pending(i)' => request[r].renter
    BY <1>1 DEF Pending, PaymentsOf, TInv, BInv
  <1> SUFFICES ASSUME NEW j \in Invoices
               PROVE  /\ IsFiniteSet(Pending(j)')
                      /\ Pending(j)' # {} =>
                           Cardinality(Pending(j)') + Cardinality(Submitting(j)')
                             <= Cardinality(Requests)
    BY DEF PInv, PendingBounded
  <1>7. /\ Cardinality(Submitting(j)) \in Nat /\ Cardinality(Submitting(j)') \in Nat
        /\ Cardinality(Submitting(j)') <= Cardinality(Submitting(j))
        /\ Cardinality(Requests) \in Nat
    BY <1>3, SubmittingFinite, FS_Subset, FS_CardinalityType
  <1>8. IsFiniteSet(Pending(j)) /\ Cardinality(Pending(j)) \in Nat
    BY FS_CardinalityType DEF PInv
  <1>9. CASE Pending(j)' \subseteq Pending(j)
    <2>1. /\ IsFiniteSet(Pending(j)') /\ Cardinality(Pending(j)') \in Nat
          /\ Cardinality(Pending(j)') <= Cardinality(Pending(j))
      BY <1>8, <1>9, FS_Subset, FS_CardinalityType
    <2> QED
      BY <1>7, <1>8, <1>9, <2>1 DEF PInv, PendingBounded
  <1>10. CASE ~(Pending(j)' \subseteq Pending(j))
    <2>1. j = i /\ p \in Pending(i)' /\ request[r].renter
      BY <1>4, <1>5, <1>6, <1>10
    <2>2. /\ IsFiniteSet(Pending(j) \cup {p})
          /\ Cardinality(Pending(j) \cup {p}) <= Cardinality(Pending(j)) + 1
          /\ Cardinality(Pending(j) \cup {p}) \in Nat
      <3>1. /\ IsFiniteSet(Pending(j) \cup {p})
            /\ \/ Cardinality(Pending(j) \cup {p}) = Cardinality(Pending(j))
               \/ Cardinality(Pending(j) \cup {p}) = Cardinality(Pending(j)) + 1
        BY <1>8, FS_AddElement
      <3> QED
        BY <1>8, <3>1
    <2>3. /\ IsFiniteSet(Pending(j)') /\ Cardinality(Pending(j)') \in Nat
          /\ Cardinality(Pending(j)') <= Cardinality(Pending(j)) + 1
      <3>1. /\ IsFiniteSet(Pending(j)')
            /\ Cardinality(Pending(j)') <= Cardinality(Pending(j) \cup {p})
        BY <1>5, <2>1, <2>2, FS_Subset
      <3>2. Cardinality(Pending(j)') \in Nat
        BY <3>1, FS_CardinalityType
      <3> QED
        BY <1>8, <2>2, <3>1, <3>2
    <2>4. r \in Submitting(j) /\ r \notin Submitting(j)'
      BY <1>1, <1>2, <2>1 DEF Submitting, At
    <2>5. Cardinality(Submitting(j)') <= Cardinality(Submitting(j)) - 1
      <3>1. /\ IsFiniteSet(Submitting(j) \ {r})
            /\ Cardinality(Submitting(j) \ {r}) = Cardinality(Submitting(j)) - 1
        BY <2>4, SubmittingFinite, FS_RemoveElement
      <3>2. Submitting(j)' \subseteq Submitting(j) \ {r}
        BY <1>3, <2>4
      <3>3. Cardinality(Submitting(j)') <= Cardinality(Submitting(j) \ {r})
        BY <3>1, <3>2, FS_Subset
      <3> QED
        BY <3>1, <3>3
    <2>6. CASE Pending(j) # {}
      BY <1>7, <1>8, <2>3, <2>5, <2>6 DEF PInv, PendingBounded
    <2>7. CASE Pending(j) = {}
      <3>1. Cardinality(Pending(j)) = 0
        BY <2>7, FS_EmptySet
      <3>2. Cardinality(Submitting(j)) <= Cardinality(Requests)
        BY SubmittingFinite
      <3> QED
        BY <1>7, <2>3, <2>5, <3>1, <3>2
    <2> QED
      BY <2>6, <2>7
  <1> QED
    BY <1>9, <1>10

LEMMA PPayment ==
  ASSUME TInv, PInv, NEW r \in Requests, PaymentWrites(r)
  PROVE  PInv'
  <1>1. PICK s \in {"COMPLETED", "REFUNDED"} :
          payment' = [payment EXCEPT ![request[r].payment].status = s]
    BY PaymentMove
  <1>2. request[r].payment \in Payments
    BY PaymentMove
  <1>3. \A i \in Invoices : Pending(i)' \subseteq Pending(i)
    BY <1>1, <1>2 DEF Pending, PaymentsOf, TInv, BInv, PaymentRow
  <1>4. \A q \in Requests : request'[q] = request[q] \/ request'[q].op # "pay"
    <2>1. CASE request' = [request EXCEPT ![r] = Idle]
      BY <2>1, NotPay DEF TInv, RInv
    <2>2. CASE request' = [request EXCEPT ![r] = [op |-> "settle", on |-> request[r].on]]
      BY <2>2, NotPay DEF TInv, RInv
    <2> QED
      BY <2>1, <2>2, PaymentMove
  <1> QED
    BY <1>3, <1>4, SubmittingShrinks, PKeep

LEMMA PRemove ==
  ASSUME TInv, PInv, NEW r \in Requests, removeInvoiceWrite(r)
  PROVE  PInv'
  <1>1. PICK i \in Invoices :
           /\ payment' = [p \in Payments |->
                IF payment[p].invoice = i THEN [payment[p] EXCEPT !.invoice = None]
                ELSE payment[p]]
           /\ request' = [request EXCEPT ![r] = Idle]
    BY RemoveMove
  <1>2. \A p \in Payments : payment'[p] = payment[p] \/ payment'[p].invoice = None
    BY <1>1 DEF TInv, BInv, PaymentRow
  <1>3. \A j \in Invoices : Pending(j)' \subseteq Pending(j)
    BY <1>2, NoneIsNoInvoice DEF Pending, PaymentsOf
  <1>4. \A q \in Requests : request'[q] = request[q] \/ request'[q].op # "pay"
    BY <1>1, NotPay DEF TInv, RInv
  <1> QED
    BY <1>3, <1>4, SubmittingShrinks, PKeep

LEMMA PStep == TInv /\ PInv /\ [Next]_vars => PInv'
  <1>1. ASSUME TInv, PInv, Next PROVE PInv'
    BY <1>1, QuietOrPayment, PQuiet, PSubmits, PInsert, PPayment, PRemove
  <1>2. ASSUME TInv, PInv, UNCHANGED vars PROVE PInv'
    BY <1>2, PQuiet DEF vars, Quiet
  <1> QED
    BY <1>1, <1>2

\* However many requests overlap, the submissions of renters that await
\* confirmation on an invoice are never more than the requests in flight at
\* once: createPayment lets no further one begin while one is pending.
THEOREM PendingStaysBounded == Spec => []PendingBounded
  <1>1. Init => PInv
    <2> SUFFICES ASSUME Init PROVE PInv
      OBVIOUS
    <2>1. \A i \in Invoices : Pending(i) = {}
      BY DEF Init, Pending, PaymentsOf, NoPayment
    <2> QED
      BY <2>1, FS_EmptySet DEF PInv, PendingBounded
  <1>2. PInv => PendingBounded
    BY DEF PInv
  <1> QED
    BY <1>1, <1>2, PStep, TAlways, PTL DEF Spec

-----------------------------------------------------------------------------
(***************************************************************************)
(* What a request found out holds as long as nobody writes its invoices.   *)
(***************************************************************************)

\* A PAID invoice is neither sent, cancelled nor overdue; one that its payments
\* cover is settled as PAID.
Fresh(r) ==
  \A i \in request[r].on :
    /\ request[r].op \in {"send", "cancel", "overdue"} => invoice[i].status # "PAID"
    /\ request[r].op = "settled" /\ Covered(i) => request[r].status = "PAID"
    /\ request[r].op = "settled" /\ Exists(i) => request[r].status = SettledStatus(i)

FInv == \A r \in Requests : request[r].op # "idle" /\ ~stale[r] => Fresh(r)

\* The operations whose next step writes a status they tested or computed.
Promising == {"send", "cancel", "overdue", "settled"}

LEMMA PaidKept ==
  ASSUME NEW i \in Invoices,
         \A p \in Payments : payment[p].invoice = i \/ payment'[p].invoice = i =>
           payment'[p] = payment[p]
  PROVE  Paid(i)' = Paid(i)
<1> DEFINE S == PaymentsOf(i, "COMPLETED")
<1>1. PaymentsOf(i, "COMPLETED")' = S /\ \A p \in S : payment'[p] = payment[p]
  BY DEF PaymentsOf
<1>2. [p \in PaymentsOf(i, "COMPLETED")' |-> payment'[p].amount]
        = [p \in S |-> payment[p].amount]
  BY <1>1
<1> QED BY <1>2 DEF Paid, AmountOf

LEMMA SameSums ==
  ASSUME UNCHANGED tables
  PROVE  \A i : /\ Paid(i)' = Paid(i) /\ (Exists(i)' <=> Exists(i))
                /\ (Covered(i)' <=> Covered(i)) /\ SettledStatus(i)' = SettledStatus(i)
<1>1. \A i : Paid(i)' = Paid(i) /\ (Exists(i)' <=> Exists(i))
  BY DEF tables, Exists, Paid, AmountOf, PaymentsOf
<1> QED BY <1>1 DEF tables, Covered, SettledStatus

\* A payment leaves its invoice only when that is deleted.
LEMMA PaymentsStay ==
  ASSUME TInv, Next, NEW i \in Invoices, invoice'[i] = invoice[i],
         NEW p \in Payments, payment[p].invoice = i
  PROVE  payment'[p].invoice = i
<1>1. DOMAIN payment = Payments /\ payment[p] \in PaymentRow
  BY DEF TInv, BInv
<1>2. CASE Quiet BY <1>2 DEF Quiet
<1>3. ASSUME NEW r \in Requests, Submits(r) PROVE payment'[p].invoice = i
  BY <1>3, SubmitsMove DEF tables
<1>4. ASSUME NEW r \in Requests, NEW q \in Payments, createPaymentInsert(r, q)
      PROVE  payment'[p].invoice = i
  <2>1. payment[q] = NoPayment /\ \A o \in Payments \ {q} : payment'[o] = payment[o]
    BY <1>1, <1>4, InsertMove DEF TInv, BInv
  <2>2. p # q BY <2>1, NoneIsNoInvoice DEF NoPayment
  <2> QED BY <2>1, <2>2
<1>5. ASSUME NEW r \in Requests, PaymentWrites(r) PROVE payment'[p].invoice = i
  <2>1. PICK s \in {"COMPLETED", "REFUNDED"} :
          payment' = [payment EXCEPT ![request[r].payment].status = s]
    BY <1>5, PaymentMove
  <2> QED BY <1>1, <2>1 DEF TInv, BInv, PaymentRow
<1>6. ASSUME NEW r \in Requests, removeInvoiceWrite(r) PROVE payment'[p].invoice = i
  <2>1. PICK j \in Invoices :
          /\ invoice' = [invoice EXCEPT ![j] = Deleted] /\ Exists(j)
          /\ payment' = [o \in Payments |->
               IF payment[o].invoice = j THEN [payment[o] EXCEPT !.invoice = None]
               ELSE payment[o]]
    BY <1>6, RemoveMove
  <2>2. j # i
    BY <2>1 DEF Exists, Deleted, NoInvoice, InvoiceStatus, TInv, IInv
  <2> QED BY <2>1, <2>2
<1> QED BY <1>2, <1>3, <1>4, <1>5, <1>6, QuietOrPayment

\* A request that stays where it is and is still fresh knows what it knew.
LEMMA StaysFresh ==
  ASSUME TInv, FInv, Next, NEW r \in Requests, request'[r] = request[r],
         request[r].op # "idle", ~stale'[r]
  PROVE  Fresh(r)'
<1>1. request[r] # Idle BY IdleGood
<1>2. ~stale[r] /\ \A i \in request[r].on : ~Written(i)
  BY <1>1 DEF Next, History
<1> SUFFICES ASSUME NEW i \in request[r].on
             PROVE  /\ request[r].op \in {"send", "cancel", "overdue"} =>
                         invoice'[i].status # "PAID"
                    /\ request[r].op = "settled" /\ Covered(i)' =>
                         request[r].status = "PAID"
                    /\ request[r].op = "settled" /\ Exists(i)' =>
                         request[r].status = SettledStatus(i)'
  BY DEF Fresh
<1>3. i \in Invoices BY DEF TInv, RInv, Born
<1>4. /\ invoice'[i] = invoice[i]
      /\ \A p \in Payments : payment'[p].invoice = i => payment'[p] = payment[p]
  BY <1>2 DEF Written
<1>5. Paid(i)' = Paid(i)
  BY <1>3, <1>4, PaymentsStay, PaidKept
<1>6. /\ Exists(i)' <=> Exists(i)
      /\ Covered(i)' <=> Covered(i)
      /\ SettledStatus(i)' = SettledStatus(i)
  BY <1>4, <1>5 DEF Covered, Exists, SettledStatus
<1> QED BY <1>2, <1>4, <1>6 DEF FInv, Fresh

\* Whoever goes on is the request that moved.
LEMMA Mover ==
  ASSUME TInv, NEW r \in Requests, NEW s \in Requests, NEW m,
         request' = [request EXCEPT ![s] = m], request'[r] # request[r]
  PROVE  s = r /\ request'[r] = m
  BY DEF TInv, RInv

LEMMA OverduePromise ==
  ASSUME TInv, NEW r \in Requests, NEW list \in SUBSET Invoices,
         getOverdueInvoices(r, list)
  PROVE  UNCHANGED tables /\ \E m : /\ request' = [request EXCEPT ![r] = m]
               /\ m.op = "overdue" /\ \A i \in m.on : invoice[i].status # "PAID"
<1> DEFINE on == {i \in list : /\ Exists(i) /\ invoice[i].late
                               /\ invoice[i].status \notin {"PAID", "CANCELLED"}}
<1> DEFINE m == [op |-> "overdue", on |-> on]
<1>1. request' = [request EXCEPT ![r] = m] /\ UNCHANGED tables
  BY DEF getOverdueInvoices, Begin
<1>2. m.op = "overdue" /\ \A i \in m.on : invoice[i].status # "PAID"
  OBVIOUS
<1> HIDE DEF m
<1> QED BY <1>1, <1>2

LEMMA SettlePromise ==
  ASSUME TInv, NEW r \in Requests, updateInvoiceStatus(r)
  PROVE  UNCHANGED tables /\ \E m : /\ request' = [request EXCEPT ![r] = m]
               /\ m.op = "settled"
               /\ \A i \in m.on : /\ Covered(i) => m.status = "PAID"
                                  /\ m.status = SettledStatus(i)
<1>1. PICK i \in request[r].on : request' = [request EXCEPT ![r] =
             [op |-> "settled", on |-> {i}, status |-> SettledStatus(i)]]
  BY DEF updateInvoiceStatus, Continue
<1>2. Covered(i) => SettledStatus(i) = "PAID"
  BY DEF Covered, SettledStatus
<1> DEFINE m == [op |-> "settled", on |-> {i}, status |-> SettledStatus(i)]
<1>3. m.op = "settled" /\ \A j \in m.on : /\ Covered(j) => m.status = "PAID"
                                         /\ m.status = SettledStatus(j)
  BY <1>2
<1> HIDE DEF m
<1>4. request' = [request EXCEPT ![r] = m] BY <1>1 DEF m
<1>5. UNCHANGED tables BY DEF updateInvoiceStatus
<1> QED BY <1>3, <1>4, <1>5

\* A step that makes no promise.
Plain == \E r \in Requests : \E m : /\ request' = [request EXCEPT ![r] = m]
                                    /\ m.op \notin Promising

LEMMA WritesEnd ==
  ASSUME NEW r \in Requests, Writes(r)
  PROVE  request' = [request EXCEPT ![r] = Idle]
  BY DEF Writes, updateInvoiceWrite, sendInvoiceWrite, cancelInvoiceWrite,
     updateInvoiceStatusWrite, getOverdueInvoicesWrite, addInvoiceLineWrite,
     WriteStatus, Finish

LEMMA PlainSteps ==
  ASSUME TInv, NEW r \in Requests,
         \/ Writes(r) \/ LinesOnly(r) \/ Submits(r) \/ PaymentWrites(r)
         \/ removeInvoiceWrite(r)
         \/ \E p \in Payments : createPaymentInsert(r, p)
  PROVE  Plain
<1>1. Idle.op \notin Promising BY IdleGood DEF Promising
<1>2. CASE request' = [request EXCEPT ![r] = Idle] BY <1>1, <1>2 DEF Plain
<1>3. ASSUME NEW op, op \notin Promising,
             request' = [request EXCEPT ![r] = [op |-> op, on |-> request[r].on]]
      PROVE  Plain
  <2> DEFINE m == [op |-> op, on |-> request[r].on]
  <2>1. m.op \notin Promising BY <1>3
  <2>2. request' = [request EXCEPT ![r] = m] BY <1>3
  <2> HIDE DEF m
  <2> QED BY <2>1, <2>2 DEF Plain
<1>4. CASE Writes(r) BY <1>2, <1>4, WritesEnd
<1>5. CASE LinesOnly(r)
  <2>1. \/ request' = [request EXCEPT ![r] = Idle]
        \/ request' = [request EXCEPT ![r] = [op |-> "retotal", on |-> request[r].on]]
    BY <1>5 DEF LinesOnly, createInvoiceNote, addInvoiceLineInsert,
       removeInvoiceLineWrite, Fail, Finish, Continue
  <2> QED BY <1>2, <1>3, <2>1 DEF Promising
<1>6. CASE Submits(r) BY <1>6, SubmitsMove DEF Plain, Promising
<1>7. CASE PaymentWrites(r) \/ \E p \in Payments : createPaymentInsert(r, p)
  <2>1. \/ request' = [request EXCEPT ![r] = Idle]
        \/ request' = [request EXCEPT ![r] = [op |-> "settle", on |-> request[r].on]]
    BY <1>7, PaymentMove, InsertMove
  <2> QED BY <1>2, <1>3, <2>1 DEF Promising
<1>8. CASE removeInvoiceWrite(r) BY <1>2, <1>8, RemoveMove
<1> QED BY <1>4, <1>5, <1>6, <1>7, <1>8

LEMMA BirthPlain ==
  ASSUME TInv, NEW i \in Invoices, NEW total \in Totals,
         \/ \E r \in Requests : createInvoice(r, i, total)
         \/ \E l \in Lines : generateInvoiceFromBooking(i, l, total)
  PROVE  Plain \/ request' = request
<1> DEFINE m == [op |-> "note", on |-> {i}, charge |-> total]
<1>1. m.op \notin Promising BY DEF Promising
<1>2. request' = request \/ \E r \in Requests : request' = [request EXCEPT ![r] = m]
  BY BirthQuiet
<1> HIDE DEF m
<1> QED BY <1>1, <1>2 DEF Plain

\* A request that goes on promises what it has just seen.
LEMMA MovesFresh ==
  ASSUME TInv, Next, NEW r \in Requests, request'[r] # request[r]
  PROVE  Fresh(r)'
<1>1. CASE Plain BY <1>1, Mover DEF Plain, Fresh, Promising
<1>2. ASSUME NEW s \in Requests, Reads(s) PROVE Fresh(r)'
  <2>1. PICK m : /\ request' = [request EXCEPT ![s] = m]
                 /\ m.op \notin {"idle", "pay", "settled", "overdue"}
                 /\ m.op \in {"send", "cancel"} =>
                      \A i \in m.on : invoice[i].status # "PAID"
                 /\ UNCHANGED tables
    BY <1>2, ReadsMove
  <2>2. request'[r] = m BY <2>1, Mover
  <2> QED BY <2>1, <2>2 DEF Fresh, tables
<1>3. ASSUME NEW s \in Requests, NEW list \in SUBSET Invoices,
             getOverdueInvoices(s, list)
      PROVE  Fresh(r)'
  <2>1. PICK m : /\ request' = [request EXCEPT ![s] = m] /\ UNCHANGED tables
                 /\ m.op = "overdue" /\ \A i \in m.on : invoice[i].status # "PAID"
    BY <1>3, OverduePromise
  <2>2. request'[r] = m BY <2>1, Mover
  <2> QED BY <2>1, <2>2 DEF Fresh, tables
<1>4. ASSUME NEW s \in Requests, updateInvoiceStatus(s) PROVE Fresh(r)'
  <2>1. PICK m : /\ request' = [request EXCEPT ![s] = m] /\ UNCHANGED tables
                 /\ m.op = "settled"
                 /\ \A i \in m.on : /\ Covered(i) => m.status = "PAID"
                                    /\ m.status = SettledStatus(i)
    BY <1>4, SettlePromise
  <2>2. request'[r] = m BY <2>1, Mover
  <2>3. \A i : (Covered(i)' <=> Covered(i)) /\ SettledStatus(i)' = SettledStatus(i)
    BY <2>1, SameSums
  <2> QED BY <2>1, <2>2, <2>3 DEF Fresh
<1>5. ASSUME NEW i \in Invoices, DueDatePasses(i) PROVE FALSE
  BY <1>5 DEF DueDatePasses
<1> QED
  BY <1>1, <1>2, <1>3, <1>4, <1>5, StepCases, PlainSteps, BirthPlain

LEMMA FStep == TInv /\ FInv /\ [Next]_vars => FInv'
<1>1. ASSUME TInv, FInv, Next PROVE FInv'
  BY <1>1, StaysFresh, MovesFresh DEF FInv
<1>2. ASSUME FInv, UNCHANGED vars PROVE FInv'
  <2>1. \A i : /\ (Exists(i)' <=> Exists(i)) /\ (Covered(i)' <=> Covered(i))
               /\ SettledStatus(i)' = SettledStatus(i)
    BY <1>2, SameSums DEF vars, tables
  <2> QED BY <1>2, <2>1 DEF vars, FInv, Fresh
<1> QED BY <1>1, <1>2

-----------------------------------------------------------------------------
\* The step of a fresh request that is not a PATCH.
LEMMA PaidStays ==
  ASSUME TInv, FInv, Next, NEW r \in Requests, NEW i \in Invoices,
         request[r] # Idle, request'[r] # request[r], ~stale[r], ~At(r, "edit"),
         invoice[i].status = "PAID", Covered(i), Covered(i)'
  PROVE  invoice'[i].status = "PAID"
<1>1. CASE invoice'[i].status = invoice[i].status BY <1>1
<1>2. ASSUME UNCHANGED tables PROVE invoice'[i].status = "PAID"
  BY <1>2 DEF tables
<1>3. ASSUME NEW s \in Requests, Writes(s) PROVE invoice'[i].status = "PAID"
  <2>1. s = r BY <1>3, WritesEnd, Mover
  <2>2. request[r].op # "idle" => Fresh(r) BY DEF FInv
  <2>3. CASE updateInvoiceWrite(r) BY <2>3 DEF updateInvoiceWrite
  <2>4. CASE sendInvoiceWrite(r)
    BY <1>1, <2>2, <2>4, WriteStatusAges
    DEF sendInvoiceWrite, WriteStatus, At, Fresh, InvoiceStatus
  <2>5. CASE cancelInvoiceWrite(r)
    BY <1>1, <2>2, <2>5, WriteStatusAges
    DEF cancelInvoiceWrite, WriteStatus, At, Fresh, InvoiceStatus
  <2>6. CASE updateInvoiceStatusWrite(r)
    <3>1. request[r].op = "settled"
      BY <2>6 DEF updateInvoiceStatusWrite, WriteStatus, At
    <3>2. request[r].status \in InvoiceStatus BY <3>1 DEF TInv, RInv, Good
    <3>3. \/ invoice'[i].status = invoice[i].status
          \/ i \in request[r].on /\ invoice'[i].status = request[r].status
      BY <2>6, <3>2, WriteStatusAges DEF updateInvoiceStatusWrite
    <3> QED BY <1>1, <2>2, <3>1, <3>3 DEF Fresh
  <2>7. CASE getOverdueInvoicesWrite(r)
    <3>1. request[r].op = "overdue" BY <2>7 DEF getOverdueInvoicesWrite, At
    <3> QED BY <1>1, <2>2, <2>7, <3>1, AgesOverdue DEF Fresh, TInv
  <2>8. CASE addInvoiceLineWrite(r)
    <3>1. PICK j \in request[r].on :
            invoice' = [invoice EXCEPT ![j].total = request[r].total]
      BY <2>8 DEF addInvoiceLineWrite
    <3>2. invoice'[i].status = invoice[i].status
      BY <3>1 DEF TInv, IInv
    <3> QED BY <1>1, <3>2
  <2> QED BY <1>3, <2>1, <2>3, <2>4, <2>5, <2>6, <2>7, <2>8 DEF Writes
<1>4. ASSUME NEW s \in Requests, removeInvoiceWrite(s) PROVE invoice'[i].status = "PAID"
  <2>1. PICK j \in Invoices : invoice' = [invoice EXCEPT ![j] = Deleted]
    BY <1>4, RemoveMove
  <2>2. i # j
    BY <2>1 DEF Covered, Exists, Deleted, NoInvoice, InvoiceStatus, TInv, IInv
  <2> QED BY <1>1, <2>1, <2>2
<1>5. ASSUME NEW j \in Invoices, NEW total \in Totals,
             \/ \E s \in Requests : createInvoice(s, j, total)
             \/ \E l \in Lines : generateInvoiceFromBooking(j, l, total)
      PROVE  invoice'[i].status = "PAID"
  <2>1. invoice[j] = NoInvoice /\ \A k \in Invoices \ {j} :
          invoice'[k].status = invoice[k].status
    BY <1>5, BirthQuiet
  <2>2. i # j BY <2>1 DEF NoInvoice
  <2> QED BY <1>1, <2>1, <2>2
<1>6. ASSUME NEW j \in Invoices, DueDatePasses(j) PROVE FALSE
  BY <1>6 DEF DueDatePasses
<1>7. ASSUME NEW s \in Requests,
             \/ Reads(s) \/ Submits(s) \/ updateInvoiceStatus(s)
             \/ \E list \in SUBSET Invoices : getOverdueInvoices(s, list)
      PROVE  invoice'[i].status = "PAID"
  BY <1>2, <1>7, ReadsMove, SubmitsMove, OverduePromise, SettlePromise
<1>8. ASSUME NEW s \in Requests,
             \/ LinesOnly(s) \/ PaymentWrites(s)
             \/ \E p \in Payments : createPaymentInsert(s, p)
      PROVE  invoice'[i].status = "PAID"
  BY <1>1, <1>8, LinesQuiet, PaymentMove, InsertMove
<1> QED BY <1>3, <1>4, <1>5, <1>6, <1>7, <1>8, StepCases

\* An invoice that its payments cover stays PAID, whatever overlaps, unless a
\* PATCH or a request that somebody overtook writes it.
THEOREM FreshRequestsKeepPaid == Spec => FreshKeepsPaid
<1>1. Init => FInv
  BY DEF Init, FInv, Idle
<1>2. TInv /\ FInv /\ [Next]_vars =>
        [\A r \in Requests, i \in Invoices :
           (/\ request[r] # Idle /\ request'[r] # request[r]
            /\ ~stale[r] /\ ~At(r, "edit")
            /\ invoice[i].status = "PAID" /\ Covered(i) /\ Covered(i)')
           => invoice'[i].status = "PAID"]_vars
  BY PaidStays
<1> QED BY <1>1, <1>2, FStep, TAlways, PTL DEF Spec, FreshKeepsPaid

-----------------------------------------------------------------------------
(***************************************************************************)
(* Statuses and payments.                                                  *)
(***************************************************************************)

LEMMA NothingPaid ==
  ASSUME BInv, NEW i \in Invoices, invoice[i].status = "none"
  PROVE  Paid(i) = 0
<1> DEFINE S == PaymentsOf(i, "COMPLETED")
           f == [p \in S |-> payment[p].amount]
<1>1. S = {}
  BY NoneIsNoInvoice DEF BInv, Born, PaymentsOf
<1>2. IsFiniteSet(S) /\ f \in [S -> Nat] /\ DOMAIN f = S
  BY <1>1, FS_EmptySet
<1>3. Paid(i) = SumFunction(f)
  BY DEF Paid, AmountOf
<1> HIDE DEF f, S
<1>4. S \in SUBSET S
  OBVIOUS
<1>5. Sums(f)[S] = Summed(f, Sums(f), S)
  BY <1>2, <1>4, SumsType
<1> QED BY <1>1, <1>2, <1>3, <1>5, SumIsRecursive DEF Summed

LEMMA PaidIsNatural ==
  ASSUME BInv, NEW i \in Invoices
  PROVE  Paid(i) \in Nat
<1> DEFINE S == PaymentsOf(i, "COMPLETED")
           f == [p \in S |-> payment[p].amount]
<1>1. IsFiniteSet(S)
  BY TablesFinite, FS_Subset DEF PaymentsOf
<1>2. f \in [S -> Nat]
  BY DEF BInv, PaymentRow, PaymentsOf
<1>3. Paid(i) = SumFunction(f)
  BY DEF Paid, AmountOf
<1> HIDE DEF f, S
<1> QED BY <1>1, <1>2, <1>3, SumIsNatural

\* A request that confirms or refunds is about the invoice of its payment, if
\* that is still there.
CInv == \A r \in Requests : request[r].op \in {"confirm", "refund"} =>
          /\ payment[request[r].payment].status # "none"
          /\ InvoiceOf(request[r].payment) \subseteq request[r].on

\* A payment stays, and if it changes invoice it then has none.
LEMMA PaymentsKeep ==
  ASSUME TInv, Next, NEW p \in Payments, payment[p].status # "none"
  PROVE  payment'[p].status # "none" /\ InvoiceOf(p)' \subseteq InvoiceOf(p)
<1>1. DOMAIN payment = Payments /\ payment[p] \in PaymentRow
  BY DEF TInv, BInv
<1>2. payment'[p] = payment[p] => payment'[p].status # "none" /\ InvoiceOf(p)' = InvoiceOf(p)
  BY DEF InvoiceOf
<1>3. CASE Quiet
  BY <1>2, <1>3 DEF Quiet
<1>4. ASSUME NEW r \in Requests, Submits(r) PROVE payment'[p] = payment[p]
  BY <1>4, SubmitsMove DEF tables
<1>5. ASSUME NEW r \in Requests, NEW q \in Payments, createPaymentInsert(r, q)
      PROVE  payment'[p] = payment[p]
  <2>1. payment[q] = NoPayment /\ \A o \in Payments \ {q} : payment'[o] = payment[o]
    BY <1>1, <1>5, InsertMove DEF TInv, BInv
  <2> QED BY <2>1 DEF NoPayment
<1>6. ASSUME NEW r \in Requests, PaymentWrites(r)
      PROVE  payment'[p].status # "none" /\ payment'[p].invoice = payment[p].invoice
  <2>1. PICK s \in {"COMPLETED", "REFUNDED"} :
          payment' = [payment EXCEPT ![request[r].payment].status = s]
    BY <1>6, PaymentMove
  <2> QED BY <1>1, <2>1 DEF TInv, BInv, PaymentRow
<1>7. ASSUME NEW r \in Requests, removeInvoiceWrite(r)
      PROVE  /\ payment'[p].status # "none"
             /\ payment'[p].invoice \in {None, payment[p].invoice}
  <2>1. PICK j \in Invoices :
          payment' = [o \in Payments |->
            IF payment[o].invoice = j THEN [payment[o] EXCEPT !.invoice = None]
            ELSE payment[o]]
    BY <1>7, RemoveMove
  <2> QED BY <1>1, <2>1 DEF PaymentRow
<1> QED BY <1>2, <1>3, <1>4, <1>5, <1>6, <1>7, QuietOrPayment DEF InvoiceOf

\* A step after which nobody confirms or refunds who did not before.
LEMMA ConfirmBegins ==
  ASSUME TInv, Next, NEW r \in Requests, request'[r] # request[r],
         request'[r].op \in {"confirm", "refund"}
  PROVE  /\ payment' = payment /\ request'[r].payment \in Payments
         /\ payment[request'[r].payment].status # "none"
         /\ request'[r].on = InvoiceOf(request'[r].payment)
<1>1. ASSUME NEW s \in Requests, NEW m, request' = [request EXCEPT ![s] = m],
             m.op \notin {"confirm", "refund"}
      PROVE  FALSE
  BY <1>1, Mover
<1>2. ASSUME NEW s \in Requests, request' = [request EXCEPT ![s] = Idle] PROVE FALSE
  BY <1>1, <1>2, IdleGood
<1>3. ASSUME NEW s \in Requests, NEW op, op \notin {"confirm", "refund"}, NEW on,
             request' = [request EXCEPT ![s] = [op |-> op, on |-> on]]
      PROVE  FALSE
  <2> DEFINE m == [op |-> op, on |-> on]
  <2>1. m.op \notin {"confirm", "refund"} /\ request' = [request EXCEPT ![s] = m]
    BY <1>3
  <2> HIDE DEF m
  <2> QED BY <1>1, <2>1
<1>4. ASSUME NEW s \in Requests, Reads(s)
      PROVE  \E p \in Payments : confirmPayment(s, p) \/ refundPayment(s, p)
  <2>1. ASSUME NEW i \in Invoices, NEW body \in Edits, updateInvoice(s, i, body)
        PROVE  FALSE
    <3> DEFINE m == [op |-> "edit", on |-> {i}, body |-> body]
    <3>1. m.op \notin {"confirm", "refund"} /\ request' = [request EXCEPT ![s] = m]
      BY <2>1 DEF updateInvoice, Begin
    <3> HIDE DEF m
    <3> QED BY <1>1, <3>1
  <2>2. ASSUME NEW i \in Invoices,
               removeInvoice(s, i) \/ sendInvoice(s, i) \/ cancelInvoice(s, i)
        PROVE  FALSE
    BY <1>3, <2>2 DEF removeInvoice, sendInvoice, cancelInvoice, Begin
  <2>3. ASSUME NEW i \in Invoices, NEW charge \in Charges, addInvoiceLine(s, i, charge)
        PROVE  FALSE
    <3> DEFINE m == [op |-> "line", on |-> {i}, charge |-> charge]
    <3>1. m.op \notin {"confirm", "refund"} /\ request' = [request EXCEPT ![s] = m]
      BY <2>3 DEF addInvoiceLine, Begin
    <3> HIDE DEF m
    <3> QED BY <1>1, <3>1
  <2>4. ASSUME NEW i \in Invoices, NEW l \in Lines, removeInvoiceLine(s, i, l) PROVE FALSE
    <3> DEFINE m == [op |-> "drop", on |-> {i}, line |-> l]
    <3>1. m.op \notin {"confirm", "refund"} /\ request' = [request EXCEPT ![s] = m]
      BY <2>4 DEF removeInvoiceLine, Begin
    <3> HIDE DEF m
    <3> QED BY <1>1, <3>1
  <2>5. ASSUME addInvoiceLineRead(s) PROVE FALSE
    <3>1. PICK i : request' = [request EXCEPT ![s] =
            [op |-> "total", on |-> {i},
             total |-> SumFunction([l \in LinesOf(i) |-> line[l].charge])]]
      BY <2>5 DEF addInvoiceLineRead, Continue
    <3> DEFINE m == [op |-> "total", on |-> {i},
                     total |-> SumFunction([l \in LinesOf(i) |-> line[l].charge])]
    <3>2. m.op \notin {"confirm", "refund"} /\ request' = [request EXCEPT ![s] = m]
      BY <3>1
    <3> HIDE DEF m
    <3> QED BY <1>1, <3>2
  <2> QED BY <1>4, <2>1, <2>2, <2>3, <2>4, <2>5 DEF Reads
<1>5. ASSUME NEW s \in Requests, Writes(s) \/ removeInvoiceWrite(s) PROVE FALSE
  BY <1>2, <1>5, WritesEnd, RemoveMove
<1>6. ASSUME NEW s \in Requests, LinesOnly(s) PROVE FALSE
  <2>1. \/ request' = [request EXCEPT ![s] = Idle]
        \/ request' = [request EXCEPT ![s] = [op |-> "retotal", on |-> request[s].on]]
    BY <1>6 DEF LinesOnly, createInvoiceNote, addInvoiceLineInsert,
       removeInvoiceLineWrite, Fail, Finish, Continue
  <2> QED BY <1>2, <1>3, <2>1
<1>7. ASSUME NEW s \in Requests,
             PaymentWrites(s) \/ \E p \in Payments : createPaymentInsert(s, p)
      PROVE  FALSE
  <2>1. \/ request' = [request EXCEPT ![s] = [op |-> "settle", on |-> request[s].on]]
        \/ request' = [request EXCEPT ![s] = Idle]
    BY <1>7, PaymentMove, InsertMove
  <2> QED BY <1>2, <1>3, <2>1
<1>8. ASSUME NEW s \in Requests,
             \/ Submits(s) \/ updateInvoiceStatus(s)
             \/ \E list \in SUBSET Invoices : getOverdueInvoices(s, list)
      PROVE  FALSE
  BY <1>1, <1>8, SubmitsMove, OverduePromise, SettlePromise
<1>9. ASSUME NEW i \in Invoices, NEW total \in Totals,
             \/ \E s \in Requests : createInvoice(s, i, total)
             \/ \E l \in Lines : generateInvoiceFromBooking(i, l, total)
      PROVE  FALSE
  <2> DEFINE m == [op |-> "note", on |-> {i}, charge |-> total]
  <2>1. m.op \notin {"confirm", "refund"} /\ (request' = request
          \/ \E s \in Requests : request' = [request EXCEPT ![s] = m])
    BY <1>9, BirthQuiet
  <2> HIDE DEF m
  <2> QED BY <1>1, <2>1
<1>10. ASSUME NEW i \in Invoices, DueDatePasses(i) PROVE FALSE
  BY <1>10 DEF DueDatePasses
<1>11. PICK s \in Requests, p \in Payments : confirmPayment(s, p) \/ refundPayment(s, p)
  BY <1>4, <1>5, <1>6, <1>7, <1>8, <1>9, <1>10, StepCases
<1>12. PICK op : request' = [request EXCEPT ![s] =
                   [op |-> op, on |-> InvoiceOf(p), payment |-> p]]
  BY <1>11 DEF confirmPayment, refundPayment, Begin
<1>13. request'[r] = [op |-> op, on |-> InvoiceOf(p), payment |-> p]
  BY <1>12, Mover
<1>14. payment' = payment /\ payment[p].status # "none"
  BY <1>11 DEF confirmPayment, refundPayment, tables
<1> QED BY <1>13, <1>14

LEMMA CStep == TInv /\ CInv /\ [Next]_vars => CInv'
<1>1. ASSUME TInv, CInv, Next, NEW r \in Requests,
             request'[r].op \in {"confirm", "refund"}
      PROVE  /\ payment'[request'[r].payment].status # "none"
             /\ InvoiceOf(request[r].payment)' \subseteq request'[r].on
  <2>1. CASE request'[r] = request[r]
    <3>1. request[r].payment \in Payments
      BY <1>1, <2>1 DEF TInv, RInv, Good
    <3>2. /\ payment[request[r].payment].status # "none"
          /\ InvoiceOf(request[r].payment) \subseteq request[r].on
      BY <1>1, <2>1 DEF CInv
    <3> DEFINE p == request[r].payment
    <3>3. payment'[p].status # "none" /\ payment'[p].invoice \in {None} \cup InvoiceOf(p)
      BY <1>1, <3>1, <3>2, PaymentsKeep DEF InvoiceOf
    <3> QED BY <2>1, <3>2, <3>3 DEF InvoiceOf
  <2>2. CASE request'[r] # request[r]
    BY <1>1, <2>2, ConfirmBegins DEF InvoiceOf
  <2> QED BY <2>1, <2>2
<1>2. ASSUME CInv, UNCHANGED vars PROVE CInv'
  BY <1>2 DEF CInv, vars, InvoiceOf
<1> QED BY <1>1, <1>2 DEF CInv

\* A request that settles computes the status, writes it, or fails.
LEMMA SettlerMoves ==
  ASSUME TInv, Next, NEW r \in Requests, request'[r] # request[r],
         request[r].op \in {"settle", "settled"}
  PROVE  \/ request[r].op = "settle" /\ updateInvoiceStatus(r)
         \/ request[r].op = "settled" /\ updateInvoiceStatusWrite(r)
         \/ Fail(r)
<1>1. ASSUME NEW s \in Requests, NEW m, request' = [request EXCEPT ![s] = m] PROVE s = r
  BY <1>1, Mover
<1>2. request[r] # Idle
  BY IdleGood
<1>3. ASSUME NEW s \in Requests, Reads(s) PROVE FALSE
  <2>1. s = r
    BY <1>1, <1>3, ReadsMove
  <2> QED BY <1>2, <1>3, <2>1
    DEF Reads, updateInvoice, removeInvoice, sendInvoice, cancelInvoice, addInvoiceLine,
        removeInvoiceLine, addInvoiceLineRead, confirmPayment, refundPayment, Begin, At
<1>4. ASSUME NEW s \in Requests, NEW list \in SUBSET Invoices, getOverdueInvoices(s, list)
      PROVE  FALSE
  <2>1. s = r
    BY <1>1, <1>4, OverduePromise
  <2> QED BY <1>2, <1>4, <2>1 DEF getOverdueInvoices, Begin
<1>5. ASSUME NEW s \in Requests, updateInvoiceStatus(s)
      PROVE  request[r].op = "settle" /\ updateInvoiceStatus(r)
  <2>1. s = r
    BY <1>1, <1>5, SettlePromise
  <2> QED BY <1>5, <2>1 DEF updateInvoiceStatus, At
<1>6. ASSUME NEW s \in Requests, Writes(s)
      PROVE  request[r].op = "settled" /\ updateInvoiceStatusWrite(r)
  <2>1. s = r
    BY <1>1, <1>6, WritesEnd
  <2> QED BY <1>6, <2>1
    DEF Writes, updateInvoiceWrite, sendInvoiceWrite, cancelInvoiceWrite,
        updateInvoiceStatusWrite, getOverdueInvoicesWrite, addInvoiceLineWrite,
        WriteStatus, At
<1>7. ASSUME NEW s \in Requests, LinesOnly(s) PROVE Fail(r)
  <2>1. \E m : request' = [request EXCEPT ![s] = m]
    BY <1>7 DEF LinesOnly, createInvoiceNote, addInvoiceLineInsert,
       removeInvoiceLineWrite, Fail, Finish, Continue
  <2>2. s = r
    BY <1>1, <2>1
  <2> QED BY <1>7, <2>2
    DEF LinesOnly, createInvoiceNote, addInvoiceLineInsert, removeInvoiceLineWrite, At
<1>8. ASSUME NEW i \in Invoices, NEW total \in Totals,
             \/ \E s \in Requests : createInvoice(s, i, total)
             \/ \E l \in Lines : generateInvoiceFromBooking(i, l, total)
      PROVE  FALSE
  <2>1. PICK s \in Requests : /\ request[s] = Idle
          /\ \E m : request' = [request EXCEPT ![s] = m]
    BY <1>8 DEF createInvoice, generateInvoiceFromBooking, Begin
  <2> QED BY <1>1, <1>2, <2>1
<1>9. ASSUME NEW i \in Invoices, DueDatePasses(i) PROVE FALSE
  BY <1>9 DEF DueDatePasses
<1>10. ASSUME NEW s \in Requests, Submits(s) PROVE FALSE
  <2>1. s = r
    BY <1>1, <1>10, SubmitsMove
  <2> QED BY <1>2, <1>10, <2>1
    DEF Submits, createPaymentByRenter, createPaymentByStaff, Pay, Begin
<1>11. ASSUME NEW s \in Requests,
              PaymentWrites(s) \/ \E p \in Payments : createPaymentInsert(s, p)
       PROVE  FALSE
  <2>1. /\ request[s].op \in {"confirm", "refund", "pay"}
        /\ \E m : request' = [request EXCEPT ![s] = m]
    BY <1>11, PaymentMove, InsertMove
  <2> QED BY <1>1, <2>1
<1>12. ASSUME NEW s \in Requests, removeInvoiceWrite(s) PROVE FALSE
  <2>1. s = r
    BY <1>1, <1>12, RemoveMove
  <2> QED BY <1>12, <2>1 DEF removeInvoiceWrite, At
<1> QED BY <1>3, <1>4, <1>5, <1>6, <1>7, <1>8, <1>9, <1>10, <1>11, <1>12, StepCases

LEMMA AgreesSame ==
  ASSUME NEW i \in Invoices, Exists(i), Agrees(i), Paid(i)' = Paid(i),
         invoice'[i].status = invoice[i].status, invoice'[i].total = invoice[i].total
  PROVE  Agrees(i)'
  BY DEF Agrees, Covered, Exists

\* A request writes the status that the payments give, unless it is disturbed.
LEMMA SettledAgrees ==
  ASSUME TInv, FInv, NEW r \in Requests, NEW i \in Invoices, request[r].op = "settled",
         i \in request[r].on, request'[r] # request[r], ~Disturbs(r, i),
         Exists(i), Exists(i)', Paid(i)' = Paid(i), invoice'[i].total = invoice[i].total
  PROVE  Agrees(i)'
<1>1. ~stale[r] /\ Paid(i) # 0 /\ invoice'[i].status = request[r].status
  BY IdleGood DEF Disturbs, At
<1>2. request[r].status = SettledStatus(i)
  BY <1>1 DEF FInv, Fresh
<1>3. Paid(i) \in Nat /\ Paid(i) > 0
  BY <1>1, PaidIsNatural DEF TInv
<1>4. CASE Paid(i) >= invoice[i].total
  BY <1>1, <1>2, <1>4 DEF SettledStatus, Agrees, Covered
<1>5. CASE ~(Paid(i) >= invoice[i].total)
  <2>1. invoice'[i].status = "PARTIALLY_PAID"
    BY <1>1, <1>2, <1>3, <1>5 DEF SettledStatus
  <2> QED BY <1>5, <2>1 DEF Agrees, Covered
<1> QED BY <1>4, <1>5

\* A fresh request takes PAID from nothing and gives it to nothing.
LEMMA FreshAgrees ==
  ASSUME TInv, FInv, NEW r \in Requests, NEW i \in Invoices,
         request[r].op \in {"send", "cancel", "overdue"}, i \in request[r].on,
         request'[r] # request[r], ~Disturbs(r, i), Agrees(i), Exists(i),
         Paid(i)' = Paid(i), invoice'[i].total = invoice[i].total,
         invoice'[i].status # "PAID"
  PROVE  Agrees(i)'
<1>1. ~stale[r]
  BY IdleGood DEF Disturbs, At
<1>2. invoice[i].status # "PAID"
  BY <1>1 DEF FInv, Fresh
<1> QED BY <1>2 DEF Agrees, Covered, Exists

LEMMA WriteStatusRow ==
  ASSUME TInv, NEW r \in Requests, NEW op, NEW s, op # "idle", WriteStatus(r, op, s)
  PROVE  \A i \in Invoices :
           \/ invoice'[i] = invoice[i]
           \/ /\ i \in request[r].on /\ invoice'[i].status = s
              /\ invoice'[i].total = invoice[i].total
  BY DEF WriteStatus, SetStatus, At, TInv, RInv, IInv, Born

\* Nothing disturbs invoice i, and nobody is about to settle it.
LEMMA AgreesStill ==
  ASSUME TInv, FInv, CInv, Next, NEW i \in Invoices, Exists(i), Exists(i)',
         ~Agrees(i) => Settling(i), ~Settling(i)', \A r \in Requests : ~Disturbs(r, i)
  PROVE  Agrees(i)'
<1> SUFFICES ASSUME ~Agrees(i)' PROVE FALSE
  OBVIOUS
<1>1. ASSUME NEW r \in Requests, request[r].op \in {"settle", "settled"},
             i \in request[r].on, request'[r] # request[r]
      PROVE  FALSE
  <2>1. CASE request[r].op = "settle" /\ updateInvoiceStatus(r)
    <3>1. PICK k \in request[r].on : request' = [request EXCEPT ![r] =
            [op |-> "settled", on |-> {k}, status |-> SettledStatus(k)]]
      BY <2>1 DEF updateInvoiceStatus, Continue
    <3>2. k = i
      BY <1>1 DEF TInv, RInv, Good
    <3>3. request'[r].op = "settled" /\ i \in request'[r].on
      BY <3>1, <3>2 DEF TInv, RInv
    <3> QED BY <3>3 DEF Settling, At
  <2>2. CASE request[r].op = "settled" /\ updateInvoiceStatusWrite(r)
    <3>1. invoice'[i].total = invoice[i].total
      BY <2>2, WriteStatusRow DEF updateInvoiceStatusWrite
    <3>2. Paid(i)' = Paid(i)
      BY <2>2, PaidKept DEF updateInvoiceStatusWrite, WriteStatus
    <3> QED BY <1>1, <2>2, <3>1, <3>2, SettledAgrees
  <2>3. CASE Fail(r)
    <3>1. request'[r] = Idle /\ UNCHANGED tables
      BY <2>3 DEF Fail, Finish, TInv, RInv
    <3>2. request[r].op = "settled"
      BY <1>1, <3>1, IdleGood DEF Disturbs, At
    <3> QED BY <1>1, <3>1, <3>2, SameSums, SettledAgrees DEF tables
  <2> QED BY <1>1, <2>1, <2>2, <2>3, SettlerMoves
<1>2. Agrees(i)
  <2> SUFFICES ASSUME Settling(i) PROVE FALSE
    OBVIOUS
  <2>1. PICK r \in Requests : /\ request[r].op \in {"settle", "settled"}
                              /\ i \in request[r].on
    BY DEF Settling, At
  <2>2. request'[r] = request[r]
    BY <1>1, <2>1
  <2> QED BY <2>1, <2>2 DEF Settling, At
<1>3. ASSUME invoice'[i].status = invoice[i].status, invoice'[i].total = invoice[i].total,
             Paid(i)' = Paid(i)
      PROVE  FALSE
  BY <1>2, <1>3, AgreesSame
<1>4. ASSUME invoice'[i] = invoice[i], payment' = payment PROVE FALSE
  BY <1>3, <1>4, PaidKept
<1>5. ASSUME NEW r \in Requests,
             \/ Reads(r) \/ Submits(r) \/ updateInvoiceStatus(r)
             \/ \E list \in SUBSET Invoices : getOverdueInvoices(r, list)
      PROVE  FALSE
  BY <1>4, <1>5, ReadsMove, SubmitsMove, OverduePromise, SettlePromise DEF tables
<1>6. ASSUME NEW r \in Requests, Writes(r) PROVE FALSE
  <2>1. payment' = payment /\ request' = [request EXCEPT ![r] = Idle]
    BY <1>6, WritesEnd DEF Writes, updateInvoiceWrite, sendInvoiceWrite,
       cancelInvoiceWrite, updateInvoiceStatusWrite, getOverdueInvoicesWrite,
       addInvoiceLineWrite, WriteStatus
  <2>2. request'[r] = Idle /\ Paid(i)' = Paid(i)
    BY <2>1, PaidKept DEF TInv, RInv
  <2>3. request[r].op # "idle"
    BY <1>6 DEF Writes, updateInvoiceWrite, sendInvoiceWrite,
       cancelInvoiceWrite, updateInvoiceStatusWrite, getOverdueInvoicesWrite,
       addInvoiceLineWrite, WriteStatus, At
  <2>4. request'[r] # request[r]
    BY <2>2, <2>3, IdleGood
  <2>5. CASE updateInvoiceWrite(r)
    <3>1. PICK k \in request[r].on : invoice' = [invoice EXCEPT
             ![k].status = Given(request[r].body.status, @),
             ![k].total = Given(request[r].body.total, @),
             ![k].late = Given(request[r].body.late, @)]
      BY <2>5 DEF updateInvoiceWrite
    <3>2. k # i => invoice'[i] = invoice[i]
      BY <3>1 DEF TInv, IInv
    <3>3. k = i => Disturbs(r, i)
      BY <2>4, <2>5, IdleGood DEF Disturbs, At, updateInvoiceWrite
    <3> QED BY <1>4, <2>1, <3>2, <3>3
  <2>6. CASE addInvoiceLineWrite(r)
    <3>1. PICK k \in request[r].on : invoice' = [invoice EXCEPT
             ![k].total = request[r].total]
      BY <2>6 DEF addInvoiceLineWrite
    <3>2. k # i => invoice'[i] = invoice[i]
      BY <3>1 DEF TInv, IInv
    <3>3. k = i => Disturbs(r, i)
      BY <2>4, <2>6, IdleGood DEF Disturbs, At, addInvoiceLineWrite
    <3> QED BY <1>4, <2>1, <3>2, <3>3
  <2>7. ASSUME NEW op \in {"send", "cancel"}, NEW s \in {"SENT", "CANCELLED"},
               WriteStatus(r, op, s)
        PROVE  FALSE
    <3>1. invoice'[i] # invoice[i]
      BY <1>4, <2>1
    <3>2. /\ i \in request[r].on /\ invoice'[i].status # "PAID"
          /\ invoice'[i].total = invoice[i].total
      BY <2>7, <3>1, WriteStatusRow
    <3>3. request[r].op \in {"send", "cancel"}
      BY <2>7 DEF WriteStatus, At
    <3> QED BY <1>2, <2>2, <2>4, <3>2, <3>3, FreshAgrees
  <2>8. CASE updateInvoiceStatusWrite(r)
    <3>1. request[r].op = "settled"
      BY <2>8 DEF updateInvoiceStatusWrite, WriteStatus, At
    <3>2. i \in request[r].on
      BY <1>4, <2>1, <2>8, WriteStatusRow DEF updateInvoiceStatusWrite
    <3> QED BY <1>1, <2>4, <3>1, <3>2
  <2>9. CASE getOverdueInvoicesWrite(r)
    <3>1. /\ request[r].op = "overdue"
          /\ invoice'[i] = IF i \in request[r].on /\ Exists(i)
                           THEN [invoice[i] EXCEPT !.status = "OVERDUE"] ELSE invoice[i]
      BY <2>9 DEF getOverdueInvoicesWrite, At
    <3>2. /\ i \in request[r].on /\ invoice'[i].status # "PAID"
          /\ invoice'[i].total = invoice[i].total
      BY <1>4, <2>1, <3>1 DEF TInv, IInv
    <3> QED BY <1>2, <2>2, <2>4, <3>1, <3>2, FreshAgrees
  <2> QED BY <1>6, <2>5, <2>6, <2>7, <2>8, <2>9
          DEF Writes, sendInvoiceWrite, cancelInvoiceWrite
<1>7. ASSUME NEW r \in Requests, LinesOnly(r) PROVE FALSE
  BY <1>4, <1>7, LinesQuiet DEF LinesOnly, createInvoiceNote, addInvoiceLineInsert,
     removeInvoiceLineWrite, Fail, tables
<1>8. ASSUME NEW j \in Invoices, NEW total \in Totals,
             \/ \E r \in Requests : createInvoice(r, j, total)
             \/ \E l \in Lines : generateInvoiceFromBooking(j, l, total)
      PROVE  FALSE
  <2>1. PICK s \in InvoiceStatus : InsertInvoice(j, s, total) /\ payment' = payment
    BY <1>8 DEF createInvoice, generateInvoiceFromBooking, InvoiceStatus
  <2>2. j # i
    BY <2>1 DEF InsertInvoice, NoInvoice, Exists, InvoiceStatus
  <2>3. invoice'[i] = invoice[i]
    BY <2>1, <2>2 DEF InsertInvoice, TInv, IInv
  <2> QED BY <1>4, <2>1, <2>3
<1>9. ASSUME NEW j \in Invoices, DueDatePasses(j) PROVE FALSE
  <2>1. /\ invoice'[i].status = invoice[i].status /\ invoice'[i].total = invoice[i].total
        /\ payment' = payment
    BY <1>9 DEF DueDatePasses, TInv, IInv
  <2> QED BY <1>3, <2>1, PaidKept
<1>10. ASSUME NEW r \in Requests, NEW on, i \in on,
              request' = [request EXCEPT ![r] = [op |-> "settle", on |-> on]]
       PROVE  FALSE
  <2>1. request'[r].op = "settle" /\ i \in request'[r].on
    BY <1>10 DEF TInv, RInv
  <2> QED BY <2>1 DEF Settling, At
<1>11. ASSUME NEW r \in Requests, NEW p \in Payments, createPaymentInsert(r, p)
       PROVE  FALSE
  <2>1. PICK j \in request[r].on :
          /\ request[r].op = "pay" /\ payment[p] = NoPayment /\ invoice' = invoice
          /\ payment' = [payment EXCEPT ![p] =
               [status |-> request[r].status, invoice |-> j,
                amount |-> request[r].amount, renter |-> request[r].renter]]
          /\ IF request[r].status = "COMPLETED"
             THEN request' = [request EXCEPT ![r] = [op |-> "settle", on |-> request[r].on]]
             ELSE request' = [request EXCEPT ![r] = Idle]
    BY <1>11 DEF createPaymentInsert, At, Continue, Finish
  <2>2. CASE request[r].status = "COMPLETED" /\ i = j
    BY <1>10, <2>1, <2>2
  <2>3. CASE request[r].status # "COMPLETED" \/ i # j
    <3>1. /\ payment[p].status # "COMPLETED"
          /\ payment'[p].status = request[r].status /\ payment'[p].invoice = j
          /\ \A q \in Payments \ {p} : payment'[q] = payment[q]
      BY <2>1 DEF NoPayment, TInv, BInv
    <3>2. /\ PaymentsOf(i, "COMPLETED")' = PaymentsOf(i, "COMPLETED")
          /\ \A q \in PaymentsOf(i, "COMPLETED") : payment'[q] = payment[q]
      BY <2>3, <3>1 DEF PaymentsOf
    <3>3. Paid(i)' = Paid(i)
      BY <3>2 DEF Paid, AmountOf
    <3> QED BY <1>3, <2>1, <3>3
  <2> QED BY <2>2, <2>3
<1>12. ASSUME NEW r \in Requests, PaymentWrites(r) PROVE FALSE
  <2> DEFINE p == request[r].payment
  <2>1. /\ p \in Payments /\ invoice' = invoice /\ request[r].op \in {"confirm", "refund"}
        /\ \E s \in {"COMPLETED", "REFUNDED"} : payment' = [payment EXCEPT ![p].status = s]
        /\ IF request[r].on = {} THEN request' = [request EXCEPT ![r] = Idle]
           ELSE request' = [request EXCEPT ![r] = [op |-> "settle", on |-> request[r].on]]
    BY <1>12, PaymentMove DEF PaymentWrites, confirmPaymentWrite, refundPaymentWrite,
       WritePayment, Continue, Finish
  <2>2. i \notin request[r].on
    BY <1>10, <2>1
  <2>3. payment[p].invoice # i
    BY <2>1, <2>2, NoneIsNoInvoice DEF CInv, InvoiceOf
  <2> HIDE DEF p
  <2>4. /\ payment'[p].invoice = payment[p].invoice
        /\ \A q \in Payments \ {p} : payment'[q] = payment[q]
    BY <2>1 DEF TInv, BInv, PaymentRow
  <2>5. Paid(i)' = Paid(i)
    BY <2>3, <2>4, PaidKept
  <2> QED BY <1>3, <2>1, <2>5
<1>13. ASSUME NEW r \in Requests, removeInvoiceWrite(r) PROVE FALSE
  <2>1. PICK j \in Invoices :
          /\ invoice' = [invoice EXCEPT ![j] = Deleted]
          /\ payment' = [q \in Payments |->
               IF payment[q].invoice = j THEN [payment[q] EXCEPT !.invoice = None]
               ELSE payment[q]]
    BY <1>13, RemoveMove
  <2>2. j # i
    BY <2>1 DEF Exists, Deleted, NoInvoice, InvoiceStatus, TInv, IInv
  <2>3. \A q \in Payments : payment[q].invoice = i \/ payment'[q].invoice = i =>
          payment'[q] = payment[q]
    BY <2>1, <2>2, NoneIsNoInvoice DEF TInv, BInv, PaymentRow
  <2>4. invoice'[i] = invoice[i]
    BY <2>1, <2>2 DEF TInv, IInv
  <2> QED BY <1>3, <2>3, <2>4, PaidKept
<1> QED BY <1>5, <1>6, <1>7, <1>8, <1>9, <1>11, <1>12, <1>13, StepCases

\* Nobody has paid an invoice at its birth.
LEMMA Births ==
  ASSUME TInv, Next, NEW i \in Invoices, ~Exists(i), Exists(i)'
  PROVE  invoice[i].status = "none" /\ payment' = payment
<1>1. ASSUME invoice'[i].status = invoice[i].status PROVE FALSE
  BY <1>1 DEF Exists
<1>2. ASSUME invoice' = invoice PROVE FALSE
  BY <1>1, <1>2
<1>3. ASSUME NEW r \in Requests,
             \/ Reads(r) \/ Submits(r) \/ updateInvoiceStatus(r)
             \/ \E list \in SUBSET Invoices : getOverdueInvoices(r, list)
      PROVE  FALSE
  BY <1>2, <1>3, ReadsMove, SubmitsMove, OverduePromise, SettlePromise DEF tables
<1>4. ASSUME NEW r \in Requests,
             \/ LinesOnly(r) \/ PaymentWrites(r)
             \/ \E p \in Payments : createPaymentInsert(r, p)
      PROVE  FALSE
  BY <1>2, <1>4, LinesQuiet, PaymentMove, InsertMove
<1>5. ASSUME NEW r \in Requests, NEW op, NEW s \in InvoiceStatus, op # "idle",
             WriteStatus(r, op, s)
      PROVE  FALSE
  BY <1>1, <1>5, WriteStatusAges
<1>6. ASSUME NEW r \in Requests, Writes(r) PROVE FALSE
  <2>1. CASE updateInvoiceWrite(r)
    <3>1. PICK k \in request[r].on :
            /\ Exists(k)
            /\ invoice' = [invoice EXCEPT
                 ![k].status = Given(request[r].body.status, @),
                 ![k].total = Given(request[r].body.total, @),
                 ![k].late = Given(request[r].body.late, @)]
      BY <2>1 DEF updateInvoiceWrite
    <3>2. invoice'[i] = invoice[i]
      BY <3>1 DEF TInv, IInv
    <3> QED BY <1>1, <3>2
  <2>2. CASE sendInvoiceWrite(r) \/ cancelInvoiceWrite(r)
    BY <1>5, <2>2 DEF sendInvoiceWrite, cancelInvoiceWrite, InvoiceStatus
  <2>3. CASE updateInvoiceStatusWrite(r)
    <3>1. request[r].status \in InvoiceStatus
      BY <2>3 DEF updateInvoiceStatusWrite, WriteStatus, At, TInv, RInv, Good
    <3> QED BY <1>5, <2>3, <3>1 DEF updateInvoiceStatusWrite
  <2>4. CASE getOverdueInvoicesWrite(r)
    BY <1>1, <2>4, AgesOverdue DEF TInv
  <2>5. CASE addInvoiceLineWrite(r)
    <3>1. PICK k \in request[r].on :
            invoice' = [invoice EXCEPT ![k].total = request[r].total]
      BY <2>5 DEF addInvoiceLineWrite
    <3>2. invoice'[i].status = invoice[i].status
      BY <3>1 DEF TInv, IInv
    <3> QED BY <1>1, <3>2
  <2> QED BY <1>6, <2>1, <2>2, <2>3, <2>4, <2>5 DEF Writes
<1>7. ASSUME NEW j \in Invoices, DueDatePasses(j) PROVE FALSE
  BY <1>1, <1>7, DueQuiet
<1>8. ASSUME NEW r \in Requests, removeInvoiceWrite(r) PROVE FALSE
  <2>1. PICK j \in Invoices : invoice' = [invoice EXCEPT ![j] = Deleted]
    BY <1>8, RemoveMove
  <2>2. invoice'[i].status \in {"deleted", invoice[i].status}
    BY <2>1, AgesDelete DEF TInv
  <2> QED BY <1>1, <2>2 DEF Exists, InvoiceStatus
<1>9. PICK j \in Invoices, total \in Totals :
        \/ \E r \in Requests : createInvoice(r, j, total)
        \/ \E l \in Lines : generateInvoiceFromBooking(j, l, total)
  BY <1>3, <1>4, <1>6, <1>7, <1>8, StepCases
<1>10. /\ payment' = payment /\ invoice[j] = NoInvoice
       /\ \A k \in Invoices \ {j} : invoice'[k].status = invoice[k].status
  BY <1>9, BirthQuiet
<1> QED BY <1>1, <1>10 DEF NoInvoice

LEMMA BornAgrees ==
  ASSUME TInv, Next, NEW i \in Invoices, ~Exists(i), Exists(i)', ~BornPaid(i)
  PROVE  Agrees(i)'
<1>1. Paid(i) = 0
  BY Births, NothingPaid DEF TInv
<1>2. Paid(i)' = 0
  BY <1>1, Births, PaidKept
<1>3. invoice'[i].status # "PAID"
  BY DEF BornPaid
<1> QED BY <1>2, <1>3 DEF Agrees

LEMMA AStep == TInv /\ FInv /\ CInv /\ PaidAgrees /\ [Next]_vars => PaidAgrees'
<1>1. ASSUME TInv, FInv, CInv, PaidAgrees, Next PROVE PaidAgrees'
  <2> SUFFICES ASSUME NEW i \in Invoices, Exists(i)', ~Agrees(i)', ~Settling(i)',
                      i \notin disturbed'
               PROVE  FALSE
    BY DEF PaidAgrees
  <2>1. /\ i \notin disturbed /\ ~BornPaid(i)
        /\ \A r \in Requests : ~Disturbs(r, i)
    BY <1>1 DEF Next, History
  <2>2. CASE Exists(i)
    <3>1. ~Agrees(i) => Settling(i)
      BY <1>1, <2>1, <2>2 DEF PaidAgrees
    <3> QED BY <1>1, <2>1, <2>2, <3>1, AgreesStill
  <2>3. CASE ~Exists(i)
    BY <1>1, <2>1, <2>3, BornAgrees
  <2> QED BY <2>2, <2>3
<1>2. ASSUME PaidAgrees, UNCHANGED vars PROVE PaidAgrees'
  <2>1. \A i \in Invoices : /\ Exists(i)' <=> Exists(i)
                            /\ Agrees(i)' <=> Agrees(i)
    BY <1>2, SameSums DEF vars, tables, Agrees
  <2>2. \A i \in Invoices : Settling(i)' <=> Settling(i)
    BY <1>2 DEF vars, Settling, At
  <2> QED BY <1>2, <2>1, <2>2 DEF PaidAgrees, vars
<1> QED BY <1>1, <1>2

\* However requests overlap or fail, an invoice is PAID exactly when its
\* completed payments cover its total, or a settlement of it is under way, or
\* one of the named steps has disturbed it and none has settled it since.
THEOREM StatusesAgreeWithPayments == Spec => []PaidAgrees
<1>1. Init => PaidAgrees /\ FInv /\ CInv
  BY DEF Init, PaidAgrees, Exists, NoInvoice, InvoiceStatus, FInv, CInv, Idle
<1> QED BY <1>1, AStep, CStep, FStep, TAlways, PTL DEF Spec

-----------------------------------------------------------------------------
(* Types. *)

Memory(m) == m = Idle \/ m \in Request

LEMMA Memories ==
  ASSUME NEW on \in SUBSET Invoices
  PROVE  /\ \A op \in {"remove", "send", "cancel", "overdue", "retotal", "settle"} :
              Memory([op |-> op, on |-> on])
         /\ \A op \in {"line", "note"}, n \in Nat :
              Memory([op |-> op, on |-> on, charge |-> n])
         /\ \A n \in Nat : Memory([op |-> "total", on |-> on, total |-> n])
         /\ \A l \in Lines : Memory([op |-> "drop", on |-> on, line |-> l])
         /\ \A body \in Edits : Memory([op |-> "edit", on |-> on, body |-> body])
         /\ \A n \in Nat, renter \in BOOLEAN, status \in {"PENDING", "COMPLETED"} :
              Memory([op |-> "pay", on |-> on, amount |-> n, renter |-> renter,
                      status |-> status])
         /\ \A op \in {"confirm", "refund"}, p \in Payments :
              Memory([op |-> op, on |-> on, payment |-> p])
         /\ \A status \in InvoiceStatus :
              Memory([op |-> "settled", on |-> on, status |-> status])
         /\ Memory(Idle)
  BY SMTT(30) DEF Memory, Request, On

LEMMA MemoryOf ==
  ASSUME NEW m, Memory(m)
  PROVE  /\ m.op # "idle" => m.on \in SUBSET Invoices
         /\ m.op \in {"line", "note"} => m.charge \in Nat
         /\ m.op = "total" => m.total \in Nat
         /\ m.op = "drop" => m.line \in Lines
  BY SMTT(30) DEF Memory, Request, On, Idle

\* No request moves, or one goes on to a memory of the kind it may have.
Remembers == \/ request' = request
             \/ \E r \in Requests : \E m : /\ request' = [request EXCEPT ![r] = m]
                                           /\ Memory(m)

Typed == TypeOK /\ TInv
Rows == invoice' \in [Invoices -> InvoiceRow] /\ line' \in [Lines -> LineRow]

LEMMA HistoryTyped ==
  ASSUME TypeOK, History
  PROVE  /\ stale' \in [Requests -> BOOLEAN]
         /\ disturbed' \subseteq Invoices
  BY DEF History

LEMMA TypedStep ==
  ASSUME Typed, TInv', Next, Rows, Remembers
  PROVE  TypeOK'
<1>1. \A r \in Requests : Memory(request[r])' 
  BY DEF Remembers, Typed, TypeOK, TInv, RInv, Memory
<1>2. payment' \in [Payments -> PaymentRow]
  BY DEF TInv, BInv
<1>3. History
  BY DEF Next
<1> QED BY <1>1, <1>2, <1>3, HistoryTyped DEF Typed, TypeOK, Rows, Memory

LEMMA RowsKept ==
  ASSUME Typed
  PROVE  /\ UNCHANGED <<invoice, line>> => Rows
         /\ \A i \in Invoices, row \in InvoiceRow :
              invoice' = [invoice EXCEPT ![i] = row] =>
                invoice' \in [Invoices -> InvoiceRow]
         /\ \A l \in Lines, row \in LineRow :
              line' = [line EXCEPT ![l] = row] => line' \in [Lines -> LineRow]
  BY DEF Typed, TypeOK, Rows

LEMMA KeepsRows ==
  ASSUME Typed, UNCHANGED tables
  PROVE  Rows
  BY RowsKept DEF tables

LEMMA RemembersIdle ==
  ASSUME NEW r \in Requests, request' = [request EXCEPT ![r] = Idle]
  PROVE  Remembers
  BY DEF Remembers, Memory

LEMMA OnTyped ==
  ASSUME Typed, NEW r \in Requests, request[r].op # "idle"
  PROVE  Memory(request[r]) /\ request[r].on \in SUBSET Invoices
  BY MemoryOf DEF Typed, TypeOK, Memory

LEMMA OnInvoice ==
  ASSUME Typed, NEW r \in Requests, request[r].op # "idle", NEW i \in request[r].on
  PROVE  i \in Invoices
  BY OnTyped

LEMMA ReadsTyped ==
  ASSUME Typed, NEW r \in Requests, Reads(r)
  PROVE  Rows /\ Remembers
<1>1. ASSUME NEW m, Memory(m), request' = [request EXCEPT ![r] = m], UNCHANGED tables
      PROVE  Rows /\ Remembers
  BY <1>1, KeepsRows DEF Remembers
<1>2. \A i \in Invoices : {i} \in SUBSET Invoices
  OBVIOUS
<1>3. ASSUME NEW i \in Invoices, NEW body \in Edits, updateInvoice(r, i, body)
      PROVE  Rows /\ Remembers
  BY <1>1, <1>2, <1>3, Memories DEF updateInvoice, Begin
<1>4. ASSUME NEW i \in Invoices,
             removeInvoice(r, i) \/ sendInvoice(r, i) \/ cancelInvoice(r, i)
      PROVE  Rows /\ Remembers
  <2>1. PICK op \in {"remove", "send", "cancel"} :
          request' = [request EXCEPT ![r] = [op |-> op, on |-> {i}]]
    BY <1>4 DEF removeInvoice, sendInvoice, cancelInvoice, Begin
  <2>2. UNCHANGED tables
    BY <1>4 DEF removeInvoice, sendInvoice, cancelInvoice
  <2>3. Memory([op |-> op, on |-> {i}])
    BY <1>2, Memories
  <2> QED BY <1>1, <2>1, <2>2, <2>3
<1>5. ASSUME NEW i \in Invoices, NEW charge \in Charges, addInvoiceLine(r, i, charge)
      PROVE  Rows /\ Remembers
  <2>1. Memory([op |-> "line", on |-> {i}, charge |-> charge])
    BY <1>2, Memories, AmountsAreNatural
  <2> QED BY <1>1, <1>5, <2>1 DEF addInvoiceLine, Begin
<1>6. ASSUME NEW i \in Invoices, NEW l \in Lines, removeInvoiceLine(r, i, l)
      PROVE  Rows /\ Remembers
  <2>1. Memory([op |-> "drop", on |-> {i}, line |-> l])
    BY <1>2, Memories
  <2> QED BY <1>1, <1>6, <2>1 DEF removeInvoiceLine, Begin
<1>7. ASSUME addInvoiceLineRead(r) PROVE Rows /\ Remembers
  <2>1. PICK i \in request[r].on : request' = [request EXCEPT ![r] =
          [op |-> "total", on |-> {i},
           total |-> SumFunction([l \in LinesOf(i) |-> line[l].charge])]]
    BY <1>7 DEF addInvoiceLineRead, Continue
  <2>2. i \in Invoices /\ UNCHANGED tables
    BY <1>7, OnInvoice DEF addInvoiceLineRead, At
  <2>3. [l \in LinesOf(i) |-> line[l].charge] \in [LinesOf(i) -> Nat]
    BY DEF LinesOf, Typed, TypeOK, LineRow
  <2>4. IsFiniteSet(LinesOf(i))
    BY TablesFinite, FS_Subset DEF LinesOf
  <2> DEFINE total == SumFunction([l \in LinesOf(i) |-> line[l].charge])
  <2>5. total \in Nat
    BY <2>3, <2>4, SumIsNatural
  <2> HIDE DEF total
  <2>6. Memory([op |-> "total", on |-> {i}, total |-> total])
    BY <2>2, <2>5, Memories
  <2>7. request' = [request EXCEPT ![r] = [op |-> "total", on |-> {i}, total |-> total]]
    BY <2>1 DEF total
  <2> QED BY <1>1, <2>2, <2>6, <2>7
<1>8. ASSUME NEW p \in Payments, confirmPayment(r, p) \/ refundPayment(r, p)
      PROVE  Rows /\ Remembers
  <2>1. PICK op \in {"confirm", "refund"} : request' = [request EXCEPT ![r] =
          [op |-> op, on |-> InvoiceOf(p), payment |-> p]]
    BY <1>8 DEF confirmPayment, refundPayment, Begin
  <2>2. InvoiceOf(p) \in SUBSET Invoices
    BY DEF InvoiceOf, Typed, TypeOK, PaymentRow
  <2>3. UNCHANGED tables
    BY <1>8 DEF confirmPayment, refundPayment
  <2>4. Memory([op |-> op, on |-> InvoiceOf(p), payment |-> p])
    BY <2>2, Memories
  <2> QED BY <1>1, <2>1, <2>3, <2>4
<1> QED
  BY <1>3, <1>4, <1>5, <1>6, <1>7, <1>8 DEF Reads

LEMMA BeginsTyped ==
  ASSUME Typed, NEW r \in Requests,
         \/ Submits(r) \/ updateInvoiceStatus(r)
         \/ \E list \in SUBSET Invoices : getOverdueInvoices(r, list)
  PROVE  Rows /\ Remembers
<1>1. ASSUME NEW m, Memory(m), request' = [request EXCEPT ![r] = m], UNCHANGED tables
      PROVE  Rows /\ Remembers
  BY <1>1, KeepsRows DEF Remembers
<1>2. CASE Submits(r)
  <2>1. PICK i \in Invoices, amount \in Amounts, renter \in BOOLEAN,
             status \in {"PENDING", "COMPLETED"} : Pay(r, i, amount, renter, status)
    BY <1>2 DEF Submits, createPaymentByRenter, createPaymentByStaff
  <2>2. amount \in Nat /\ {i} \in SUBSET Invoices
    BY AmountsAreNatural
  <2>3. Memory([op |-> "pay", on |-> {i}, amount |-> amount, renter |-> renter,
                status |-> status])
    BY <2>2, Memories
  <2> QED BY <1>1, <2>1, <2>3 DEF Pay, Begin
<1>3. CASE updateInvoiceStatus(r)
  <2>1. PICK i \in request[r].on : Exists(i) /\ request' = [request EXCEPT ![r] =
          [op |-> "settled", on |-> {i}, status |-> SettledStatus(i)]]
    BY <1>3 DEF updateInvoiceStatus, Continue
  <2>2. i \in Invoices
    BY <1>3, OnInvoice DEF updateInvoiceStatus, At
  <2>3. SettledStatus(i) \in InvoiceStatus
    BY <2>1, <2>2, SettledType DEF Typed
  <2>4. Memory([op |-> "settled", on |-> {i}, status |-> SettledStatus(i)])
    BY <2>2, <2>3, Memories
  <2> QED BY <1>1, <1>3, <2>1, <2>4 DEF updateInvoiceStatus
<1>4. ASSUME NEW list \in SUBSET Invoices, getOverdueInvoices(r, list)
      PROVE  Rows /\ Remembers
  <2> DEFINE on == {i \in list : /\ Exists(i) /\ invoice[i].late
                                 /\ invoice[i].status \notin {"PAID", "CANCELLED"}}
  <2>1. request' = [request EXCEPT ![r] = [op |-> "overdue", on |-> on]]
        /\ UNCHANGED tables
    BY <1>4 DEF getOverdueInvoices, Begin
  <2>2. on \in SUBSET Invoices
    OBVIOUS
  <2> HIDE DEF on
  <2>3. Memory([op |-> "overdue", on |-> on])
    BY <2>2, Memories
  <2> QED BY <1>1, <2>1, <2>3
<1> QED BY <1>2, <1>3, <1>4

LEMMA WritesTyped ==
  ASSUME Typed, NEW r \in Requests, Writes(r)
  PROVE  Rows /\ Remembers
<1>1. Remembers
  BY WritesEnd, RemembersIdle
<1>2. line' = line
  BY DEF Writes, updateInvoiceWrite, sendInvoiceWrite, cancelInvoiceWrite,
     updateInvoiceStatusWrite, getOverdueInvoicesWrite, addInvoiceLineWrite, WriteStatus
<1> SUFFICES invoice' \in [Invoices -> InvoiceRow]
  BY <1>1, <1>2 DEF Rows, Typed, TypeOK
<1>3. ASSUME NEW op, NEW s \in InvoiceStatus, WriteStatus(r, op, s), op # "idle"
      PROVE  invoice' \in [Invoices -> InvoiceRow]
  <2>1. PICK i \in request[r].on : SetStatus(i, s)
    BY <1>3 DEF WriteStatus
  <2>2. i \in Invoices
    BY <1>3, OnInvoice DEF WriteStatus, At
  <2> QED BY <2>1, <2>2 DEF SetStatus, Typed, TypeOK, InvoiceRow
<1>4. CASE sendInvoiceWrite(r) \/ cancelInvoiceWrite(r)
  BY <1>3, <1>4 DEF sendInvoiceWrite, cancelInvoiceWrite, InvoiceStatus
<1>5. CASE updateInvoiceStatusWrite(r)
  <2>1. request[r].status \in InvoiceStatus
    BY <1>5 DEF updateInvoiceStatusWrite, WriteStatus, At, Typed, TInv, RInv, Good
  <2> QED BY <1>3, <1>5, <2>1 DEF updateInvoiceStatusWrite
<1>6. CASE getOverdueInvoicesWrite(r)
  BY <1>6 DEF getOverdueInvoicesWrite, Typed, TypeOK, InvoiceRow, InvoiceStatus
<1>7. CASE addInvoiceLineWrite(r)
  <2>1. PICK i \in request[r].on :
          invoice' = [invoice EXCEPT ![i].total = request[r].total]
    BY <1>7 DEF addInvoiceLineWrite
  <2>2. i \in Invoices /\ request[r].total \in Nat
    BY <1>7, OnTyped, MemoryOf DEF addInvoiceLineWrite, At
  <2> QED BY <2>1, <2>2 DEF Typed, TypeOK, InvoiceRow
<1>8. CASE updateInvoiceWrite(r)
  <2> DEFINE body == request[r].body
  <2>1. PICK i \in request[r].on : Exists(i) /\ invoice' = [invoice EXCEPT
            ![i].status = Given(body.status, @),
            ![i].total = Given(body.total, @),
            ![i].late = Given(body.late, @)]
    BY <1>8 DEF updateInvoiceWrite
  <2>2. i \in Invoices /\ body \in Edit
    BY <1>8, OnInvoice, EditsValidated
    DEF updateInvoiceWrite, At, Typed, TInv, RInv, Good
  <2> HIDE DEF body
  <2>3. invoice \in [Invoices -> InvoiceRow] /\ invoice[i] \in InvoiceRow
    BY <2>2 DEF Typed, TypeOK
  <2>4. invoice[i].status \in InvoiceStatus
    BY <2>1 DEF Exists
  <2>5. invoice[i].total \in Nat /\ invoice[i].late \in BOOLEAN
    BY <2>3 DEF InvoiceRow
  <2>6. /\ body.status \in InvoiceStatus \cup {Same}
        /\ body.total \in Nat \cup {Same}
        /\ body.late \in BOOLEAN \cup {Same}
    BY <2>2 DEF Edit
  <2>7. Given(body.status, invoice[i].status) \in InvoiceStatus
    BY <2>4, <2>6 DEF Given
  <2>8. Given(body.total, invoice[i].total) \in Nat
    BY <2>5, <2>6 DEF Given
  <2>9. Given(body.late, invoice[i].late) \in BOOLEAN
    BY <2>5, <2>6 DEF Given
  <2>10. [invoice[i] EXCEPT !.status = Given(body.status, @),
                            !.total = Given(body.total, @),
                            !.late = Given(body.late, @)] \in InvoiceRow
    BY <2>3, <2>7, <2>8, <2>9 DEF InvoiceRow
  <2> QED BY <2>1, <2>2, <2>3, <2>10
<1> QED BY <1>4, <1>5, <1>6, <1>7, <1>8 DEF Writes

LEMMA InsertsTyped ==
  ASSUME Typed, NEW i \in Invoices, NEW n \in Nat
  PROVE  /\ \A s \in InvoiceStatus : InsertInvoice(i, s, n) =>
              invoice' \in [Invoices -> InvoiceRow]
         /\ \A l \in Lines : InsertLine(l, i, n) => line' \in [Lines -> LineRow]
<1>1. \A s \in InvoiceStatus : [status |-> s, total |-> n, late |-> FALSE] \in InvoiceRow
  BY DEF InvoiceRow
<1>2. [invoice |-> i, charge |-> n] \in LineRow
  BY DEF LineRow
<1> QED BY <1>1, <1>2, RowsKept DEF InsertInvoice, InsertLine

LEMMA LinesTyped ==
  ASSUME Typed, NEW r \in Requests, LinesOnly(r)
  PROVE  Rows /\ Remembers
<1>1. invoice' \in [Invoices -> InvoiceRow]
  BY LinesQuiet DEF Typed, TypeOK
<1>2. ASSUME NEW l \in Lines, createInvoiceNote(r, l) PROVE Rows /\ Remembers
  <2>1. request[r].op = "note"
    BY <1>2 DEF createInvoiceNote, At
  <2>2. request[r].charge \in Nat
    BY <2>1, OnTyped, MemoryOf
  <2>3. PICK i \in request[r].on : InsertLine(l, i, request[r].charge)
    BY <1>2 DEF createInvoiceNote
  <2>4. line' \in [Lines -> LineRow]
    BY <2>1, <2>2, <2>3, OnInvoice, InsertsTyped
  <2> QED BY <1>1, <1>2, <2>4, RemembersIdle DEF createInvoiceNote, Finish, Rows
<1>3. ASSUME NEW l \in Lines, addInvoiceLineInsert(r, l) PROVE Rows /\ Remembers
  <2>1. request[r].op = "line"
    BY <1>3 DEF addInvoiceLineInsert, At
  <2>2. request[r].charge \in Nat /\ request[r].on \in SUBSET Invoices
    BY <2>1, OnTyped, MemoryOf
  <2>3. PICK i \in request[r].on : InsertLine(l, i, request[r].charge)
    BY <1>3 DEF addInvoiceLineInsert
  <2>4. line' \in [Lines -> LineRow]
    BY <2>1, <2>2, <2>3, OnInvoice, InsertsTyped
  <2>5. Memory([op |-> "retotal", on |-> request[r].on])
    BY <2>2, Memories
  <2>6. Remembers
    BY <1>3, <2>5 DEF addInvoiceLineInsert, Continue, Remembers
  <2> QED BY <1>1, <2>4, <2>6 DEF Rows
<1>4. CASE removeInvoiceLineWrite(r)
  <2>1. request[r].line \in Lines
    BY <1>4, OnTyped, MemoryOf DEF removeInvoiceLineWrite, At
  <2>2. NoLine \in LineRow
    BY DEF NoLine, LineRow
  <2>3. line' \in [Lines -> LineRow]
    BY <1>4, <2>1, <2>2, RowsKept DEF removeInvoiceLineWrite
  <2> QED BY <1>1, <1>4, <2>3, RemembersIdle DEF removeInvoiceLineWrite, Finish, Rows
<1>5. CASE Fail(r)
  BY <1>5, KeepsRows, RemembersIdle DEF Fail, Finish
<1> QED BY <1>2, <1>3, <1>4, <1>5 DEF LinesOnly

LEMMA BirthTyped ==
  ASSUME Typed, NEW i \in Invoices, NEW total \in Totals,
         \/ \E r \in Requests : createInvoice(r, i, total)
         \/ \E l \in Lines : generateInvoiceFromBooking(i, l, total)
  PROVE  Rows /\ Remembers
<1>1. total \in Nat
  BY AmountsAreNatural
<1>2. PICK s \in InvoiceStatus : InsertInvoice(i, s, total)
  BY DEF createInvoice, generateInvoiceFromBooking, InvoiceStatus
<1>3. invoice' \in [Invoices -> InvoiceRow]
  BY <1>1, <1>2, InsertsTyped
<1>4. line' = line \/ \E l \in Lines : InsertLine(l, i, total)
  BY DEF createInvoice, generateInvoiceFromBooking
<1>5. line' \in [Lines -> LineRow]
  BY <1>1, <1>4, InsertsTyped DEF Typed, TypeOK
<1>6. \/ request' = request
      \/ \E r \in Requests : request' = [request EXCEPT ![r] =
           [op |-> "note", on |-> {i}, charge |-> total]]
  BY BirthQuiet DEF Typed
<1>7. Memory([op |-> "note", on |-> {i}, charge |-> total])
  BY <1>1, Memories
<1>8. Remembers
  BY <1>6, <1>7 DEF Remembers
<1> QED BY <1>3, <1>5, <1>8 DEF Rows

LEMMA PaymentsTyped ==
  ASSUME Typed, NEW r \in Requests,
         PaymentWrites(r) \/ \E p \in Payments : createPaymentInsert(r, p)
  PROVE  Rows /\ Remembers
<1>1. /\ request[r].op \in {"pay", "confirm", "refund"} /\ invoice' = invoice
      /\ \/ request' = [request EXCEPT ![r] = [op |-> "settle", on |-> request[r].on]]
         \/ request' = [request EXCEPT ![r] = Idle]
  BY PaymentMove, InsertMove DEF Typed
<1>2. line' = line
  BY DEF PaymentWrites, confirmPaymentWrite, refundPaymentWrite, WritePayment,
     createPaymentInsert
<1>3. Memory([op |-> "settle", on |-> request[r].on])
  BY <1>1, OnTyped, Memories
<1>4. Remembers
  BY <1>1, <1>3, RemembersIdle DEF Remembers
<1> QED BY <1>1, <1>2, <1>4, RowsKept

LEMMA RemoveTyped ==
  ASSUME Typed, NEW r \in Requests, removeInvoiceWrite(r)
  PROVE  Rows /\ Remembers
<1>1. PICK i \in request[r].on :
        /\ invoice' = [invoice EXCEPT ![i] = Deleted]
        /\ line' = [l \in Lines |-> IF line[l].invoice = i THEN NoLine ELSE line[l]]
  BY DEF removeInvoiceWrite
<1>2. i \in Invoices
  BY OnInvoice DEF removeInvoiceWrite, At
<1>3. Deleted \in InvoiceRow /\ NoLine \in LineRow
  BY DEF Deleted, NoInvoice, NoLine, InvoiceRow, LineRow
<1>4. invoice' \in [Invoices -> InvoiceRow]
  BY <1>1, <1>2, <1>3, RowsKept
<1>5. line' \in [Lines -> LineRow]
  BY <1>1, <1>3 DEF Typed, TypeOK
<1> QED BY <1>4, <1>5, RemembersIdle DEF removeInvoiceWrite, Finish, Rows

LEMMA DueTyped ==
  ASSUME Typed, NEW i \in Invoices, DueDatePasses(i)
  PROVE  Rows /\ Remembers
  BY DEF DueDatePasses, Typed, TypeOK, InvoiceRow, Rows, Remembers

LEMMA NextTyped ==
  ASSUME Typed, Next
  PROVE  Rows /\ Remembers
  BY StepCases, ReadsTyped, BeginsTyped, WritesTyped, LinesTyped, BirthTyped,
     DueTyped, PaymentsTyped, RemoveTyped

\* The tables and the memory of requests keep their types: a total is a sum of
\* naturals, a PATCH gives what it was validated for.
THEOREM TypeCorrect == Spec => []TypeOK
<1>1. Init => TypeOK
  BY DEF Init, TypeOK, NoInvoice, NoLine, NoPayment, InvoiceRow, LineRow, PaymentRow
<1>2. TInv /\ TInv' /\ TypeOK /\ [Next]_vars => TypeOK'
  <2>1. ASSUME TInv, TInv', TypeOK, Next PROVE TypeOK'
    BY <2>1, NextTyped, TypedStep DEF Typed
  <2>2. ASSUME TypeOK, UNCHANGED vars PROVE TypeOK'
    BY <2>2 DEF TypeOK, vars
  <2> QED BY <2>1, <2>2
<1> QED BY <1>1, <1>2, TAlways, PTL DEF Spec

-----------------------------------------------------------------------------
(***************************************************************************)
(* What an invoice has been paid.                                          *)
(***************************************************************************)

\* One payment completes, or one that had completed is refunded.
PaidMoved(i) ==
  \/ Paid(i)' = Paid(i)
  \/ \E p \in Payments :
       \/ /\ payment[p].status # "COMPLETED" /\ payment'[p].status = "COMPLETED"
          /\ Paid(i)' = Paid(i) + payment'[p].amount
       \/ /\ payment[p].status = "COMPLETED" /\ payment'[p].status = "REFUNDED"
          /\ Paid(i) = Paid(i)' + payment[p].amount

\* What completed payments have paid of an invoice changes by the whole amount
\* of one payment: one that completes, or a completed one that is refunded.
PaidMovesByOne ==
  [][\A i \in Invoices : Exists(i) /\ Exists(i)' => PaidMoved(i)]_vars

LEMMA PaidMore ==
  ASSUME BInv, BInv', NEW i \in Invoices, NEW p \in Payments,
         p \notin PaymentsOf(i, "COMPLETED"),
         PaymentsOf(i, "COMPLETED")' = PaymentsOf(i, "COMPLETED") \cup {p},
         \A q \in PaymentsOf(i, "COMPLETED") : payment'[q].amount = payment[q].amount
  PROVE  Paid(i)' = Paid(i) + payment'[p].amount
<1> DEFINE S == PaymentsOf(i, "COMPLETED")
           f == [q \in S \cup {p} |-> payment'[q].amount]
           g == [q \in S |-> payment[q].amount]
<1>1. S \subseteq Payments /\ IsFiniteSet(S)
  BY TablesFinite, FS_Subset DEF PaymentsOf
<1>2. f \in [S \cup {p} -> Nat] /\ g \in [S -> Nat] /\ \A q \in S : g[q] = f[q]
  BY <1>1 DEF BInv, PaymentRow
<1>3. Paid(i) = SumFunction(g) /\ Paid(i)' = SumFunction(f) /\ f[p] = payment'[p].amount
  BY DEF Paid, AmountOf
<1> HIDE DEF f, g, S
<1>4. p \notin S
  BY DEF S
<1> QED BY <1>1, <1>2, <1>3, <1>4, SumWithOneMore

LEMMA PaidLess ==
  ASSUME BInv, BInv', NEW i \in Invoices, NEW p \in Payments,
         p \notin PaymentsOf(i, "COMPLETED")',
         PaymentsOf(i, "COMPLETED") = PaymentsOf(i, "COMPLETED")' \cup {p},
         \A q \in PaymentsOf(i, "COMPLETED")' : payment'[q].amount = payment[q].amount
  PROVE  Paid(i) = Paid(i)' + payment[p].amount
<1> DEFINE S == PaymentsOf(i, "COMPLETED")'
           f == [q \in S \cup {p} |-> payment[q].amount]
           g == [q \in S |-> payment'[q].amount]
<1>1. S \subseteq Payments /\ IsFiniteSet(S)
  BY TablesFinite, FS_Subset DEF PaymentsOf
<1>2. f \in [S \cup {p} -> Nat] /\ g \in [S -> Nat] /\ \A q \in S : g[q] = f[q]
  BY <1>1 DEF BInv, PaymentRow
<1>3. Paid(i)' = SumFunction(g) /\ Paid(i) = SumFunction(f) /\ f[p] = payment[p].amount
  BY DEF Paid, AmountOf
<1> HIDE DEF f, g, S
<1>4. p \notin S
  BY DEF S
<1> QED BY <1>1, <1>2, <1>3, <1>4, SumWithOneMore

LEMMA PaidStill ==
  ASSUME NEW i \in Invoices, payment' = payment
  PROVE  PaidMoved(i)
  BY PaidKept DEF PaidMoved

LEMMA PaidByInsert ==
  ASSUME TInv, TInv', NEW r \in Requests, NEW p \in Payments,
         createPaymentInsert(r, p), NEW i \in Invoices
  PROVE  PaidMoved(i)
<1>1. PICK j \in Invoices :
        /\ request[r].op = "pay" /\ payment[p] = NoPayment
        /\ payment' = [payment EXCEPT ![p] =
             [status |-> request[r].status, invoice |-> j,
              amount |-> request[r].amount, renter |-> request[r].renter]]
  BY InsertMove
<1>2. /\ payment[p].status # "COMPLETED" /\ payment[p].invoice \notin Invoices
      /\ payment'[p].status = request[r].status /\ payment'[p].invoice = j
      /\ \A q \in Payments \ {p} : payment'[q] = payment[q]
  BY <1>1, NoneIsNoInvoice DEF NoPayment, TInv, BInv
<1>3. CASE i # j
  BY <1>2, <1>3, PaidKept DEF PaidMoved
<1>4. CASE i = j /\ request[r].status = "COMPLETED"
  <2>1. /\ p \notin PaymentsOf(i, "COMPLETED")
        /\ PaymentsOf(i, "COMPLETED")' = PaymentsOf(i, "COMPLETED") \cup {p}
        /\ \A q \in PaymentsOf(i, "COMPLETED") : payment'[q].amount = payment[q].amount
    BY <1>2, <1>4 DEF PaymentsOf
  <2>2. Paid(i)' = Paid(i) + payment'[p].amount
    BY <2>1, PaidMore DEF TInv
  <2> QED BY <1>2, <1>4, <2>2 DEF PaidMoved
<1>5. CASE i = j /\ request[r].status # "COMPLETED"
  <2>1. PaymentsOf(i, "COMPLETED")' = PaymentsOf(i, "COMPLETED")
        /\ \A q \in PaymentsOf(i, "COMPLETED") : payment'[q].amount = payment[q].amount
    BY <1>2, <1>5 DEF PaymentsOf
  <2> QED BY <2>1 DEF PaidMoved, Paid, AmountOf
<1> QED BY <1>3, <1>4, <1>5

LEMMA PaidByWrite ==
  ASSUME TInv, TInv', NEW r \in Requests, PaymentWrites(r), NEW i \in Invoices
  PROVE  PaidMoved(i)
<1> DEFINE p == request[r].payment
           S == PaymentsOf(i, "COMPLETED")
<1>1. p \in Payments
  BY PaymentMove
<1>2. PICK s \in {"COMPLETED", "REFUNDED"} : payment' = [payment EXCEPT ![p].status = s]
  BY PaymentMove
<1> HIDE DEF p
<1>3. /\ payment'[p].status = s /\ payment'[p].invoice = payment[p].invoice
      /\ \A q \in Payments \ {p} : payment'[q] = payment[q]
      /\ \A q \in Payments : payment'[q].amount = payment[q].amount
  BY <1>1, <1>2 DEF TInv, BInv, PaymentRow
<1>4. CASE payment[p].invoice # i \/ (s = "COMPLETED" <=> payment[p].status = "COMPLETED")
  <2>1. PaymentsOf(i, "COMPLETED")' = S
    BY <1>3, <1>4 DEF PaymentsOf
  <2>2. \A q \in S : payment'[q].amount = payment[q].amount
    BY <1>3 DEF PaymentsOf
  <2> QED BY <2>1, <2>2 DEF PaidMoved, Paid, AmountOf
<1>5. CASE payment[p].invoice = i /\ s = "COMPLETED" /\ payment[p].status # "COMPLETED"
  <2>1. /\ p \notin S /\ PaymentsOf(i, "COMPLETED")' = S \cup {p}
        /\ \A q \in S : payment'[q].amount = payment[q].amount
    BY <1>1, <1>3, <1>5 DEF PaymentsOf
  <2>2. Paid(i)' = Paid(i) + payment'[p].amount
    BY <1>1, <2>1, PaidMore DEF TInv
  <2> QED BY <1>1, <1>3, <1>5, <2>2 DEF PaidMoved
<1>6. CASE payment[p].invoice = i /\ s = "REFUNDED" /\ payment[p].status = "COMPLETED"
  <2>1. /\ p \notin PaymentsOf(i, "COMPLETED")'
        /\ S = PaymentsOf(i, "COMPLETED")' \cup {p}
        /\ \A q \in PaymentsOf(i, "COMPLETED")' : payment'[q].amount = payment[q].amount
    BY <1>1, <1>3, <1>6 DEF PaymentsOf
  <2>2. Paid(i) = Paid(i)' + payment[p].amount
    BY <1>1, <2>1, PaidLess DEF TInv
  <2> QED BY <1>1, <1>3, <1>6, <2>2 DEF PaidMoved
<1> QED BY <1>4, <1>5, <1>6

LEMMA PaidByRemove ==
  ASSUME TInv, NEW r \in Requests, removeInvoiceWrite(r), NEW i \in Invoices, Exists(i)'
  PROVE  PaidMoved(i)
<1>1. PICK j \in Invoices :
        /\ invoice' = [invoice EXCEPT ![j] = Deleted]
        /\ payment' = [q \in Payments |->
             IF payment[q].invoice = j THEN [payment[q] EXCEPT !.invoice = None]
             ELSE payment[q]]
  BY RemoveMove
<1>2. j # i
  BY <1>1 DEF Exists, Deleted, NoInvoice, InvoiceStatus, TInv, IInv
<1>3. \A q \in Payments : payment[q].invoice = i \/ payment'[q].invoice = i =>
        payment'[q] = payment[q]
  BY <1>1, <1>2, NoneIsNoInvoice DEF TInv, BInv, PaymentRow
<1> QED BY <1>3, PaidKept DEF PaidMoved

\* No overlap counts a payment twice, loses one, or refunds what was not paid.
THEOREM PaymentsCountOnce == Spec => PaidMovesByOne
<1>1. TInv /\ TInv' /\ [Next]_vars =>
        [\A i \in Invoices : Exists(i) /\ Exists(i)' => PaidMoved(i)]_vars
  <2> SUFFICES ASSUME TInv, TInv', Next, NEW i \in Invoices, Exists(i), Exists(i)'
               PROVE  PaidMoved(i)
    OBVIOUS
  <2>1. CASE Quiet
    BY <2>1, PaidStill DEF Quiet
  <2>2. ASSUME NEW r \in Requests, Submits(r) PROVE payment' = payment
    BY <2>2, SubmitsMove DEF tables
  <2> QED
    BY <2>1, <2>2, PaidStill, PaidByInsert, PaidByWrite, PaidByRemove, QuietOrPayment
<1> QED BY <1>1, TAlways, PTL DEF Spec, PaidMovesByOne

-----------------------------------------------------------------------------
(***************************************************************************)
(* The totals that lines give.                                             *)
(***************************************************************************)

LinesTotal(i) == SumFunction([l \in LinesOf(i) |-> line[l].charge])

\* Unless somebody wrote the invoice meanwhile, the total that addInvoiceLine
\* writes is the sum of the lines that the invoice has when it is written.
FreshTotalsAreSums ==
  [][\A r \in Requests : addInvoiceLineWrite(r) /\ ~stale[r] =>
       \A i \in request[r].on : invoice'[i].total = LinesTotal(i)']_vars

LInv == \A r \in Requests : request[r].op = "total" /\ ~stale[r] =>
          \E i : /\ request[r].on = {i} /\ request[r].total = LinesTotal(i)

\* What a step does to the lines.
LinesMoved ==
  \/ line' = line
  \/ \E k \in Lines : \E j, n : InsertLine(k, j, n)
  \/ \E k : line' = [line EXCEPT ![k] = NoLine]
  \/ \E j : line' = [k \in Lines |-> IF line[k].invoice = j THEN NoLine ELSE line[k]]

LEMMA LinesMove == TInv /\ Next => LinesMoved
<1> SUFFICES ASSUME TInv, Next PROVE LinesMoved
  OBVIOUS
<1>1. ASSUME NEW r \in Requests,
             \/ Reads(r) \/ Submits(r) \/ updateInvoiceStatus(r)
             \/ \E list \in SUBSET Invoices : getOverdueInvoices(r, list)
      PROVE  line' = line
  BY <1>1, ReadsMove, SubmitsMove, OverduePromise, SettlePromise DEF tables
<1>2. ASSUME NEW r \in Requests, Writes(r) PROVE line' = line
  BY <1>2 DEF Writes, updateInvoiceWrite, sendInvoiceWrite, cancelInvoiceWrite,
     updateInvoiceStatusWrite, getOverdueInvoicesWrite, addInvoiceLineWrite, WriteStatus
<1>3. ASSUME NEW r \in Requests, LinesOnly(r) PROVE LinesMoved
  <2>1. ASSUME NEW l \in Lines, createInvoiceNote(r, l) PROVE LinesMoved
    BY <2>1 DEF createInvoiceNote, LinesMoved
  <2>2. ASSUME NEW l \in Lines, addInvoiceLineInsert(r, l) PROVE LinesMoved
    BY <2>2 DEF addInvoiceLineInsert, LinesMoved
  <2>3. CASE removeInvoiceLineWrite(r)
    BY <2>3 DEF removeInvoiceLineWrite, LinesMoved
  <2>4. CASE Fail(r)
    BY <2>4 DEF Fail, tables, LinesMoved
  <2> QED BY <1>3, <2>1, <2>2, <2>3, <2>4 DEF LinesOnly
<1>4. ASSUME NEW i \in Invoices, NEW total \in Totals,
             \/ \E r \in Requests : createInvoice(r, i, total)
             \/ \E l \in Lines : generateInvoiceFromBooking(i, l, total)
      PROVE  LinesMoved
  BY <1>4 DEF createInvoice, generateInvoiceFromBooking, LinesMoved
<1>5. ASSUME NEW i \in Invoices, DueDatePasses(i) PROVE line' = line
  BY <1>5 DEF DueDatePasses
<1>6. ASSUME NEW r \in Requests,
             PaymentWrites(r) \/ \E p \in Payments : createPaymentInsert(r, p)
      PROVE  line' = line
  BY <1>6 DEF PaymentWrites, confirmPaymentWrite, refundPaymentWrite, WritePayment,
     createPaymentInsert
<1>7. ASSUME NEW r \in Requests, removeInvoiceWrite(r) PROVE LinesMoved
  BY <1>7 DEF removeInvoiceWrite, LinesMoved
<1>8. line' = line => LinesMoved
  BY DEF LinesMoved
<1> QED BY <1>1, <1>2, <1>3, <1>4, <1>5, <1>6, <1>7, <1>8, StepCases

\* A line that an invoice keeps is not written.
LEMMA LinesStay ==
  ASSUME Typed, Next, NEW i \in Invoices, LinesOf(i)' = LinesOf(i)
  PROVE  LinesTotal(i)' = LinesTotal(i)
<1>1. \A l \in LinesOf(i) : line'[l] = line[l]
  <2> SUFFICES ASSUME NEW l \in Lines, line[l].invoice = i, line'[l].invoice = i
               PROVE  line'[l] = line[l]
    BY DEF LinesOf
  <2>1. NoLine.invoice # i /\ DOMAIN line = Lines
    BY NoneIsNoInvoice DEF NoLine, Typed, TypeOK
  <2>2. LinesMoved
    BY LinesMove DEF Typed
  <2> QED BY <2>1, <2>2 DEF LinesMoved, InsertLine
<1>2. [l \in LinesOf(i)' |-> line'[l].charge] = [l \in LinesOf(i) |-> line[l].charge]
  BY <1>1
<1> QED BY <1>2 DEF LinesTotal

\* A step after which nobody holds a total who did not before.
NoTotal == \/ request' = request
           \/ \E r \in Requests : \E m : /\ request' = [request EXCEPT ![r] = m]
                                         /\ m.op # "total"

LEMMA MoveNoTotal ==
  ASSUME NEW r \in Requests, NEW op, op # "total", NEW on,
         \/ request' = [request EXCEPT ![r] = [op |-> op, on |-> on]]
         \/ \E x : request' = [request EXCEPT ![r] = [op |-> op, on |-> on, body |-> x]]
         \/ \E x : request' = [request EXCEPT ![r] = [op |-> op, on |-> on, charge |-> x]]
         \/ \E x : request' = [request EXCEPT ![r] = [op |-> op, on |-> on, line |-> x]]
         \/ \E x :
              request' = [request EXCEPT ![r] = [op |-> op, on |-> on, payment |-> x]]
  PROVE  NoTotal
<1>1. ASSUME NEW m, m.op = op, request' = [request EXCEPT ![r] = m] PROVE NoTotal
  BY <1>1 DEF NoTotal
<1>2. [op |-> op, on |-> on].op = op
  OBVIOUS
<1>3. \A x : /\ [op |-> op, on |-> on, body |-> x].op = op
             /\ [op |-> op, on |-> on, charge |-> x].op = op
             /\ [op |-> op, on |-> on, line |-> x].op = op
             /\ [op |-> op, on |-> on, payment |-> x].op = op
  OBVIOUS
<1> QED BY <1>1, <1>2, <1>3

LEMMA ReadsNoTotal ==
  ASSUME NEW r \in Requests, Reads(r)
  PROVE  addInvoiceLineRead(r) \/ NoTotal
<1>1. ASSUME NEW i \in Invoices, NEW body \in Edits, updateInvoice(r, i, body)
      PROVE  NoTotal
  BY <1>1, MoveNoTotal DEF updateInvoice, Begin
<1>2. ASSUME NEW i \in Invoices,
             removeInvoice(r, i) \/ sendInvoice(r, i) \/ cancelInvoice(r, i)
      PROVE  NoTotal
  BY <1>2, MoveNoTotal DEF removeInvoice, sendInvoice, cancelInvoice, Begin
<1>3. ASSUME NEW i \in Invoices, NEW charge \in Charges, addInvoiceLine(r, i, charge)
      PROVE  NoTotal
  BY <1>3, MoveNoTotal DEF addInvoiceLine, Begin
<1>4. ASSUME NEW i \in Invoices, NEW l \in Lines, removeInvoiceLine(r, i, l) PROVE NoTotal
  BY <1>4, MoveNoTotal DEF removeInvoiceLine, Begin
<1>5. ASSUME NEW p \in Payments, confirmPayment(r, p) \/ refundPayment(r, p) PROVE NoTotal
  BY <1>5, MoveNoTotal DEF confirmPayment, refundPayment, Begin
<1> QED BY <1>1, <1>2, <1>3, <1>4, <1>5 DEF Reads

LEMMA StepNoTotal ==
  ASSUME TInv, Next
  PROVE  (\E r \in Requests : addInvoiceLineRead(r)) \/ NoTotal
<1>1. ASSUME NEW r \in Requests, request' = [request EXCEPT ![r] = Idle] PROVE NoTotal
  BY <1>1, MoveNoTotal, IdleGood DEF NoTotal
<1>2. ASSUME NEW r \in Requests, Writes(r) \/ removeInvoiceWrite(r) PROVE NoTotal
  BY <1>1, <1>2, WritesEnd, RemoveMove
<1>3. ASSUME NEW r \in Requests, LinesOnly(r) PROVE NoTotal
  <2>1. \/ request' = [request EXCEPT ![r] = Idle]
        \/ request' = [request EXCEPT ![r] = [op |-> "retotal", on |-> request[r].on]]
    BY <1>3 DEF LinesOnly, createInvoiceNote, addInvoiceLineInsert,
       removeInvoiceLineWrite, Fail, Finish, Continue
  <2> QED BY <1>1, <2>1, MoveNoTotal
<1>4. ASSUME NEW i \in Invoices, NEW total \in Totals,
             \/ \E r \in Requests : createInvoice(r, i, total)
             \/ \E l \in Lines : generateInvoiceFromBooking(i, l, total)
      PROVE  NoTotal
  <2>1. \/ request' = request
        \/ \E r \in Requests : request' = [request EXCEPT ![r] =
             [op |-> "note", on |-> {i}, charge |-> total]]
    BY <1>4, BirthQuiet
  <2> QED BY <2>1, MoveNoTotal DEF NoTotal
<1>5. ASSUME NEW r \in Requests,
             PaymentWrites(r) \/ \E p \in Payments : createPaymentInsert(r, p)
      PROVE  NoTotal
  <2>1. \/ request' = [request EXCEPT ![r] = [op |-> "settle", on |-> request[r].on]]
        \/ request' = [request EXCEPT ![r] = Idle]
    BY <1>5, PaymentMove, InsertMove
  <2> QED BY <1>1, <2>1, MoveNoTotal
<1>6. ASSUME NEW i \in Invoices, DueDatePasses(i) PROVE NoTotal
  BY <1>6 DEF DueDatePasses, NoTotal
<1>7. ASSUME NEW r \in Requests,
             \/ Submits(r) \/ updateInvoiceStatus(r)
             \/ \E list \in SUBSET Invoices : getOverdueInvoices(r, list)
      PROVE  NoTotal
  BY <1>7, SubmitsMove, OverduePromise, SettlePromise DEF NoTotal
<1> QED
  BY <1>2, <1>3, <1>4, <1>5, <1>6, <1>7, ReadsNoTotal, StepCases

LEMMA TotalMove ==
  ASSUME TInv, Next, NEW r \in Requests, request'[r] # request[r],
         request'[r].op = "total"
  PROVE  /\ UNCHANGED tables
         /\ \E i : request'[r].on = {i} /\ request'[r].total = LinesTotal(i)
<1>1. ~NoTotal
  BY Mover DEF NoTotal
<1>2. PICK s \in Requests : addInvoiceLineRead(s)
  BY <1>1, StepNoTotal
<1>3. PICK i : request' = [request EXCEPT ![s] =
        [op |-> "total", on |-> {i}, total |-> LinesTotal(i)]]
  BY <1>2 DEF addInvoiceLineRead, Continue, LinesTotal
<1>4. request'[r] = [op |-> "total", on |-> {i}, total |-> LinesTotal(i)]
  BY <1>3, Mover
<1> QED BY <1>2, <1>4 DEF addInvoiceLineRead

LEMMA LKept ==
  ASSUME Typed, Next, NEW r \in Requests, request'[r] = request[r],
         request[r].op = "total", ~stale'[r]
  PROVE  ~stale[r] /\ \A i \in request[r].on : LinesTotal(i)' = LinesTotal(i)
<1>1. request[r] # Idle
  BY IdleGood
<1>2. ~stale[r] /\ \A i \in request[r].on : ~Written(i)
  BY <1>1 DEF Next, History
<1>3. \A i \in request[r].on : i \in Invoices /\ LinesOf(i)' = LinesOf(i)
  BY <1>2, OnInvoice DEF Written
<1> QED BY <1>2, <1>3, LinesStay

LEMMA LStep == Typed /\ LInv /\ [Next]_vars => LInv'
<1>1. ASSUME Typed, LInv, Next, NEW r \in Requests, request'[r].op = "total", ~stale'[r]
      PROVE  \E i : /\ request'[r].on = {i} /\ request'[r].total = LinesTotal(i)'
  <2>1. CASE request'[r] = request[r]
    <3>1. PICK i : request[r].on = {i} /\ request[r].total = LinesTotal(i)
      BY <1>1, <2>1, LKept DEF LInv
    <3>2. LinesTotal(i)' = LinesTotal(i)
      BY <1>1, <2>1, <3>1, LKept
    <3> QED BY <2>1, <3>1, <3>2
  <2>2. CASE request'[r] # request[r]
    <3>1. PICK i : request'[r].on = {i} /\ request'[r].total = LinesTotal(i)
      BY <1>1, <2>2, TotalMove DEF Typed
    <3>2. UNCHANGED tables
      BY <1>1, <2>2, TotalMove DEF Typed
    <3>3. LinesTotal(i)' = LinesTotal(i)
      BY <3>2 DEF tables, LinesTotal, LinesOf
    <3> QED BY <3>1, <3>3
  <2> QED BY <2>1, <2>2
<1>2. ASSUME LInv, UNCHANGED vars PROVE LInv'
  <2>1. \A i : LinesTotal(i)' = LinesTotal(i)
    BY <1>2 DEF vars, LinesTotal, LinesOf
  <2> QED BY <1>2, <2>1 DEF vars, LInv
<1> QED BY <1>1, <1>2 DEF LInv

\* Two requests that add lines at once may each miss the other's line; alone, a
\* request leaves the total that the lines add up to.
THEOREM FreshTotalsAddUp == Spec => FreshTotalsAreSums
<1>1. Init => LInv
  BY DEF Init, LInv, Idle
<1>2. Typed /\ LInv /\ [Next]_vars =>
        [\A r \in Requests : addInvoiceLineWrite(r) /\ ~stale[r] =>
           \A i \in request[r].on : invoice'[i].total = LinesTotal(i)']_vars
  <2> SUFFICES ASSUME Typed, LInv, NEW r \in Requests, addInvoiceLineWrite(r), ~stale[r],
                      NEW i \in request[r].on
               PROVE  invoice'[i].total = LinesTotal(i)'
    OBVIOUS
  <2>1. request[r].on = {i} /\ request[r].total = LinesTotal(i)
    BY DEF LInv, addInvoiceLineWrite, At
  <2>2. i \in Invoices
    BY OnInvoice DEF addInvoiceLineWrite, At
  <2>3. invoice' = [invoice EXCEPT ![i].total = request[r].total]
    BY <2>1 DEF addInvoiceLineWrite
  <2>4. LinesTotal(i)' = LinesTotal(i)
    BY DEF addInvoiceLineWrite, LinesTotal, LinesOf
  <2> QED BY <2>1, <2>2, <2>3, <2>4 DEF Typed, TypeOK
<1>3. Spec => [](TInv /\ TypeOK)
  BY TAlways, TypeCorrect, PTL
<1> QED BY <1>1, <1>2, <1>3, LStep, PTL DEF Spec, FreshTotalsAreSums, Typed
=============================================================================
