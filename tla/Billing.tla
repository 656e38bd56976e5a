------------------------------ MODULE Billing ------------------------------
(***************************************************************************)
(* Invoices, their lines and their payments:                               *)
(* backend/src/billing/billing.service.ts.                                 *)
(*                                                                         *)
(* One Prisma call is one step.  Every handler reads the invoice or the    *)
(* payment in its first await and writes in later ones, without a          *)
(* transaction: `request` is what it remembers in between, and its field   *)
(* `on` the invoices that memory is about.                                 *)
(***************************************************************************)
EXTENDS Integers, FiniteSets, Functions

CONSTANTS
  Invoices,        \* identifiers of invoices, each used once
  Payments,        \* rows of the payments table, never deleted
  Lines,           \* rows of the invoice_lines table
  Requests,        \* how many requests are in flight at once
  Totals,          \* totals of new invoices
  Charges,         \* what a line adds to the total, its tax included
  Amounts,         \* amounts of payments
  Edits,           \* bodies of PATCH
  None, Same

InvoiceStatus == {"DRAFT", "ISSUED", "SENT", "PARTIALLY_PAID", "PAID", "OVERDUE",
                  "CANCELLED"}
Edit == [status : InvoiceStatus \cup {Same}, total : Nat \cup {Same},
         late : BOOLEAN \cup {Same}]

ASSUME AmountsAreNatural ==
  Totals \subseteq Nat /\ Charges \subseteq Nat /\ Amounts \subseteq Nat
ASSUME EditsValidated == Edits \subseteq Edit
ASSUME NoneIsNoInvoice == None \notin Invoices
ASSUME SameIsNoValue == Same \notin InvoiceStatus \cup Nat \cup BOOLEAN
ASSUME RequestsFinite == IsFiniteSet(Requests)
ASSUME TablesFinite == IsFiniteSet(Lines) /\ IsFiniteSet(Payments)

VARIABLES
  invoice,         \* the invoices table; late: due_date has passed
  line,            \* the invoice_lines table
  payment,         \* the payments table; renter: a tenant user submitted it
  request,         \* the requests in flight
  stale,           \* history: somebody wrote an invoice since a request read it
  disturbed        \* history: invoices that say PAID and are not, or are and do not,
                   \* since one of the steps in Disturbs

tables == <<invoice, line, payment>>
vars == <<invoice, line, payment, request, stale, disturbed>>

-----------------------------------------------------------------------------
NoInvoice == [status |-> "none", total |-> 0, late |-> FALSE]
Deleted == [NoInvoice EXCEPT !.status = "deleted"]
NoPayment == [status |-> "none", invoice |-> None, amount |-> 0, renter |-> FALSE]
NoLine == [invoice |-> None, charge |-> 0]
Idle == [op |-> "idle"]

InvoiceRow == [status : InvoiceStatus \cup {"none", "deleted"}, total : Nat,
               late : BOOLEAN]
PaymentRow == [status : {"none", "PENDING", "COMPLETED", "REFUNDED"},
               invoice : Invoices \cup {None}, amount : Nat, renter : BOOLEAN]
LineRow == [invoice : Invoices \cup {None}, charge : Nat]

On == SUBSET Invoices
Request ==
  [op : {"remove", "send", "cancel", "overdue", "retotal", "settle"}, on : On]
  \cup [op : {"line", "note"}, on : On, charge : Nat]
  \cup [op : {"total"}, on : On, total : Nat]
  \cup [op : {"drop"}, on : On, line : Lines]
  \cup [op : {"edit"}, on : On, body : Edits]
  \cup [op : {"pay"}, on : On, amount : Nat, renter : BOOLEAN,
        status : {"PENDING", "COMPLETED"}]
  \cup [op : {"confirm", "refund"}, on : On, payment : Payments]
  \cup [op : {"settled"}, on : On, status : InvoiceStatus]

TypeOK ==
  /\ invoice \in [Invoices -> InvoiceRow]
  /\ line \in [Lines -> LineRow]
  /\ payment \in [Payments -> PaymentRow]
  /\ \A r \in Requests : request[r] = Idle \/ request[r] \in Request
  /\ stale \in [Requests -> BOOLEAN]
  /\ disturbed \subseteq Invoices

Init ==
  /\ invoice = [i \in Invoices |-> NoInvoice]
  /\ line = [l \in Lines |-> NoLine]
  /\ payment = [p \in Payments |-> NoPayment]
  /\ request = [r \in Requests |-> Idle]
  /\ stale = [r \in Requests |-> FALSE]
  /\ disturbed = {}

Exists(i) == invoice[i].status \in InvoiceStatus
LinesOf(i) == {l \in Lines : line[l].invoice = i}
PaymentsOf(i, status) ==
  {p \in Payments : payment[p].invoice = i /\ payment[p].status = status}
AmountOf(S) == SumFunction([p \in S |-> payment[p].amount])
Paid(i) == AmountOf(PaymentsOf(i, "COMPLETED"))
Covered(i) == Exists(i) /\ Paid(i) >= invoice[i].total

Given(new, old) == IF new = Same THEN old ELSE new

\* A request begins, goes on to its next await, or ends.
Begin(r, memory) == request[r] = Idle /\ request' = [request EXCEPT ![r] = memory]
Continue(r, memory) == request' = [request EXCEPT ![r] = memory]
Finish(r) == request' = [request EXCEPT ![r] = Idle]
At(r, op) == request[r].op = op

SetStatus(i, status) == invoice' = [invoice EXCEPT ![i].status = status]

-----------------------------------------------------------------------------
(* Invoices *)

InsertInvoice(i, status, total) ==
  /\ invoice[i] = NoInvoice
  /\ invoice' = [invoice EXCEPT ![i] = [status |-> status, total |-> total,
                                        late |-> FALSE]]

InsertLine(l, i, charge) ==
  /\ line[l] = NoLine
  /\ line' = [line EXCEPT ![l] = [invoice |-> i, charge |-> charge]]

\* The rental and the add-ons, here one line, are inserted with the invoice.
generateInvoiceFromBooking(i, l, total) ==
  /\ InsertInvoice(i, "ISSUED", total)
  /\ InsertLine(l, i, total)
  /\ UNCHANGED <<payment, request>>

\* Any status: that of the body is stored as it is, and defaults to DRAFT.
createInvoice(r, i, total) ==
  /\ \E status \in InvoiceStatus : InsertInvoice(i, status, total)
  /\ \/ UNCHANGED request
     \/ Begin(r, [op |-> "note", on |-> {i}, charge |-> total])
  /\ UNCHANGED <<line, payment>>

createInvoiceNote(r, l) ==
  /\ At(r, "note")
  /\ \E i \in request[r].on : Exists(i) /\ InsertLine(l, i, request[r].charge)
  /\ Finish(r)
  /\ UNCHANGED <<invoice, payment>>

updateInvoice(r, i, body) ==
  /\ Exists(i)
  /\ Begin(r, [op |-> "edit", on |-> {i}, body |-> body])
  /\ UNCHANGED tables

updateInvoiceWrite(r) ==
  /\ At(r, "edit")
  /\ \E i \in request[r].on :
       /\ Exists(i)
       /\ invoice' = [invoice EXCEPT
            ![i].status = Given(request[r].body.status, @),
            ![i].total = Given(request[r].body.total, @),
            ![i].late = Given(request[r].body.late, @)]
  /\ Finish(r)
  /\ UNCHANGED <<line, payment>>

removeInvoice(r, i) ==
  /\ Exists(i)
  /\ Begin(r, [op |-> "remove", on |-> {i}])
  /\ UNCHANGED tables

\* Lines go with the invoice, payments stay without it.
removeInvoiceWrite(r) ==
  /\ At(r, "remove")
  /\ \E i \in request[r].on :
       /\ Exists(i)
       /\ invoice' = [invoice EXCEPT ![i] = Deleted]
       /\ line' = [l \in Lines |-> IF line[l].invoice = i THEN NoLine ELSE line[l]]
       /\ payment' = [p \in Payments |->
            IF payment[p].invoice = i THEN [payment[p] EXCEPT !.invoice = None]
            ELSE payment[p]]
  /\ Finish(r)

\* Mutant: any invoice is sent.
sendInvoiceAny(r, i) ==
  /\ Exists(i)
  /\ Begin(r, [op |-> "send", on |-> {i}])
  /\ UNCHANGED tables

sendInvoice(r, i) ==
  /\ Exists(i)
  /\ invoice[i].status \in {"ISSUED", "DRAFT"}
  /\ Begin(r, [op |-> "send", on |-> {i}])
  /\ UNCHANGED tables

cancelInvoice(r, i) ==
  /\ Exists(i)
  /\ invoice[i].status \notin {"PAID", "CANCELLED"}
  /\ Begin(r, [op |-> "cancel", on |-> {i}])
  /\ UNCHANGED tables

WriteStatus(r, op, status) ==
  /\ At(r, op)
  /\ \E i \in request[r].on : Exists(i) /\ SetStatus(i, status)
  /\ Finish(r)
  /\ UNCHANGED <<line, payment>>

sendInvoiceWrite(r) == WriteStatus(r, "send", "SENT")
cancelInvoiceWrite(r) == WriteStatus(r, "cancel", "CANCELLED")

\* A GET: the invoices past due that are not settled.
getOverdueInvoices(r, list) ==
  LET overdue == {i \in list : /\ Exists(i) /\ invoice[i].late
                               /\ invoice[i].status \notin {"PAID", "CANCELLED"}}
  IN  /\ overdue # {}
      /\ Begin(r, [op |-> "overdue", on |-> overdue])
      /\ UNCHANGED tables

\* The updateMany looks again only for those that are OVERDUE already.
getOverdueInvoicesWrite(r) ==
  /\ At(r, "overdue")
  /\ invoice' = [i \in Invoices |->
       IF i \in request[r].on /\ Exists(i) THEN [invoice[i] EXCEPT !.status = "OVERDUE"]
       ELSE invoice[i]]
  /\ Finish(r)
  /\ UNCHANGED <<line, payment>>

-----------------------------------------------------------------------------
(* Lines *)

addInvoiceLine(r, i, charge) ==
  /\ Exists(i)
  /\ Begin(r, [op |-> "line", on |-> {i}, charge |-> charge])
  /\ UNCHANGED tables

addInvoiceLineInsert(r, l) ==
  /\ At(r, "line")
  /\ \E i \in request[r].on : Exists(i) /\ InsertLine(l, i, request[r].charge)
  /\ Continue(r, [op |-> "retotal", on |-> request[r].on])
  /\ UNCHANGED <<invoice, payment>>

addInvoiceLineRead(r) ==
  /\ At(r, "retotal")
  /\ \E i \in request[r].on : Continue(r,
       [op |-> "total", on |-> {i},
        total |-> SumFunction([l \in LinesOf(i) |-> line[l].charge])])
  /\ UNCHANGED tables

addInvoiceLineWrite(r) ==
  /\ At(r, "total")
  /\ \E i \in request[r].on :
       /\ Exists(i)
       /\ invoice' = [invoice EXCEPT ![i].total = request[r].total]
  /\ Finish(r)
  /\ UNCHANGED <<line, payment>>

removeInvoiceLine(r, i, l) ==
  /\ Exists(i)
  /\ Begin(r, [op |-> "drop", on |-> {i}, line |-> l])
  /\ UNCHANGED tables

\* Any line by its id; the total stays.
removeInvoiceLineWrite(r) ==
  /\ At(r, "drop")
  /\ line[request[r].line] # NoLine
  /\ line' = [line EXCEPT ![request[r].line] = NoLine]
  /\ Finish(r)
  /\ UNCHANGED <<invoice, payment>>

-----------------------------------------------------------------------------
(* Payments *)

Payable(i) == Exists(i) /\ invoice[i].status \notin {"CANCELLED", "PAID"}

Pay(r, i, amount, renter, status) ==
  /\ Begin(r, [op |-> "pay", on |-> {i}, amount |-> amount, renter |-> renter,
               status |-> status])
  /\ UNCHANGED tables

\* Mutant: a renter may submit beside a payment that awaits confirmation.
createPaymentByRenterAgain(r, i, amount) ==
  /\ Payable(i)
  /\ Pay(r, i, amount, TRUE, "PENDING")

createPaymentByRenter(r, i, amount) ==
  /\ Payable(i)
  /\ PaymentsOf(i, "PENDING") = {}
  /\ Pay(r, i, amount, TRUE, "PENDING")

createPaymentByStaff(r, i, amount) ==
  /\ Payable(i)
  /\ \E status \in {"PENDING", "COMPLETED"} : Pay(r, i, amount, FALSE, status)

createPaymentInsert(r, p) ==
  /\ At(r, "pay")
  /\ payment[p] = NoPayment
  /\ \E i \in request[r].on :
       /\ Exists(i)
       /\ payment' = [payment EXCEPT ![p] =
            [status |-> request[r].status, invoice |-> i,
             amount |-> request[r].amount, renter |-> request[r].renter]]
  /\ IF request[r].status = "COMPLETED"
     THEN Continue(r, [op |-> "settle", on |-> request[r].on])
     ELSE Finish(r)
  /\ UNCHANGED <<invoice, line>>

InvoiceOf(p) == {payment[p].invoice} \ {None}

confirmPayment(r, p) ==
  /\ payment[p].status = "PENDING"
  /\ Begin(r, [op |-> "confirm", on |-> InvoiceOf(p), payment |-> p])
  /\ UNCHANGED tables

refundPayment(r, p) ==
  /\ payment[p].status = "COMPLETED"
  /\ Begin(r, [op |-> "refund", on |-> InvoiceOf(p), payment |-> p])
  /\ UNCHANGED tables

\* A payment whose invoice is gone settles nothing.
WritePayment(r, op, status) ==
  /\ At(r, op)
  /\ payment' = [payment EXCEPT ![request[r].payment].status = status]
  /\ IF request[r].on = {} THEN Finish(r)
     ELSE Continue(r, [op |-> "settle", on |-> request[r].on])
  /\ UNCHANGED <<invoice, line>>

confirmPaymentWrite(r) == WritePayment(r, "confirm", "COMPLETED")
refundPaymentWrite(r) == WritePayment(r, "refund", "REFUNDED")

\* Mutant: what is pending counts as paid.
SettledStatusEarly(i) ==
  LET paid == AmountOf(PaymentsOf(i, "COMPLETED") \cup PaymentsOf(i, "PENDING"))
  IN  IF paid >= invoice[i].total THEN "PAID"
      ELSE IF paid > 0 THEN "PARTIALLY_PAID" ELSE invoice[i].status

\* Nothing paid leaves the status as it is, PAID too.
SettledStatus(i) ==
  IF Paid(i) >= invoice[i].total THEN "PAID"
  ELSE IF Paid(i) > 0 THEN "PARTIALLY_PAID" ELSE invoice[i].status

updateInvoiceStatus(r) ==
  /\ At(r, "settle")
  /\ \E i \in request[r].on :
       /\ Exists(i)
       /\ Continue(r, [op |-> "settled", on |-> {i}, status |-> SettledStatus(i)])
  /\ UNCHANGED tables

updateInvoiceStatusWrite(r) == WriteStatus(r, "settled", request[r].status)

-----------------------------------------------------------------------------
\* An await rejects, a row is gone, or the process stops.
Fail(r) ==
  /\ request[r] # Idle
  /\ Finish(r)
  /\ UNCHANGED tables

DueDatePasses(i) ==
  /\ Exists(i) /\ ~invoice[i].late
  /\ invoice' = [invoice EXCEPT ![i].late = TRUE]
  /\ UNCHANGED <<line, payment, request>>

Starts(r) ==
  \/ \E i \in Invoices :
       \/ \E total \in Totals : createInvoice(r, i, total)
       \/ \E body \in Edits : updateInvoice(r, i, body)
       \/ removeInvoice(r, i) \/ sendInvoice(r, i) \/ cancelInvoice(r, i)
       \/ \E charge \in Charges : addInvoiceLine(r, i, charge)
       \/ \E l \in Lines : removeInvoiceLine(r, i, l)
       \/ \E amount \in Amounts :
            createPaymentByRenter(r, i, amount) \/ createPaymentByStaff(r, i, amount)
  \/ \E list \in SUBSET Invoices : getOverdueInvoices(r, list)
  \/ \E p \in Payments : confirmPayment(r, p) \/ refundPayment(r, p)

Goes(r) ==
  \/ updateInvoiceWrite(r) \/ removeInvoiceWrite(r)
  \/ sendInvoiceWrite(r) \/ cancelInvoiceWrite(r) \/ getOverdueInvoicesWrite(r)
  \/ \E l \in Lines : createInvoiceNote(r, l) \/ addInvoiceLineInsert(r, l)
  \/ addInvoiceLineRead(r) \/ addInvoiceLineWrite(r) \/ removeInvoiceLineWrite(r)
  \/ \E p \in Payments : createPaymentInsert(r, p)
  \/ confirmPaymentWrite(r) \/ refundPaymentWrite(r)
  \/ updateInvoiceStatus(r) \/ updateInvoiceStatusWrite(r)
  \/ Fail(r)

\* An invoice is PAID when its payments cover the total, and not otherwise; one
\* of nothing, that nobody has paid, may say either.
Agrees(i) ==
  /\ invoice[i].status = "PAID" => Covered(i)
  /\ Covered(i) /\ Paid(i) > 0 => invoice[i].status = "PAID"

\* A payment has changed, and the invoice's status is about to follow.
Settling(i) == \E r \in Requests : (At(r, "settle") \/ At(r, "settled")) /\ i \in request[r].on

\* POST says PAID of an invoice nobody can have paid yet.
BornPaid(i) == ~Exists(i) /\ invoice'[i].status = "PAID"

\* The steps of request r after which status and payments need not agree.
Disturbs(r, i) ==
  /\ request'[r] # request[r] /\ request[r] # Idle /\ i \in request[r].on
  /\ \* a PATCH, or a line that changes the total of an invoice already settled
     \/ At(r, "edit") \/ At(r, "total")
     \* a status written over one that was not there when it was decided
     \/ stale[r] /\ \E op \in {"send", "cancel", "overdue", "settled"} : At(r, op)
     \* a payment written and no status after it
     \/ At(r, "settle") /\ request'[r] = Idle
     \/ At(r, "settled") /\ invoice'[i].status # request[r].status
     \* the last payment refunded, which leaves the status as it is
     \/ At(r, "settled") /\ Paid(i) = 0

Written(i) ==
  \/ invoice'[i] # invoice[i] \/ LinesOf(i)' # LinesOf(i)
  \/ \E p \in Payments : payment'[p] # payment[p] /\ payment'[p].invoice = i

History ==
  /\ stale' = [r \in Requests |->
       /\ request'[r] = request[r] /\ request[r] # Idle
       /\ stale[r] \/ \E i \in request[r].on : Written(i)]
  /\ disturbed' = {i \in Invoices :
       /\ Exists(i)' /\ ~Agrees(i)'
       /\ i \in disturbed \/ BornPaid(i) \/ \E r \in Requests : Disturbs(r, i)}

Next ==
  /\ \/ \E r \in Requests : Starts(r) \/ Goes(r)
     \/ \E i \in Invoices :
          \/ DueDatePasses(i)
          \/ \E l \in Lines, total \in Totals : generateInvoiceFromBooking(i, l, total)
  /\ History

Spec == Init /\ [][Next]_vars

-----------------------------------------------------------------------------
\* Whatever overlaps, an invoice is PAID exactly when its completed payments
\* cover its total, or a request is about to write its status, or one of the
\* steps in Disturbs came between and no settlement has put it right since.
PaidAgrees ==
  \A i \in Invoices : Exists(i) /\ ~Agrees(i) => Settling(i) \/ i \in disturbed

\* "A payment is already awaiting confirmation": once a renter's submission is
\* pending only the requests that checked before it add more, so that there are
\* never more than requests in flight at once.
Pending(i) == {p \in PaymentsOf(i, "PENDING") : payment[p].renter}
Submitting(i) ==
  {r \in Requests : At(r, "pay") /\ request[r].renter /\ i \in request[r].on}

PendingBounded ==
  \A i \in Invoices : Pending(i) # {} =>
    Cardinality(Pending(i)) + Cardinality(Submitting(i)) <= Cardinality(Requests)

\* An invoice that its payments cover loses PAID only to a PATCH or to a
\* request that read it before somebody else wrote it.
FreshKeepsPaid ==
  [][\A r \in Requests, i \in Invoices :
       (/\ request[r] # Idle /\ request'[r] # request[r]
        /\ ~stale[r] /\ ~At(r, "edit")
        /\ invoice[i].status = "PAID" /\ Covered(i) /\ Covered(i)')
       => invoice'[i].status = "PAID"]_vars
=============================================================================
