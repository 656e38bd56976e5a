--------------------------- MODULE BookingWorkflow ---------------------------
(***************************************************************************)
(* Bookings, booking applications, booking documents and the status of the *)
(* spaces they hold: backend/src/booking/booking.service.ts and            *)
(* backend/src/booking-application/booking-application.service.ts.         *)
(*                                                                         *)
(* The API process runs many requests at once.  Each `await` of a handler  *)
(* is a point where the other requests run, so a handler is a first step   *)
(* that reads rows and checks them, and one step for each later write.     *)
(* What it remembers in between is its record in `request`.  A Prisma      *)
(* $transaction is one step.  Handlers that write without using what they  *)
(* read are a single step.                                                 *)
(***************************************************************************)
EXTENDS Integers, FiniteSets, BookingStatuses

CONSTANTS
  Requests,       \* request slots: how many handlers are in flight at once
  Endpoints,      \* the endpoints the clients of this instance call
  Bookings,       \* identifiers of booking rows, each used once
  Spaces,
  Slots,          \* periods <<start, end>>
  Applications,   \* identifiers of application rows, each used once
  Applicants,     \* applicant identities (an e-mail or a user)
  MaxDocuments,   \* 5 in the code
  MaxInvoices,    \* bound: PATCH reopens no booking with this many invoices
  FreeStatuses,   \* statuses staff write through POST and PATCH bodies
  SpaceEdits,     \* statuses managers write on a space
  PublishEdits,   \* values managers write on is_published
  Fragile,        \* the operations whose awaits may fail
  None

SpaceStatus ==
  {"AVAILABLE", "OCCUPIED", "RESERVED", "MAINTENANCE", "OUT_OF_SERVICE"}

EndpointNames == {"create", "update", "approve", "reject", "cancel", "checkIn",
  "checkOut", "remove", "confirmPhone", "phoneUnreachable",
  "markDocumentsPending", "addDocument", "removeDocument", "finalize",
  "apply", "accept", "refuse", "updateSpace"}

ASSUME RequestsFinite == IsFiniteSet(Requests)
ASSUME LimitsAreNaturals == MaxDocuments \in Nat \ {0} /\ MaxInvoices \in Nat
ASSUME FreeStatusesAreStatuses == FreeStatuses \subseteq BookingStatus
ASSUME SlotsArePeriods == Slots \subseteq Int \X Int
ASSUME SpaceEditsAreEdits ==
  SpaceEdits \subseteq SpaceStatus /\ PublishEdits \subseteq BOOLEAN
ASSUME NoneIsNoRow ==
  None \notin Bookings \cup Spaces \cup Slots \cup Applications \cup Applicants

VARIABLES
  booking,      \* the booking table
  documents,    \* booking_documents: how many contracts and others per booking
  space,        \* the space table: status and is_published
  application,  \* the booking_applications table
  request,      \* the handlers in flight
  invoices,     \* history: invoices generated for each booking
  held          \* history: every status a booking has had

vars == <<booking, documents, space, application, request, invoices, held>>

-----------------------------------------------------------------------------
(* Rows. *)

DocumentKinds == {"contract", "other"}

BookingRow == [status : BookingStatus \cup {"unborn", "deleted"},
               space : Spaces \cup {None}, slot : Slots \cup {None},
               invoiced : BOOLEAN]

ApplicationRow ==
  [status : {"unborn", "PENDING", "ACCEPTED", "REFUSED"},
   applicant : Applicants \cup {None}, space : Spaces \cup {None},
   slot : Slots \cup {None}, booking : Bookings \cup {None}]

RequestRow ==
  [op : EndpointNames \cup {"idle"},
   at : {"done", "write", "contractDoc", "readInvoice", "generateInvoice",
         "linkInvoice"},
   booking : Bookings \cup {None}, space : Spaces \cup {None},
   slot : Slots \cup {None}, status : BookingStatus \cup {"unborn"},
   application : Applications \cup {None}, applicant : Applicants \cup {None},
   document : DocumentKinds]

NoBooking == [status |-> "unborn", space |-> None, slot |-> None,
              invoiced |-> FALSE]

Deleted == [NoBooking EXCEPT !.status = "deleted"]

NoApplication == [status |-> "unborn", applicant |-> None, space |-> None,
                  slot |-> None, booking |-> None]

Idle == [op |-> "idle", at |-> "done", booking |-> None, space |-> None,
         slot |-> None, status |-> "unborn", application |-> None,
         applicant |-> None, document |-> "other"]

TypeOK ==
  /\ booking \in [Bookings -> BookingRow]
  /\ documents \in [Bookings -> [DocumentKinds -> Nat]]
  /\ space \in [Spaces -> [status : SpaceStatus, is_published : BOOLEAN]]
  /\ application \in [Applications -> ApplicationRow]
  /\ request \in [Requests -> RequestRow]
  /\ invoices \in [Bookings -> Nat]
  /\ held \in [Bookings -> SUBSET BookingStatus]

Live(b) == booking[b].status \in BookingStatus

DocumentCount(b) == documents[b]["contract"] + documents[b]["other"]

NoDocuments == [k \in DocumentKinds |-> 0]

Init ==
  /\ booking = [b \in Bookings |-> NoBooking]
  /\ documents = [b \in Bookings |-> NoDocuments]
  /\ space = [s \in Spaces |-> [status |-> "AVAILABLE", is_published |-> TRUE]]
  /\ application = [a \in Applications |-> NoApplication]
  /\ request = [r \in Requests |-> Idle]
  /\ invoices = [b \in Bookings |-> 0]
  /\ held = [b \in Bookings |-> {}]

-----------------------------------------------------------------------------
(* Steps every handler is made of. *)

\* A request arrives, has read its rows and passed its checks.
Enter(r, row) ==
  /\ request[r] = Idle
  /\ row.op \in Endpoints
  /\ request' = [request EXCEPT ![r] = row]
  /\ UNCHANGED <<booking, documents, space, application, invoices, held>>

\* The common first step: the booking is read and its status tested.
Begin(r, op, b, statuses) ==
  /\ booking[b].status \in statuses
  /\ Enter(r, [Idle EXCEPT !.op = op, !.at = "write", !.booking = b])

At(r, op, at) == request[r].op = op /\ request[r].at = at

Finish(r) == request' = [request EXCEPT ![r] = Idle]

\* booking.update({ where: { id }, data: { status } }): no test of the old one.
SetStatus(b, status) ==
  /\ Live(b)
  /\ booking' = [booking EXCEPT ![b].status = status]
  /\ held' = [held EXCEPT ![b] = @ \cup {status}]

\* A handler whose last step writes one status and nothing else.
WriteStatus(r, op, status) ==
  /\ At(r, op, "write")
  /\ SetStatus(request[r].booking, status)
  /\ Finish(r)
  /\ UNCHANGED <<documents, space, application, invoices>>

InsertBooking(b, status, s, slot) ==
  /\ booking[b] = NoBooking
  /\ booking' = [booking EXCEPT ![b] = [status |-> status, space |-> s,
                                        slot |-> slot, invoiced |-> FALSE]]
  /\ held' = [held EXCEPT ![b] = {status}]

-----------------------------------------------------------------------------
(* POST /bookings. *)

\* Mutant: the ends left out, as the marketplace webhook compares.
OverlapInside(x, y) == x[1] < y[2] /\ x[2] > y[1]

\* Both ends included: a booking that starts when another ends overlaps it.
Overlap(x, y) == x[1] <= y[2] /\ x[2] >= y[1]

Blocking(b) == Live(b) /\ booking[b].status \notin {"CANCELLED", "NO_SHOW", "REFUSED"}

Conflict(s, slot) ==
  \E b \in Bookings : /\ Blocking(b)
                      /\ booking[b].space = s
                      /\ Overlap(booking[b].slot, slot)

\* Bound: a request that will insert a row has an identifier left for it.
Inserting(ops) == {r \in Requests : request[r].op \in ops /\ request[r].at = "write"}

BookingLeft ==
  Cardinality({b \in Bookings : booking[b] = NoBooking})
    > Cardinality(Inserting({"create", "accept"}))

ApplicationLeft ==
  Cardinality({a \in Applications : application[a] = NoApplication})
    > Cardinality(Inserting({"apply"}))

\* Tenants' users get PENDING_APPROVAL; staff the status of the body or, from
\* the space's requires_approval, PENDING_APPROVAL or CONFIRMED.
CreateStatuses == {"PENDING_APPROVAL", "CONFIRMED"} \cup FreeStatuses

Create(r, s, slot, status) ==
  /\ BookingLeft
  /\ ~Conflict(s, slot)
  /\ Enter(r, [Idle EXCEPT !.op = "create", !.at = "write", !.space = s,
                           !.slot = slot, !.status = status])

\* A CONFIRMED booking is invoiced at once, any other one is not.
CreateInsert(r, b) ==
  /\ At(r, "create", "write")
  /\ InsertBooking(b, request[r].status, request[r].space, request[r].slot)
  /\ IF request[r].status = "CONFIRMED"
       THEN request' = [request EXCEPT ![r] = [Idle EXCEPT !.op = "create",
                                    !.at = "readInvoice", !.booking = b]]
       ELSE Finish(r)
  /\ UNCHANGED <<documents, space, application, invoices>>

-----------------------------------------------------------------------------
(* issueBookingInvoice, the tail of create, approve and accept. *)

\* Mutant: the link already there is not looked at.
ReadInvoiceBlindly(r) ==
  /\ request[r].at = "readInvoice"
  /\ Live(request[r].booking)
  /\ request' = [request EXCEPT ![r].at = "generateInvoice"]
  /\ UNCHANGED <<booking, documents, space, application, invoices, held>>

\* An invoice already linked ends the request.
ReadInvoice(r) ==
  /\ request[r].at = "readInvoice"
  /\ Live(request[r].booking)
  /\ IF booking[request[r].booking].invoiced
       THEN Finish(r)
       ELSE request' = [request EXCEPT ![r].at = "generateInvoice"]
  /\ UNCHANGED <<booking, documents, space, application, invoices, held>>

\* The invoice row has no reference to the booking.
GenerateInvoice(r) ==
  /\ request[r].at = "generateInvoice"
  /\ Live(request[r].booking)
  /\ invoices' = [invoices EXCEPT ![request[r].booking] = @ + 1]
  /\ request' = [request EXCEPT ![r].at = "linkInvoice"]
  /\ UNCHANGED <<booking, documents, space, application, held>>

LinkInvoice(r) ==
  /\ request[r].at = "linkInvoice"
  /\ Live(request[r].booking)
  /\ booking' = [booking EXCEPT ![request[r].booking].invoiced = TRUE]
  /\ Finish(r)
  /\ UNCHANGED <<documents, space, application, invoices, held>>

-----------------------------------------------------------------------------
(* PATCH /bookings/:id, DELETE /bookings/:id: what they read is only tested *)
(* for existence and access.                                                *)

Update(b, status) ==
  /\ "update" \in Endpoints
  /\ status = "PENDING_APPROVAL" => invoices[b] < MaxInvoices
  /\ SetStatus(b, status)
  /\ UNCHANGED <<documents, space, application, request, invoices>>

\* Mutant: the application keeps naming the deleted booking.
RemoveDangling(b) ==
  /\ "remove" \in Endpoints
  /\ Live(b)
  /\ booking' = [booking EXCEPT ![b] = Deleted]
  /\ documents' = [documents EXCEPT ![b] = NoDocuments]
  /\ held' = [held EXCEPT ![b] = {}]
  /\ UNCHANGED <<space, application, request, invoices>>

\* Documents cascade; the application keeps its status and loses its booking.
Remove(b) ==
  /\ "remove" \in Endpoints
  /\ Live(b)
  /\ booking' = [booking EXCEPT ![b] = Deleted]
  /\ documents' = [documents EXCEPT ![b] = NoDocuments]
  /\ application' = [a \in Applications |->
       IF application[a].booking = b
         THEN [application[a] EXCEPT !.booking = None] ELSE application[a]]
  /\ held' = [held EXCEPT ![b] = {}]
  /\ UNCHANGED <<space, request, invoices>>

-----------------------------------------------------------------------------
(* Approval. *)

\* A CONFIRMED booking is answered as it is: no step.
Approve(r, b) == Begin(r, "approve", b, {"PENDING_APPROVAL"})

\* Mutant: the approval ends before the invoice.
ApproveWriteOnly(r) == WriteStatus(r, "approve", "CONFIRMED")

ApproveWrite(r) ==
  /\ At(r, "approve", "write")
  /\ SetStatus(request[r].booking, "CONFIRMED")
  /\ request' = [request EXCEPT ![r].at = "readInvoice"]
  /\ UNCHANGED <<documents, space, application, invoices>>

Reject(r, b) == Begin(r, "reject", b, {"PENDING_APPROVAL"})
RejectWrite(r) == WriteStatus(r, "reject", "CANCELLED")

Cancel(r, b) == Begin(r, "cancel", b, BookingStatus \ {"CANCELLED"})
CancelWrite(r) == WriteStatus(r, "cancel", "CANCELLED")

(* Visit. *)

\* Mutant: a booking that waits for approval is checked in.
CheckInEarly(r, b) == Begin(r, "checkIn", b, {"PENDING_APPROVAL", "CONFIRMED"})

CheckIn(r, b) == Begin(r, "checkIn", b, {"CONFIRMED"})
CheckInWrite(r) == WriteStatus(r, "checkIn", "CHECKED_IN")

CheckOut(r, b) == Begin(r, "checkOut", b, {"CHECKED_IN"})
CheckOutWrite(r) == WriteStatus(r, "checkOut", "COMPLETED")

-----------------------------------------------------------------------------
(* Reception: phone call, visit, documents, finalization. *)

ConfirmPhone(r, b) ==
  Begin(r, "confirmPhone", b, {"PENDING_PHONE_CONFIRMATION"})
ConfirmPhoneWrite(r) ==
  WriteStatus(r, "confirmPhone", "AWAITING_PHYSICAL_VISIT")

PhoneUnreachable(r, b) ==
  Begin(r, "phoneUnreachable", b, {"PENDING_PHONE_CONFIRMATION"})

\* One transaction: the space is opened again whoever else holds it.
PhoneUnreachableWrite(r) ==
  /\ At(r, "phoneUnreachable", "write")
  /\ space' = [space EXCEPT ![booking[request[r].booking].space].status =
                              "AVAILABLE"]
  /\ SetStatus(request[r].booking, "REFUSED")
  /\ Finish(r)
  /\ UNCHANGED <<documents, application, invoices>>

\* Mutant: the visit is skipped.
MarkDocumentsPendingEarly(r, b) ==
  Begin(r, "markDocumentsPending", b,
        {"PENDING_PHONE_CONFIRMATION", "AWAITING_PHYSICAL_VISIT"})

MarkDocumentsPending(r, b) ==
  Begin(r, "markDocumentsPending", b, {"AWAITING_PHYSICAL_VISIT"})
MarkDocumentsPendingWrite(r) ==
  WriteStatus(r, "markDocumentsPending", "DOCUMENTS_PENDING_UPLOAD")

\* Mutant: the limit is off by one.
AddDocumentOneMore(r, b, kind) ==
  /\ Live(b)
  /\ DocumentCount(b) <= MaxDocuments
  /\ Enter(r, [Idle EXCEPT !.op = "addDocument", !.at = "write",
                           !.booking = b, !.document = kind])

\* Any status.  The file is uploaded between the count and the insertion.
AddDocument(r, b, kind) ==
  /\ Live(b)
  /\ DocumentCount(b) < MaxDocuments
  /\ Enter(r, [Idle EXCEPT !.op = "addDocument", !.at = "write",
                           !.booking = b, !.document = kind])

AddDocumentInsert(r) ==
  LET b == request[r].booking IN
  /\ At(r, "addDocument", "write")
  /\ Live(b)
  /\ documents' = [documents EXCEPT ![b][request[r].document] = @ + 1]
  /\ Finish(r)
  /\ UNCHANGED <<booking, space, application, invoices, held>>

RemoveDocument(b, kind) ==
  /\ "removeDocument" \in Endpoints
  /\ Live(b)
  /\ documents[b][kind] > 0
  /\ documents' = [documents EXCEPT ![b][kind] = @ - 1]
  /\ UNCHANGED <<booking, space, application, request, invoices, held>>

Finalize(r, b) ==
  /\ booking[b].status = "DOCUMENTS_PENDING_UPLOAD"
  /\ Enter(r, [Idle EXCEPT !.op = "finalize", !.at = "contractDoc",
                           !.booking = b])

\* Without a contract the request is refused.
FinalizeContractDoc(r) ==
  /\ At(r, "finalize", "contractDoc")
  /\ IF documents[request[r].booking]["contract"] > 0
       THEN request' = [request EXCEPT ![r].at = "write"]
       ELSE Finish(r)
  /\ UNCHANGED <<booking, documents, space, application, invoices, held>>

\* Mutant: the space stays on the public map.
FinalizeWritePublished(r) ==
  /\ At(r, "finalize", "write")
  /\ space' = [space EXCEPT ![booking[request[r].booking].space].status = "RESERVED"]
  /\ SetStatus(request[r].booking, "ACTIVE")
  /\ Finish(r)
  /\ UNCHANGED <<documents, application, invoices>>

FinalizeWrite(r) ==
  /\ At(r, "finalize", "write")
  /\ space' = [space EXCEPT ![booking[request[r].booking].space] =
                              [status |-> "RESERVED", is_published |-> FALSE]]
  /\ SetStatus(request[r].booking, "ACTIVE")
  /\ Finish(r)
  /\ UNCHANGED <<documents, application, invoices>>

-----------------------------------------------------------------------------
(* Booking applications. *)

\* The two reads, of the space and of the pending applications, are one step.
Apply(r, applicant, s, slot) ==
  /\ ApplicationLeft
  /\ space[s].is_published /\ space[s].status = "AVAILABLE"
  /\ ~ \E a \in Applications : /\ application[a].status = "PENDING"
                               /\ application[a].applicant = applicant
                               /\ application[a].space = s
  /\ Enter(r, [Idle EXCEPT !.op = "apply", !.at = "write", !.space = s,
                           !.slot = slot, !.applicant = applicant])

ApplyInsert(r, a) ==
  /\ At(r, "apply", "write")
  /\ application[a] = NoApplication
  /\ application' = [application EXCEPT ![a] =
       [status |-> "PENDING", applicant |-> request[r].applicant,
        space |-> request[r].space, slot |-> request[r].slot,
        booking |-> None]]
  /\ Finish(r)
  /\ UNCHANGED <<booking, documents, space, invoices, held>>

Review(r, op, a) ==
  /\ application[a].status = "PENDING"
  /\ Enter(r, [Idle EXCEPT !.op = op, !.at = "write", !.application = a])

Accept(r, a) == BookingLeft /\ Review(r, "accept", a)

\* Mutant: the space is not reserved.
AcceptWriteUnreserved(r, b) ==
  LET a == request[r].application IN
  /\ At(r, "accept", "write")
  /\ InsertBooking(b, "PENDING_PHONE_CONFIRMATION",
                   application[a].space, application[a].slot)
  /\ application' = [application EXCEPT ![a].status = "ACCEPTED",
                                        ![a].booking = b]
  /\ request' = [request EXCEPT ![r].at = "generateInvoice", ![r].booking = b]
  /\ UNCHANGED <<documents, space, invoices>>

\* One transaction; neither the space nor the slot is tested.  The invoice is
\* generated after it, without issueBookingInvoice's test.
AcceptWrite(r, b) ==
  LET a == request[r].application IN
  /\ At(r, "accept", "write")
  /\ InsertBooking(b, "PENDING_PHONE_CONFIRMATION",
                   application[a].space, application[a].slot)
  /\ space' = [space EXCEPT ![application[a].space].status = "RESERVED"]
  /\ application' = [application EXCEPT ![a].status = "ACCEPTED",
                                        ![a].booking = b]
  /\ request' = [request EXCEPT ![r].at = "generateInvoice", ![r].booking = b]
  /\ UNCHANGED <<documents, invoices>>

Refuse(r, a) == Review(r, "refuse", a)

RefuseWrite(r) ==
  /\ At(r, "refuse", "write")
  /\ application' = [application EXCEPT
       ![request[r].application].status = "REFUSED"]
  /\ Finish(r)
  /\ UNCHANGED <<booking, documents, space, invoices, held>>

-----------------------------------------------------------------------------
(* PATCH /spaces/:id by a manager: it looks at no booking. *)

UpdateSpace(s, status, published) ==
  /\ "updateSpace" \in Endpoints
  /\ space' = [space EXCEPT ![s] = [status |-> status,
                                    is_published |-> published]]
  /\ UNCHANGED <<booking, documents, application, request, invoices, held>>

\* The row was deleted under the request: the write throws (Prisma P2025).
RowGone(r) ==
  /\ request[r].booking # None
  /\ ~Live(request[r].booking)
  /\ Finish(r)
  /\ UNCHANGED <<booking, documents, space, application, invoices, held>>

\* An await rejects (database, mail, upload) or the process stops.
Fail(r) ==
  /\ request[r].op \in Fragile
  /\ request[r] # Idle
  /\ Finish(r)
  /\ UNCHANGED <<booking, documents, space, application, invoices, held>>

-----------------------------------------------------------------------------
\* What a client asks for: nobody is obliged to.
Arrival(r) ==
  \/ \E s \in Spaces, slot \in Slots, st \in CreateStatuses : Create(r, s, slot, st)
  \/ \E b \in Bookings :
       \/ Approve(r, b) \/ Reject(r, b) \/ Cancel(r, b)
       \/ CheckIn(r, b) \/ CheckOut(r, b)
       \/ ConfirmPhone(r, b) \/ PhoneUnreachable(r, b)
       \/ MarkDocumentsPending(r, b) \/ Finalize(r, b)
       \/ \E k \in DocumentKinds : AddDocument(r, b, k)
  \/ \E p \in Applicants, s \in Spaces, slot \in Slots : Apply(r, p, s, slot)
  \/ \E a \in Applications : Accept(r, a) \/ Refuse(r, a)

\* What the process does next for a request in flight.
Continue(r) ==
  \/ \E b \in Bookings : CreateInsert(r, b) \/ AcceptWrite(r, b)
  \/ \E a \in Applications : ApplyInsert(r, a)
  \/ ReadInvoice(r) \/ GenerateInvoice(r) \/ LinkInvoice(r)
  \/ ApproveWrite(r) \/ RejectWrite(r) \/ CancelWrite(r)
  \/ CheckInWrite(r) \/ CheckOutWrite(r)
  \/ ConfirmPhoneWrite(r) \/ PhoneUnreachableWrite(r)
  \/ MarkDocumentsPendingWrite(r) \/ AddDocumentInsert(r)
  \/ FinalizeContractDoc(r) \/ FinalizeWrite(r)
  \/ RefuseWrite(r) \/ RowGone(r)

\* Handlers of one step; they too take a request slot.
Immediate ==
  /\ \E r \in Requests : request[r] = Idle
  /\ \/ \E b \in Bookings :
          \/ Remove(b)
          \/ \E st \in FreeStatuses : Update(b, st)
          \/ \E k \in DocumentKinds : RemoveDocument(b, k)
     \/ \E s \in Spaces :
          \E status \in SpaceEdits \cup {space[s].status},
             published \in PublishEdits \cup {space[s].is_published} :
            UpdateSpace(s, status, published)

Next ==
  \/ \E r \in Requests : Arrival(r) \/ Continue(r) \/ Fail(r)
  \/ Immediate

Spec == Init /\ [][Next]_vars

\* The event loop resumes every handler whose await has settled.
FairSpec == Spec /\ \A r \in Requests : WF_vars(Continue(r))

-----------------------------------------------------------------------------
(* Whatever the interleaving. *)

\* A booking never has more documents than the limit, plus one for each other
\* upload that counted before it (addDocument counts, uploads, then inserts).
DocumentsBounded ==
  \A b \in Bookings :
    DocumentCount(b) <= MaxDocuments + Cardinality(Requests) - 1

\* Approvals that overlap each issue an invoice, but later ones never do: the
\* invoices of a booking are at most the requests that can be in flight.
InvoicesBounded == \A b \in Bookings : invoices[b] <= Cardinality(Requests)

\* accept: an application names a booking of its own space and period that
\* started in the reception workflow, and no two name the same.
ApplicationsAgree ==
  \A a \in Applications :
    LET b == application[a].booking IN
    b # None =>
      /\ Live(b) /\ "PENDING_PHONE_CONFIRMATION" \in held[b]
      /\ booking[b].space = application[a].space
      /\ booking[b].slot = application[a].slot
      /\ application[a].status \in {"ACCEPTED", "REFUSED"}
      /\ \A c \in Applications \ {a} : application[c].booking # b

\* finalizeBooking takes the space off the public map; of the workflow nothing
\* puts it back while the booking is ACTIVE (a manager's edit can).
ActiveIsOffTheMap ==
  \A b \in Bookings : booking[b].status = "ACTIVE" =>
    ~space[booking[b].space].is_published

\* A space with a booking in the reception workflow is open again only if
\* some booking of that space was refused by phone (or is deleted since):
\* markPhoneUnreachable sets it AVAILABLE without looking at the other bookings.
HeldUntilReleased ==
  \A b \in Bookings :
    /\ booking[b].status \in {"PENDING_PHONE_CONFIRMATION",
         "AWAITING_PHYSICAL_VISIT", "DOCUMENTS_PENDING_UPLOAD", "ACTIVE"}
    /\ space[booking[b].space].status = "AVAILABLE"
    => \E c \in Bookings :
         \/ booking[c].status = "deleted"
         \/ booking[c].space = booking[b].space /\ "REFUSED" \in held[c]

\* The stages of a booking come in order, even when its status jumps back.
Stages == INSTANCE BookingStages
            WITH Entry <- CreateStatuses \cup {"PENDING_PHONE_CONFIRMATION"}
StagesFollowed == Stages!Spec
StagesInOrder == Stages!StagesInOrder

-----------------------------------------------------------------------------
(* When requests come one at a time. *)

\* Every handler but PATCH moves the status of its booking forward, one step of
\* the chain at a time, or cancels it.  The terminal statuses of docs/WORKFLOW.md
\* are not all kept: CANCELLED is, COMPLETED is left by cancel, which is the
\* step CancelCompleted of the abstract specification.
Lifecycle == INSTANCE BookingLifecycle
               WITH status <- [b \in Bookings |-> booking[b].status],
                    Entry <- CreateStatuses \cup {"PENDING_PHONE_CONFIRMATION"},
                    Written <- FreeStatuses
LifecycleFollowed == Lifecycle!Spec

\* POST /bookings never puts a booking on a period another one holds, whatever
\* reception, approval and PATCH did before.
CreatedOnFreeSlot ==
  [][\A b \in Bookings : \A c \in Bookings \ {b} :
       /\ booking[b].status = "unborn" /\ booking'[b].status \in CreateStatuses
       /\ booking[c].status \in BookingStatus \ {"CANCELLED", "NO_SHOW", "REFUSED"}
       /\ booking[c].space = booking'[b].space
       => \A day \in booking'[b].slot[1] .. booking'[b].slot[2] :
            day \notin booking[c].slot[1] .. booking[c].slot[2]]_vars

\* A booking that has its invoice linked is not invoiced again, even when it is
\* reopened and approved again; one whose link failed is.
InvoicedOnce ==
  [][\A b \in Bookings : booking[b].invoiced => invoices'[b] = invoices[b]]_vars

-----------------------------------------------------------------------------
(* Eventually. *)

\* A booking that is confirmed or accepted gets an invoice linked to it, if
\* no await fails and nobody deletes it.
BilledEventually ==
  \A b \in Bookings :
    booking[b].status \in {"CONFIRMED", "PENDING_PHONE_CONFIRMATION"}
      ~> (booking[b].invoiced \/ ~Live(b))
=============================================================================
