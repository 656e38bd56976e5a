----------------------- MODULE BookingWorkflow_proofs -----------------------
(* Theorems about BookingWorkflow, for every value of its constants. *)
EXTENDS BookingWorkflow, FiniteSetTheorems, TLAPS

-----------------------------------------------------------------------------
(* The inductive invariant: rows that exist name a space and a period, and  *)
(* a request in flight names the rows its next step reads.                  *)

RowsComplete ==
  /\ \A b \in Bookings : Live(b) =>
       booking[b].space \in Spaces /\ booking[b].slot \in Slots
  /\ \A a \in Applications : application[a].status # "unborn" =>
       application[a].space \in Spaces /\ application[a].slot \in Slots

OnBooking == {"approve", "reject", "cancel", "checkIn", "checkOut",
  "confirmPhone", "phoneUnreachable", "markDocumentsPending", "addDocument",
  "finalize"}

RequestComplete(q) ==
  /\ q.op \in OnBooking \/ q.at \notin {"done", "write"} => q.booking \in Bookings
  /\ q.op = "create" /\ q.at = "write" =>
       q.space \in Spaces /\ q.slot \in Slots /\ q.status \in CreateStatuses
  /\ q.op = "apply" => q.space \in Spaces /\ q.slot \in Slots
  /\ q.op \in {"accept", "refuse"} => q.application \in Applications

RequestsComplete ==
  /\ \A r \in Requests : RequestComplete(request[r])
  /\ \A r \in Requests :
       request[r].booking \in Bookings => booking[request[r].booking].status # "unborn"
  /\ \A r \in Requests :
       request[r].op \in {"accept", "refuse"} =>
         application[request[r].application].status # "unborn"

TInv == TypeOK /\ RowsComplete /\ RequestsComplete

LEMMA IdleIsRow == Idle \in RequestRow /\ RequestComplete(Idle)
  BY NoneIsNoRow DEF Idle, RequestRow, DocumentKinds, RequestComplete, OnBooking

\* A request that enters with a complete row keeps the invariant.
LEMMA EnterKeeps ==
  ASSUME TInv, NEW r \in Requests, NEW row \in RequestRow, Enter(r, row),
         RequestComplete(row),
         row.booking \in Bookings => booking[row.booking].status # "unborn",
         row.op \in {"accept", "refuse"} =>
           application[row.application].status # "unborn"
  PROVE  TInv'
<1>1. TypeOK' BY DEF TInv, TypeOK, Enter
<1>2. RowsComplete' BY DEF TInv, RowsComplete, Enter, Live
<1>3. RequestsComplete'
  BY DEF TInv, TypeOK, RequestsComplete, Enter, RequestComplete
<1> QED BY <1>1, <1>2, <1>3 DEF TInv

\* A request whose record becomes Idle again leaves the others as they were.
LEMMA FinishKeeps ==
  ASSUME TInv, NEW r \in Requests, Finish(r)
  PROVE  /\ request' \in [Requests -> RequestRow]
         /\ \A q \in Requests : RequestComplete(request'[q])
         /\ \A q \in Requests \ {r} : request'[q] = request[q]
         /\ request'[r] = Idle
  BY IdleIsRow DEF Finish, TInv, TypeOK, RequestsComplete

\* Writing a status on a booking that exists.
LEMMA SetStatusKeeps ==
  ASSUME TInv, NEW b \in Bookings, NEW s \in BookingStatus, SetStatus(b, s)
  PROVE  /\ booking' \in [Bookings -> BookingRow]
         /\ held' \in [Bookings -> SUBSET BookingStatus]
         /\ \A c \in Bookings : /\ booking'[c].space = booking[c].space
                                /\ booking'[c].slot = booking[c].slot
                                /\ booking[c].status # "unborn" =>
                                     booking'[c].status # "unborn"
                                /\ booking'[c].status \in BookingStatus
                                     <=> booking[c].status \in BookingStatus
<1>1. \A c \in Bookings \ {b} : booking'[c] = booking[c]
  BY DEF SetStatus, TInv, TypeOK
<1>2. booking'[b] = [booking[b] EXCEPT !.status = s]
  BY DEF SetStatus, TInv, TypeOK
<1>3. "unborn" \notin BookingStatus
  BY DEF BookingStatus
<1> QED BY <1>1, <1>2, <1>3 DEF SetStatus, TInv, TypeOK, BookingRow, Live

LEMMA SetStatusAndFinish ==
  ASSUME TInv, NEW r \in Requests, NEW b \in Bookings, NEW s \in BookingStatus,
         SetStatus(b, s), Finish(r),
         space' \in [Spaces -> [status : SpaceStatus, is_published : BOOLEAN]],
         UNCHANGED <<documents, application, invoices>>
  PROVE  TInv'
<1>1. TypeOK' BY SetStatusKeeps, FinishKeeps DEF TInv, TypeOK
<1>2. RowsComplete' BY SetStatusKeeps DEF TInv, RowsComplete, Live
<1>3. RequestsComplete'
  <2>1. \A q \in Requests : request'[q].booking \in Bookings =>
          booking'[request'[q].booking].status # "unborn"
    BY SetStatusKeeps, FinishKeeps, NoneIsNoRow DEF Idle, TInv, RequestsComplete
  <2>2. \A q \in Requests : request'[q].op \in {"accept", "refuse"} =>
          application'[request'[q].application].status # "unborn"
    BY FinishKeeps DEF Idle, TInv, RequestsComplete
  <2> QED BY <2>1, <2>2, FinishKeeps DEF RequestsComplete
<1> QED BY <1>1, <1>2, <1>3 DEF TInv

LEMMA WriteStatusKeeps ==
  ASSUME TInv, NEW r \in Requests, NEW op \in OnBooking, NEW s \in BookingStatus,
         WriteStatus(r, op, s)
  PROVE  TInv'
<1>1. request[r].booking \in Bookings
  BY DEF TInv, RequestsComplete, RequestComplete, WriteStatus, At
<1>2. QED BY <1>1, SetStatusAndFinish DEF WriteStatus, TInv, TypeOK

LEMMA BeginKeeps ==
  ASSUME TInv, NEW r \in Requests, NEW b \in Bookings, NEW op \in OnBooking,
         NEW S, "unborn" \notin S, Begin(r, op, b, S)
  PROVE  TInv'
<1> DEFINE row == [Idle EXCEPT !.op = op, !.at = "write", !.booking = b]
<1>1. /\ row.op = op /\ row.at = "write" /\ row.booking = b
      /\ row \in RequestRow
  BY DEF Idle, RequestRow, OnBooking, EndpointNames, DocumentKinds
<1>2. RequestComplete(row)
  BY <1>1 DEF RequestComplete, OnBooking
<1>3. Enter(r, row) /\ booking[b].status # "unborn"
  BY DEF Begin
<1>4. row.op \notin {"accept", "refuse"}
  BY <1>1 DEF OnBooking
<1> HIDE DEF row
<1> QED BY <1>1, <1>2, <1>3, <1>4, EnterKeeps

-----------------------------------------------------------------------------
(* Every action keeps TInv. *)

LEMMA ArrivalKeeps ==
  ASSUME TInv, NEW r \in Requests, Arrival(r)
  PROVE  TInv'
<1> USE DEF OnBooking, BookingStatus
<1>1. ASSUME NEW s \in Spaces, NEW slot \in Slots, NEW st \in CreateStatuses,
             Create(r, s, slot, st)
      PROVE  TInv'
  <2> DEFINE row == [Idle EXCEPT !.op = "create", !.at = "write", !.space = s,
                                 !.slot = slot, !.status = st]
  <2>1. /\ row.op = "create" /\ row.at = "write" /\ row.booking = None
        /\ row.space = s /\ row.slot = slot /\ row.status = st
        /\ row \in RequestRow
    BY FreeStatusesAreStatuses
    DEF Idle, RequestRow, EndpointNames, DocumentKinds, CreateStatuses
  <2>2. Enter(r, row) BY <1>1 DEF Create
  <2> HIDE DEF row
  <2>3. RequestComplete(row) BY <2>1 DEF RequestComplete
  <2> QED BY <2>1, <2>2, <2>3, EnterKeeps, NoneIsNoRow
<1>2. ASSUME NEW b \in Bookings, NEW k \in DocumentKinds, AddDocument(r, b, k)
      PROVE  TInv'
  <2> DEFINE row == [Idle EXCEPT !.op = "addDocument", !.at = "write",
                                 !.booking = b, !.document = k]
  <2>1. /\ row.op = "addDocument" /\ row.at = "write" /\ row.booking = b
        /\ row \in RequestRow
    BY DEF Idle, RequestRow, EndpointNames
  <2>2. Enter(r, row) /\ booking[b].status # "unborn"
    BY <1>2 DEF AddDocument, Live
  <2> HIDE DEF row
  <2>3. RequestComplete(row) BY <2>1 DEF RequestComplete
  <2> QED BY <2>1, <2>2, <2>3, EnterKeeps
<1>3. ASSUME NEW b \in Bookings, Finalize(r, b)
      PROVE  TInv'
  <2> DEFINE row == [Idle EXCEPT !.op = "finalize", !.at = "contractDoc",
                                 !.booking = b]
  <2>1. /\ row.op = "finalize" /\ row.at = "contractDoc" /\ row.booking = b
        /\ row \in RequestRow
    BY DEF Idle, RequestRow, EndpointNames, DocumentKinds
  <2>2. Enter(r, row) /\ booking[b].status # "unborn"
    BY <1>3 DEF Finalize
  <2> HIDE DEF row
  <2>3. RequestComplete(row) BY <2>1 DEF RequestComplete
  <2> QED BY <2>1, <2>2, <2>3, EnterKeeps
<1>4. ASSUME NEW p \in Applicants, NEW s \in Spaces, NEW slot \in Slots,
             Apply(r, p, s, slot)
      PROVE  TInv'
  <2> DEFINE row == [Idle EXCEPT !.op = "apply", !.at = "write", !.space = s,
                                 !.slot = slot, !.applicant = p]
  <2>1. /\ row.op = "apply" /\ row.at = "write" /\ row.booking = None
        /\ row.space = s /\ row.slot = slot
        /\ row \in RequestRow
    BY DEF Idle, RequestRow, EndpointNames, DocumentKinds
  <2>2. Enter(r, row) BY <1>4 DEF Apply
  <2> HIDE DEF row
  <2>3. RequestComplete(row) BY <2>1 DEF RequestComplete
  <2> QED BY <2>1, <2>2, <2>3, EnterKeeps, NoneIsNoRow
<1>5. ASSUME NEW a \in Applications, NEW op \in {"accept", "refuse"},
             Review(r, op, a)
      PROVE  TInv'
  <2> DEFINE row == [Idle EXCEPT !.op = op, !.at = "write", !.application = a]
  <2>1. /\ row.op = op /\ row.at = "write" /\ row.booking = None
        /\ row.application = a /\ row \in RequestRow
    BY DEF Idle, RequestRow, EndpointNames, DocumentKinds
  <2>2. Enter(r, row) /\ application[a].status # "unborn" BY <1>5 DEF Review
  <2> HIDE DEF row
  <2>3. RequestComplete(row) BY <2>1 DEF RequestComplete
  <2> QED BY <2>1, <2>2, <2>3, EnterKeeps, NoneIsNoRow
<1>6. ASSUME NEW b \in Bookings, Approve(r, b) PROVE TInv'
  BY <1>6, BeginKeeps DEF Approve
<1>7. ASSUME NEW b \in Bookings, Reject(r, b) PROVE TInv'
  BY <1>7, BeginKeeps DEF Reject
<1>8. ASSUME NEW b \in Bookings, Cancel(r, b) PROVE TInv'
  BY <1>8, BeginKeeps DEF Cancel
<1>9. ASSUME NEW b \in Bookings, CheckIn(r, b) PROVE TInv'
  BY <1>9, BeginKeeps DEF CheckIn
<1>10. ASSUME NEW b \in Bookings, CheckOut(r, b) PROVE TInv'
  BY <1>10, BeginKeeps DEF CheckOut
<1>11. ASSUME NEW b \in Bookings, ConfirmPhone(r, b) PROVE TInv'
  BY <1>11, BeginKeeps DEF ConfirmPhone
<1>12. ASSUME NEW b \in Bookings, PhoneUnreachable(r, b) PROVE TInv'
  BY <1>12, BeginKeeps DEF PhoneUnreachable
<1>13. ASSUME NEW b \in Bookings, MarkDocumentsPending(r, b) PROVE TInv'
  BY <1>13, BeginKeeps DEF MarkDocumentsPending
<1> QED
  BY <1>1, <1>2, <1>3, <1>4, <1>5, <1>6, <1>7, <1>8, <1>9, <1>10, <1>11, <1>12,
     <1>13 DEF Arrival, Accept, Refuse

\* A step that changes only the record of a request, for one that keeps its
\* booking and goes to a later point of the invoice.
LEMMA GotoKeeps ==
  ASSUME TInv, NEW r \in Requests, request[r].booking \in Bookings,
         NEW at \in {"write", "generateInvoice", "linkInvoice"},
         request[r].op # "create" \/ at # "write",
         request' = [request EXCEPT ![r].at = at]
  PROVE  /\ request' \in [Requests -> RequestRow]
         /\ \A q \in Requests : RequestComplete(request'[q])
         /\ \A q \in Requests : request'[q].booking = request[q].booking
         /\ \A q \in Requests : /\ request'[q].op = request[q].op
                                /\ request'[q].application = request[q].application
<1>1. request'[r] = [request[r] EXCEPT !.at = at]
  BY DEF TInv, TypeOK
<1>2. \A q \in Requests \ {r} : request'[q] = request[q]
  BY DEF TInv, TypeOK
<1>3. request[r] \in RequestRow BY DEF TInv, TypeOK
<1>4. request'[r] \in RequestRow
  BY <1>1, <1>3 DEF RequestRow
<1>5. /\ request'[r].op = request[r].op /\ request'[r].booking = request[r].booking
      /\ request'[r].space = request[r].space /\ request'[r].slot = request[r].slot
      /\ request'[r].status = request[r].status /\ request'[r].at = at
      /\ request'[r].application = request[r].application
  BY <1>1, <1>3 DEF RequestRow
<1>6. RequestComplete(request'[r])
  BY <1>5 DEF RequestComplete, TInv, RequestsComplete
<1>7. request' \in [Requests -> RequestRow]
  BY <1>2, <1>4 DEF TInv, TypeOK
<1> QED BY <1>2, <1>5, <1>6, <1>7 DEF TInv, RequestsComplete

\* A row inserted in the booking table.
LEMMA InsertKeeps ==
  ASSUME TInv, NEW b \in Bookings, NEW st \in BookingStatus, NEW s \in Spaces,
         NEW slot \in Slots, InsertBooking(b, st, s, slot)
  PROVE  /\ booking' \in [Bookings -> BookingRow]
         /\ held' \in [Bookings -> SUBSET BookingStatus]
         /\ \A c \in Bookings : booking'[c].status \in BookingStatus =>
              booking'[c].space \in Spaces /\ booking'[c].slot \in Slots
         /\ \A c \in Bookings :
              booking[c].status # "unborn" => booking'[c].status # "unborn"
         /\ booking'[b].status # "unborn"
<1>1. booking'[b] = [status |-> st, space |-> s, slot |-> slot, invoiced |-> FALSE]
  BY DEF InsertBooking, TInv, TypeOK
<1>2. \A c \in Bookings \ {b} : booking'[c] = booking[c]
  BY DEF InsertBooking, TInv, TypeOK
<1> QED
  BY <1>1, <1>2 DEF InsertBooking, TInv, TypeOK, BookingRow, RowsComplete, Live,
     BookingStatus

\* A record that becomes Idle, where bookings and applications only appear.
LEMMA FinishComplete ==
  ASSUME TInv, NEW r \in Requests, Finish(r),
         \A c \in Bookings :
           booking[c].status # "unborn" => booking'[c].status # "unborn",
         \A a \in Applications :
           application[a].status # "unborn" => application'[a].status # "unborn"
  PROVE  RequestsComplete'
<1>1. \A q \in Requests : request'[q].booking \in Bookings =>
        booking'[request'[q].booking].status # "unborn"
  BY FinishKeeps, NoneIsNoRow DEF Idle, TInv, RequestsComplete
<1>2. \A q \in Requests : request'[q].op \in {"accept", "refuse"} =>
        application'[request'[q].application].status # "unborn"
  BY FinishKeeps DEF Idle, TInv, RequestsComplete, RequestComplete
<1> QED BY <1>1, <1>2, FinishKeeps DEF RequestsComplete

LEMMA FinishOnlyKeeps ==
  ASSUME TInv, NEW r \in Requests, Finish(r),
         UNCHANGED <<booking, documents, space, application, invoices, held>>
  PROVE  TInv'
<1>1. RequestsComplete' BY FinishComplete
<1>2. TypeOK' BY FinishKeeps DEF TInv, TypeOK
<1>3. RowsComplete' BY DEF TInv, RowsComplete, Live
<1> QED BY <1>1, <1>2, <1>3 DEF TInv

LEMMA GotoOnlyKeeps ==
  ASSUME TInv, NEW r \in Requests, request[r].booking \in Bookings,
         NEW at \in {"write", "generateInvoice", "linkInvoice"},
         request[r].op # "create" \/ at # "write",
         request' = [request EXCEPT ![r].at = at],
         UNCHANGED <<booking, documents, space, application, held>>,
         invoices' \in [Bookings -> Nat]
  PROVE  TInv'
<1>1. TypeOK' BY GotoKeeps DEF TInv, TypeOK
<1>2. RowsComplete' BY DEF TInv, RowsComplete, Live
<1>3. RequestsComplete' BY GotoKeeps DEF TInv, RequestsComplete
<1> QED BY <1>1, <1>2, <1>3 DEF TInv

LEMMA CreateInsertKeeps ==
  ASSUME TInv, NEW r \in Requests, NEW b \in Bookings, CreateInsert(r, b)
  PROVE  TInv'
<1>1. /\ request[r].status \in BookingStatus /\ request[r].space \in Spaces
      /\ request[r].slot \in Slots
  BY FreeStatusesAreStatuses
  DEF CreateInsert, At, TInv, RequestsComplete, RequestComplete, CreateStatuses,
      BookingStatus
<1>2. InsertBooking(b, request[r].status, request[r].space, request[r].slot)
  BY DEF CreateInsert
<1>3. RowsComplete'
  BY <1>1, <1>2, InsertKeeps DEF RowsComplete, TInv, CreateInsert, Live
<1>4. CASE request[r].status # "CONFIRMED"
  <2>1. Finish(r) BY <1>4 DEF CreateInsert
  <2>2. TypeOK'
    BY <1>1, <1>2, <2>1, InsertKeeps, FinishKeeps DEF TInv, TypeOK, CreateInsert
  <2>3. RequestsComplete'
    BY <1>1, <1>2, <2>1, InsertKeeps, FinishComplete DEF CreateInsert
  <2> QED BY <2>2, <2>3, <1>3 DEF TInv
<1>5. CASE request[r].status = "CONFIRMED"
  <2> DEFINE row == [Idle EXCEPT !.op = "create", !.at = "readInvoice",
                                 !.booking = b]
  <2>1. /\ row.op = "create" /\ row.at = "readInvoice" /\ row.booking = b
        /\ row \in RequestRow
    BY DEF Idle, RequestRow, EndpointNames, DocumentKinds
  <2>2. request' = [request EXCEPT ![r] = row] BY <1>5 DEF CreateInsert
  <2> HIDE DEF row
  <2>3. RequestComplete(row) BY <2>1 DEF RequestComplete, OnBooking
  <2>4. TypeOK'
    BY <1>1, <1>2, <2>1, <2>2, InsertKeeps DEF TInv, TypeOK, CreateInsert
  <2>5. /\ request'[r] = row
        /\ \A q \in Requests \ {r} : request'[q] = request[q]
    BY <2>2 DEF TInv, TypeOK
  <2>6. RequestsComplete'
    BY <1>1, <1>2, <2>1, <2>3, <2>5, InsertKeeps
    DEF RequestsComplete, TInv, CreateInsert
  <2> QED BY <2>4, <2>6, <1>3 DEF TInv
<1> QED BY <1>4, <1>5

LEMMA AcceptWriteKeeps ==
  ASSUME TInv, NEW r \in Requests, NEW b \in Bookings, AcceptWrite(r, b)
  PROVE  TInv'
<1> DEFINE a == request[r].application
<1>1. a \in Applications /\ application[a].status # "unborn"
  BY DEF AcceptWrite, At, TInv, RequestsComplete, RequestComplete
<1>2. application[a].space \in Spaces /\ application[a].slot \in Slots
  BY <1>1 DEF TInv, RowsComplete
<1>3. InsertBooking(b, "PENDING_PHONE_CONFIRMATION",
                    application[a].space, application[a].slot)
  BY DEF AcceptWrite
<1>4. "PENDING_PHONE_CONFIRMATION" \in BookingStatus BY DEF BookingStatus
<1>5. application'[a] = [application[a] EXCEPT !.status = "ACCEPTED", !.booking = b]
  BY <1>1 DEF AcceptWrite, TInv, TypeOK
<1>6. \A c \in Applications \ {a} : application'[c] = application[c]
  BY <1>1 DEF AcceptWrite, TInv, TypeOK
<1>7. request'[r] = [request[r] EXCEPT !.at = "generateInvoice", !.booking = b]
  BY DEF AcceptWrite, TInv, TypeOK
<1>8. \A q \in Requests \ {r} : request'[q] = request[q]
  BY DEF AcceptWrite, TInv, TypeOK
<1>9. application[a] \in ApplicationRow /\ request[r] \in RequestRow
  BY <1>1 DEF TInv, TypeOK
<1>10. /\ application'[a] \in ApplicationRow /\ application'[a].status = "ACCEPTED"
       /\ application'[a].space = application[a].space
       /\ application'[a].slot = application[a].slot
  BY <1>5, <1>9 DEF ApplicationRow
<1>11. /\ request'[r] \in RequestRow /\ request'[r].op = "accept"
       /\ request'[r].booking = b /\ request'[r].at = "generateInvoice"
       /\ request'[r].application = a
  <2>1. request[r].op = "accept" BY DEF AcceptWrite, At
  <2>2. /\ request'[r].op = request[r].op /\ request'[r].booking = b
        /\ request'[r].at = "generateInvoice"
        /\ request'[r].application = a
    BY <1>7, <1>9 DEF RequestRow
  <2>3. request'[r] \in RequestRow
    BY <1>7, <1>9 DEF RequestRow
  <2> QED BY <2>1, <2>2, <2>3
<1>12. application' \in [Applications -> ApplicationRow]
  BY <1>6, <1>10 DEF AcceptWrite, TInv, TypeOK
<1>13. request' \in [Requests -> RequestRow]
  BY <1>8, <1>11 DEF AcceptWrite, TInv, TypeOK
<1>14. space' \in [Spaces -> [status : SpaceStatus, is_published : BOOLEAN]]
  BY <1>2 DEF AcceptWrite, TInv, TypeOK, SpaceStatus
<1>15. TypeOK'
  BY <1>2, <1>3, <1>4, <1>12, <1>13, <1>14, InsertKeeps
  DEF AcceptWrite, TInv, TypeOK
<1>16. RowsComplete'
  BY <1>1, <1>2, <1>3, <1>4, <1>6, <1>10, InsertKeeps DEF TInv, RowsComplete, Live
<1>17. RequestComplete(request'[r])
  BY <1>1, <1>11 DEF RequestComplete, OnBooking
<1>18. \A q \in Requests : RequestComplete(request'[q])
  BY <1>8, <1>17 DEF TInv, RequestsComplete
<1>19. \A q \in Requests : request'[q].booking \in Bookings =>
         booking'[request'[q].booking].status # "unborn"
  BY <1>2, <1>3, <1>4, <1>8, <1>11, InsertKeeps DEF TInv, RequestsComplete
<1>20. \A q \in Requests : request'[q].op \in {"accept", "refuse"} =>
         application'[request'[q].application].status # "unborn"
  BY <1>1, <1>6, <1>8, <1>10, <1>11
  DEF TInv, RequestsComplete, RequestComplete
<1> QED BY <1>15, <1>16, <1>18, <1>19, <1>20 DEF TInv, RequestsComplete

LEMMA ApplyInsertKeeps ==
  ASSUME TInv, NEW r \in Requests, NEW a \in Applications, ApplyInsert(r, a)
  PROVE  TInv'
<1> DEFINE row == [status |-> "PENDING", applicant |-> request[r].applicant,
                   space |-> request[r].space, slot |-> request[r].slot,
                   booking |-> None]
<1>1. /\ request[r].space \in Spaces /\ request[r].slot \in Slots
      /\ request[r] \in RequestRow
  BY DEF ApplyInsert, At, TInv, TypeOK, RequestsComplete, RequestComplete
<1>2. row \in ApplicationRow BY <1>1 DEF ApplicationRow, RequestRow
<1>3. application'[a] = row BY DEF ApplyInsert, TInv, TypeOK
<1>4. \A c \in Applications \ {a} : application'[c] = application[c]
  BY DEF ApplyInsert, TInv, TypeOK
<1>5. RowsComplete'
  BY <1>1, <1>3, <1>4 DEF TInv, RowsComplete, ApplyInsert, Live
<1>6. Finish(r) BY DEF ApplyInsert
<1>7. RequestsComplete'
  BY <1>3, <1>4, <1>6, FinishComplete DEF ApplyInsert
<1>8. TypeOK'
  BY <1>2, <1>6, FinishKeeps DEF ApplyInsert, TInv, TypeOK
<1> QED BY <1>5, <1>7, <1>8 DEF TInv

LEMMA RefuseWriteKeeps ==
  ASSUME TInv, NEW r \in Requests, RefuseWrite(r)
  PROVE  TInv'
<1> DEFINE a == request[r].application
<1>1. a \in Applications /\ application[a].status # "unborn"
  BY DEF RefuseWrite, At, TInv, RequestsComplete, RequestComplete
<1>2. application'[a] = [application[a] EXCEPT !.status = "REFUSED"]
  BY <1>1 DEF RefuseWrite, TInv, TypeOK
<1>3. \A c \in Applications \ {a} : application'[c] = application[c]
  BY <1>1 DEF RefuseWrite, TInv, TypeOK
<1>4. application[a] \in ApplicationRow BY <1>1 DEF TInv, TypeOK
<1>5. /\ application'[a] \in ApplicationRow /\ application'[a].status = "REFUSED"
      /\ application'[a].space = application[a].space
      /\ application'[a].slot = application[a].slot
  BY <1>2, <1>4 DEF ApplicationRow
<1>6. RowsComplete'
  BY <1>1, <1>3, <1>5 DEF TInv, RowsComplete, RefuseWrite, Live
<1>7. Finish(r) BY DEF RefuseWrite
<1>8. RequestsComplete'
  BY <1>3, <1>5, <1>7, FinishComplete DEF RefuseWrite
<1>9. TypeOK'
  BY <1>3, <1>5, <1>7, FinishKeeps DEF RefuseWrite, TInv, TypeOK
<1> QED BY <1>6, <1>8, <1>9 DEF TInv

LEMMA LinkInvoiceKeeps ==
  ASSUME TInv, NEW r \in Requests, LinkInvoice(r)
  PROVE  TInv'
<1> DEFINE b == request[r].booking
<1>1. b \in Bookings
  BY DEF LinkInvoice, TInv, RequestsComplete, RequestComplete
<1>2. booking'[b] = [booking[b] EXCEPT !.invoiced = TRUE]
  BY <1>1 DEF LinkInvoice, TInv, TypeOK
<1>3. \A c \in Bookings \ {b} : booking'[c] = booking[c]
  BY <1>1 DEF LinkInvoice, TInv, TypeOK
<1>4. booking[b] \in BookingRow BY <1>1 DEF TInv, TypeOK
<1>5. /\ booking'[b] \in BookingRow /\ booking'[b].status = booking[b].status
      /\ booking'[b].space = booking[b].space /\ booking'[b].slot = booking[b].slot
  BY <1>2, <1>4 DEF BookingRow
<1>6. RowsComplete'
  BY <1>1, <1>3, <1>5 DEF TInv, RowsComplete, LinkInvoice, Live
<1>7. Finish(r) BY DEF LinkInvoice
<1>8. RequestsComplete'
  BY <1>3, <1>5, <1>7, FinishComplete DEF LinkInvoice
<1>9. TypeOK'
  BY <1>3, <1>5, <1>7, FinishKeeps DEF LinkInvoice, TInv, TypeOK
<1> QED BY <1>6, <1>8, <1>9 DEF TInv

LEMMA ApproveWriteKeeps ==
  ASSUME TInv, NEW r \in Requests, ApproveWrite(r)
  PROVE  TInv'
<1> DEFINE b == request[r].booking
<1>1. /\ b \in Bookings /\ request[r].op = "approve" /\ request[r] \in RequestRow
      /\ SetStatus(b, "CONFIRMED") /\ "CONFIRMED" \in BookingStatus
  BY DEF ApproveWrite, At, TInv, TypeOK, RequestsComplete, RequestComplete,
         OnBooking, BookingStatus
<1>2. request'[r] = [request[r] EXCEPT !.at = "readInvoice"]
  BY DEF ApproveWrite, TInv, TypeOK
<1>3. \A q \in Requests \ {r} : request'[q] = request[q]
  BY DEF ApproveWrite, TInv, TypeOK
<1>4. /\ request'[r].op = "approve" /\ request'[r].booking = b
      /\ request'[r] \in RequestRow
  BY <1>1, <1>2 DEF RequestRow
<1>5. RequestComplete(request'[r])
  BY <1>1, <1>4 DEF RequestComplete
<1>6. TypeOK'
  BY <1>1, <1>3, <1>4, SetStatusKeeps DEF ApproveWrite, TInv, TypeOK
<1>7. RowsComplete'
  BY <1>1, SetStatusKeeps DEF ApproveWrite, TInv, RowsComplete, Live
<1>8. RequestsComplete'
  BY <1>1, <1>3, <1>4, <1>5, SetStatusKeeps
  DEF ApproveWrite, TInv, RequestsComplete
<1> QED BY <1>6, <1>7, <1>8 DEF TInv

LEMMA ContinueKeeps ==
  ASSUME TInv, NEW r \in Requests, Continue(r)
  PROVE  TInv'
<1>1. ASSUME NEW b \in Bookings, CreateInsert(r, b) PROVE TInv'
  BY <1>1, CreateInsertKeeps
<1>2. ASSUME NEW b \in Bookings, AcceptWrite(r, b) PROVE TInv'
  BY <1>2, AcceptWriteKeeps
<1>3. ASSUME NEW a \in Applications, ApplyInsert(r, a) PROVE TInv'
  BY <1>3, ApplyInsertKeeps
<1>4. CASE ReadInvoice(r)
  <2>1. request[r].booking \in Bookings
    BY <1>4 DEF ReadInvoice, TInv, RequestsComplete, RequestComplete
  <2>2. CASE Finish(r)
    BY <1>4, <2>2, FinishOnlyKeeps DEF ReadInvoice
  <2>3. CASE request' = [request EXCEPT ![r].at = "generateInvoice"]
    BY <1>4, <2>1, <2>3, GotoOnlyKeeps DEF ReadInvoice, TInv, TypeOK
  <2> QED BY <1>4, <2>2, <2>3 DEF ReadInvoice
<1>5. CASE GenerateInvoice(r)
  <2>1. request[r].booking \in Bookings
    BY <1>5 DEF GenerateInvoice, TInv, RequestsComplete, RequestComplete
  <2>2. invoices' \in [Bookings -> Nat]
    BY <1>5, <2>1 DEF GenerateInvoice, TInv, TypeOK
  <2> QED BY <1>5, <2>1, <2>2, GotoOnlyKeeps DEF GenerateInvoice
<1>6. CASE LinkInvoice(r) BY <1>6, LinkInvoiceKeeps
<1>7. CASE ApproveWrite(r) BY <1>7, ApproveWriteKeeps
<1>8. CASE RejectWrite(r)
  BY <1>8, WriteStatusKeeps DEF RejectWrite, OnBooking, BookingStatus
<1>9. CASE CancelWrite(r)
  BY <1>9, WriteStatusKeeps DEF CancelWrite, OnBooking, BookingStatus
<1>10. CASE CheckInWrite(r)
  BY <1>10, WriteStatusKeeps DEF CheckInWrite, OnBooking, BookingStatus
<1>11. CASE CheckOutWrite(r)
  BY <1>11, WriteStatusKeeps DEF CheckOutWrite, OnBooking, BookingStatus
<1>12. CASE ConfirmPhoneWrite(r)
  BY <1>12, WriteStatusKeeps DEF ConfirmPhoneWrite, OnBooking, BookingStatus
<1>13. CASE MarkDocumentsPendingWrite(r)
  BY <1>13, WriteStatusKeeps
  DEF MarkDocumentsPendingWrite, OnBooking, BookingStatus
<1>14. CASE PhoneUnreachableWrite(r)
  <2>1. request[r].booking \in Bookings
    BY <1>14 DEF PhoneUnreachableWrite, At, TInv, RequestsComplete,
                 RequestComplete, OnBooking
  <2>2. booking[request[r].booking].space \in Spaces
    BY <1>14, <2>1 DEF PhoneUnreachableWrite, SetStatus, TInv, RowsComplete
  <2>3. space' \in [Spaces -> [status : SpaceStatus, is_published : BOOLEAN]]
    BY <1>14, <2>2 DEF PhoneUnreachableWrite, TInv, TypeOK, SpaceStatus
  <2> QED
    BY <1>14, <2>1, <2>3, SetStatusAndFinish
    DEF PhoneUnreachableWrite, BookingStatus
<1>15. CASE FinalizeWrite(r)
  <2>1. request[r].booking \in Bookings
    BY <1>15 DEF FinalizeWrite, At, TInv, RequestsComplete, RequestComplete,
                 OnBooking
  <2>2. booking[request[r].booking].space \in Spaces
    BY <1>15, <2>1 DEF FinalizeWrite, SetStatus, TInv, RowsComplete
  <2>3. space' \in [Spaces -> [status : SpaceStatus, is_published : BOOLEAN]]
    BY <1>15, <2>2 DEF FinalizeWrite, TInv, TypeOK, SpaceStatus
  <2> QED
    BY <1>15, <2>1, <2>3, SetStatusAndFinish DEF FinalizeWrite, BookingStatus
<1>16. CASE FinalizeContractDoc(r)
  <2>1. request[r].booking \in Bookings /\ request[r].op = "finalize"
    BY <1>16 DEF FinalizeContractDoc, At, TInv, RequestsComplete,
                 RequestComplete, OnBooking
  <2>2. CASE Finish(r)
    BY <1>16, <2>2, FinishOnlyKeeps DEF FinalizeContractDoc
  <2>3. CASE request' = [request EXCEPT ![r].at = "write"]
    BY <1>16, <2>1, <2>3, GotoOnlyKeeps DEF FinalizeContractDoc, TInv, TypeOK
  <2> QED BY <1>16, <2>2, <2>3 DEF FinalizeContractDoc
<1>17. CASE AddDocumentInsert(r)
  <2>1. request[r].booking \in Bookings /\ request[r].document \in DocumentKinds
    BY <1>17 DEF AddDocumentInsert, At, TInv, TypeOK, RequestsComplete,
                 RequestComplete, OnBooking, RequestRow
  <2>2. documents' \in [Bookings -> [DocumentKinds -> Nat]]
    BY <1>17, <2>1 DEF AddDocumentInsert, TInv, TypeOK
  <2>3. Finish(r) BY <1>17 DEF AddDocumentInsert
  <2>4. RequestsComplete'
    BY <1>17, <2>3, FinishComplete DEF AddDocumentInsert
  <2>5. TypeOK'
    BY <1>17, <2>2, <2>3, FinishKeeps DEF AddDocumentInsert, TInv, TypeOK
  <2>6. RowsComplete'
    BY <1>17 DEF AddDocumentInsert, TInv, RowsComplete, Live
  <2> QED BY <2>4, <2>5, <2>6 DEF TInv
<1>18. CASE RefuseWrite(r) BY <1>18, RefuseWriteKeeps
<1>19. CASE RowGone(r) BY <1>19, FinishOnlyKeeps DEF RowGone
<1> QED
  BY <1>1, <1>2, <1>3, <1>4, <1>5, <1>6, <1>7, <1>8, <1>9, <1>10, <1>11, <1>12,
     <1>13, <1>14, <1>15, <1>16, <1>17, <1>18, <1>19 DEF Continue

LEMMA RemoveKeeps ==
  ASSUME TInv, NEW b \in Bookings, Remove(b)
  PROVE  TInv'
<1>1. Deleted \in BookingRow /\ Deleted.status = "deleted"
  BY DEF Deleted, NoBooking, BookingRow
<1>2. booking'[b] = Deleted /\ \A c \in Bookings \ {b} : booking'[c] = booking[c]
  BY DEF Remove, TInv, TypeOK
<1>3. \A a \in Applications : /\ application'[a] \in ApplicationRow
                              /\ application'[a].status = application[a].status
                              /\ application'[a].space = application[a].space
                              /\ application'[a].slot = application[a].slot
  <2> TAKE a \in Applications
  <2>1. application[a] \in ApplicationRow BY DEF TInv, TypeOK
  <2>2. CASE application'[a] = application[a] BY <2>1, <2>2
  <2>3. CASE application'[a] = [application[a] EXCEPT !.booking = None]
    BY <2>1, <2>3 DEF ApplicationRow
  <2> QED BY <2>2, <2>3 DEF Remove
<1>4. NoDocuments \in [DocumentKinds -> Nat]
  BY DEF NoDocuments
<1>5. application' \in [Applications -> ApplicationRow]
  BY <1>3 DEF Remove
<1>6. TypeOK' BY <1>1, <1>4, <1>5 DEF Remove, TInv, TypeOK
<1>7. "deleted" \notin BookingStatus BY DEF BookingStatus
<1>8. RowsComplete' BY <1>1, <1>2, <1>3, <1>7 DEF TInv, RowsComplete, Live
<1>9. RequestsComplete'
  BY <1>1, <1>2, <1>3 DEF Remove, TInv, RequestsComplete, RequestComplete
<1> QED BY <1>6, <1>8, <1>9 DEF TInv

LEMMA ImmediateKeeps ==
  ASSUME TInv, Immediate
  PROVE  TInv'
<1>1. ASSUME NEW b \in Bookings, Remove(b) PROVE TInv'
  BY <1>1, RemoveKeeps
<1>2. ASSUME NEW b \in Bookings, NEW st \in FreeStatuses, Update(b, st)
      PROVE  TInv'
  <2>1. SetStatus(b, st) /\ st \in BookingStatus
    BY <1>2, FreeStatusesAreStatuses DEF Update
  <2>2. TypeOK' BY <1>2, <2>1, SetStatusKeeps DEF Update, TInv, TypeOK
  <2>3. RowsComplete'
    BY <1>2, <2>1, SetStatusKeeps DEF Update, TInv, RowsComplete, Live
  <2>4. RequestsComplete'
    BY <1>2, <2>1, SetStatusKeeps DEF Update, TInv, RequestsComplete
  <2> QED BY <2>2, <2>3, <2>4 DEF TInv
<1>3. ASSUME NEW b \in Bookings, NEW k \in DocumentKinds, RemoveDocument(b, k)
      PROVE  TInv'
  <2>1. documents' \in [Bookings -> [DocumentKinds -> Nat]]
    BY <1>3 DEF RemoveDocument, TInv, TypeOK
  <2> QED
    BY <1>3, <2>1 DEF RemoveDocument, TInv, TypeOK, RowsComplete, Live,
                      RequestsComplete
<1>4. ASSUME NEW s \in Spaces, NEW st \in SpaceEdits \cup {space[s].status},
             NEW pub \in PublishEdits \cup {space[s].is_published},
             UpdateSpace(s, st, pub)
      PROVE  TInv'
  <2>1. st \in SpaceStatus /\ pub \in BOOLEAN
    BY SpaceEditsAreEdits DEF TInv, TypeOK
  <2>2. TypeOK' BY <1>4, <2>1 DEF UpdateSpace, TInv, TypeOK
  <2> QED
    BY <1>4, <2>2 DEF UpdateSpace, TInv, RowsComplete, Live, RequestsComplete
<1> QED BY <1>1, <1>2, <1>3, <1>4 DEF Immediate

LEMMA InitTInv == Init => TInv
<1> SUFFICES ASSUME Init PROVE TInv
  OBVIOUS
<1>1. TypeOK
  BY IdleIsRow
  DEF Init, TypeOK, NoBooking, BookingRow, NoApplication, ApplicationRow,
      NoDocuments, SpaceStatus
<1>2. RowsComplete
  BY DEF Init, RowsComplete, Live, NoBooking, NoApplication, BookingStatus
<1>3. RequestsComplete
  BY IdleIsRow, NoneIsNoRow DEF Init, RequestsComplete, Idle
<1> QED BY <1>1, <1>2, <1>3 DEF TInv

LEMMA NextTInv == TInv /\ [Next]_vars => TInv'
<1> SUFFICES ASSUME TInv, [Next]_vars PROVE TInv'
  OBVIOUS
<1>1. ASSUME NEW r \in Requests, Arrival(r) PROVE TInv' BY <1>1, ArrivalKeeps
<1>2. ASSUME NEW r \in Requests, Continue(r) PROVE TInv' BY <1>2, ContinueKeeps
<1>3. ASSUME NEW r \in Requests, Fail(r) PROVE TInv'
  BY <1>3, FinishOnlyKeeps DEF Fail
<1>4. CASE Immediate BY <1>4, ImmediateKeeps
<1>5. CASE UNCHANGED vars
  BY <1>5 DEF vars, TInv, TypeOK, RowsComplete, Live, RequestsComplete
<1> QED BY <1>1, <1>2, <1>3, <1>4, <1>5 DEF Next

\* Every table keeps the type of its rows, for all sizes and any number of
\* overlapping requests.
THEOREM TypeCorrect == Spec => []TypeOK
<1>1. Spec => []TInv
  BY InitTInv, NextTInv, PTL DEF Spec
<1>2. TInv => TypeOK BY DEF TInv
<1> QED BY <1>1, <1>2, PTL

-----------------------------------------------------------------------------
(* ACTIVE bookings and the public map.  Only finalizeBooking makes a booking *)
(* ACTIVE, and only PATCH /spaces/:id publishes.                             *)

\* No booking becomes ACTIVE and no space is published: the invariant stays.
NoneActivated ==
  \A b \in Bookings : booking'[b].status = "ACTIVE" =>
    booking[b].status = "ACTIVE" /\ booking'[b].space = booking[b].space

NonePublished ==
  \A s \in Spaces : space'[s].is_published => space[s].is_published

LEMMA QuietKeepsOffTheMap ==
  ASSUME TInv, ActiveIsOffTheMap, NoneActivated, NonePublished
  PROVE  ActiveIsOffTheMap'
<1> SUFFICES ASSUME NEW b \in Bookings, booking'[b].status = "ACTIVE"
             PROVE  ~space'[booking'[b].space].is_published
  BY DEF ActiveIsOffTheMap
<1>1. booking[b].status = "ACTIVE" /\ booking'[b].space = booking[b].space
  BY DEF NoneActivated
<1>2. booking[b].space \in Spaces
  BY <1>1 DEF TInv, RowsComplete, Live, BookingStatus
<1>3. ~space[booking[b].space].is_published
  BY <1>1 DEF ActiveIsOffTheMap
<1> QED BY <1>1, <1>2, <1>3 DEF NonePublished

LEMMA SetStatusActivatesNone ==
  ASSUME TInv, NEW b \in Bookings, NEW st, st # "ACTIVE", SetStatus(b, st)
  PROVE  NoneActivated
  BY DEF SetStatus, NoneActivated, TInv, TypeOK, BookingRow

LEMMA WriteStatusOffTheMap ==
  ASSUME TInv, ActiveIsOffTheMap, NEW r \in Requests, NEW op \in OnBooking,
         NEW st, st # "ACTIVE", WriteStatus(r, op, st)
  PROVE  ActiveIsOffTheMap'
<1>1. request[r].booking \in Bookings
  BY DEF WriteStatus, At, TInv, RequestsComplete, RequestComplete
<1>2. NoneActivated BY <1>1, SetStatusActivatesNone DEF WriteStatus
<1>3. NonePublished BY DEF WriteStatus, NonePublished
<1> QED BY <1>2, <1>3, QuietKeepsOffTheMap

LEMMA InsertActivatesNone ==
  ASSUME TInv, NEW b \in Bookings, NEW st, st # "ACTIVE", NEW s, NEW slot,
         InsertBooking(b, st, s, slot)
  PROVE  NoneActivated
  BY DEF InsertBooking, NoneActivated, TInv, TypeOK

LEMMA FinalizeWriteOffTheMap ==
  ASSUME TInv, ActiveIsOffTheMap, NEW r \in Requests, FinalizeWrite(r)
  PROVE  ActiveIsOffTheMap'
<1> DEFINE c == request[r].booking
<1>1. c \in Bookings
  BY DEF FinalizeWrite, At, TInv, RequestsComplete, RequestComplete, OnBooking
<1>2. booking[c].space \in Spaces
  BY <1>1 DEF FinalizeWrite, SetStatus, TInv, RowsComplete
<1>3. /\ ~space'[booking[c].space].is_published
      /\ NonePublished
  BY <1>2 DEF FinalizeWrite, NonePublished, TInv, TypeOK
<1>4. /\ booking'[c].space = booking[c].space
      /\ \A b \in Bookings \ {c} : booking'[b] = booking[b]
  BY <1>1 DEF FinalizeWrite, SetStatus, TInv, TypeOK, BookingRow
<1> SUFFICES ASSUME NEW b \in Bookings, booking'[b].status = "ACTIVE"
             PROVE  ~space'[booking'[b].space].is_published
  BY DEF ActiveIsOffTheMap
<1>5. CASE b = c BY <1>3, <1>4, <1>5
<1>6. CASE b # c
  <2>1. booking'[b] = booking[b] BY <1>4, <1>6
  <2>2. booking[b].space \in Spaces
    BY <2>1 DEF TInv, RowsComplete, Live, BookingStatus
  <2>3. ~space[booking[b].space].is_published
    BY <2>1 DEF ActiveIsOffTheMap
  <2> QED BY <1>3, <2>1, <2>2, <2>3 DEF NonePublished
<1> QED BY <1>5, <1>6

LEMMA ContinueOffTheMap ==
  ASSUME TInv, ActiveIsOffTheMap, "ACTIVE" \notin FreeStatuses,
         NEW r \in Requests, Continue(r)
  PROVE  ActiveIsOffTheMap'
<1>1. ASSUME NEW b \in Bookings, CreateInsert(r, b) PROVE ActiveIsOffTheMap'
  <2>1. request[r].status # "ACTIVE"
    BY <1>1 DEF CreateInsert, At, TInv, RequestsComplete, RequestComplete,
                CreateStatuses
  <2>2. NoneActivated BY <1>1, <2>1, InsertActivatesNone DEF CreateInsert
  <2>3. NonePublished BY <1>1 DEF CreateInsert, NonePublished
  <2> QED BY <2>2, <2>3, QuietKeepsOffTheMap
<1>2. ASSUME NEW b \in Bookings, AcceptWrite(r, b) PROVE ActiveIsOffTheMap'
  <2>1. NoneActivated BY <1>2, InsertActivatesNone DEF AcceptWrite
  <2>2. NonePublished BY <1>2 DEF AcceptWrite, NonePublished, TInv, TypeOK
  <2> QED BY <2>1, <2>2, QuietKeepsOffTheMap
<1>3. CASE ApproveWrite(r)
  <2>1. request[r].booking \in Bookings
    BY <1>3 DEF ApproveWrite, At, TInv, RequestsComplete, RequestComplete, OnBooking
  <2>2. NoneActivated BY <1>3, <2>1, SetStatusActivatesNone DEF ApproveWrite
  <2>3. NonePublished BY <1>3 DEF ApproveWrite, NonePublished
  <2> QED BY <2>2, <2>3, QuietKeepsOffTheMap
<1>4. CASE PhoneUnreachableWrite(r)
  <2>1. request[r].booking \in Bookings
    BY <1>4 DEF PhoneUnreachableWrite, At, TInv, RequestsComplete,
                RequestComplete, OnBooking
  <2>2. NoneActivated
    BY <1>4, <2>1, SetStatusActivatesNone DEF PhoneUnreachableWrite
  <2>3. NonePublished
    BY <1>4 DEF PhoneUnreachableWrite, NonePublished, TInv, TypeOK
  <2> QED BY <2>2, <2>3, QuietKeepsOffTheMap
<1>5. CASE FinalizeWrite(r) BY <1>5, FinalizeWriteOffTheMap
<1>6. CASE LinkInvoice(r)
  <2>1. request[r].booking \in Bookings
    BY <1>6 DEF LinkInvoice, TInv, RequestsComplete, RequestComplete
  <2>2. NoneActivated
    BY <1>6, <2>1 DEF LinkInvoice, NoneActivated, TInv, TypeOK, BookingRow
  <2>3. NonePublished BY <1>6 DEF LinkInvoice, NonePublished
  <2> QED BY <2>2, <2>3, QuietKeepsOffTheMap
<1>7. CASE RejectWrite(r)
  BY <1>7, WriteStatusOffTheMap DEF RejectWrite, OnBooking
<1>8. CASE CancelWrite(r)
  BY <1>8, WriteStatusOffTheMap DEF CancelWrite, OnBooking
<1>9. CASE CheckInWrite(r)
  BY <1>9, WriteStatusOffTheMap DEF CheckInWrite, OnBooking
<1>10. CASE CheckOutWrite(r)
  BY <1>10, WriteStatusOffTheMap DEF CheckOutWrite, OnBooking
<1>11. CASE ConfirmPhoneWrite(r)
  BY <1>11, WriteStatusOffTheMap DEF ConfirmPhoneWrite, OnBooking
<1>12. CASE MarkDocumentsPendingWrite(r)
  BY <1>12, WriteStatusOffTheMap DEF MarkDocumentsPendingWrite, OnBooking
<1>13. CASE \/ \E a \in Applications : ApplyInsert(r, a)
            \/ ReadInvoice(r) \/ GenerateInvoice(r) \/ AddDocumentInsert(r)
            \/ FinalizeContractDoc(r) \/ RefuseWrite(r) \/ RowGone(r)
  <2>1. UNCHANGED <<booking, space>>
    BY <1>13 DEF ApplyInsert, ReadInvoice, GenerateInvoice, AddDocumentInsert,
                 FinalizeContractDoc, RefuseWrite, RowGone
  <2>2. NoneActivated /\ NonePublished BY <2>1 DEF NoneActivated, NonePublished
  <2> QED BY <2>2, QuietKeepsOffTheMap
<1> QED
  BY <1>1, <1>2, <1>3, <1>4, <1>5, <1>6, <1>7, <1>8, <1>9, <1>10, <1>11, <1>12,
     <1>13 DEF Continue

LEMMA ImmediateOffTheMap ==
  ASSUME TInv, ActiveIsOffTheMap, "ACTIVE" \notin FreeStatuses,
         TRUE \notin PublishEdits, Immediate
  PROVE  ActiveIsOffTheMap'
<1>1. ASSUME NEW b \in Bookings, Remove(b) PROVE ActiveIsOffTheMap'
  <2>1. NoneActivated
    BY <1>1 DEF Remove, NoneActivated, Deleted, NoBooking, TInv, TypeOK
  <2>2. NonePublished BY <1>1 DEF Remove, NonePublished
  <2> QED BY <2>1, <2>2, QuietKeepsOffTheMap
<1>2. ASSUME NEW b \in Bookings, NEW st \in FreeStatuses, Update(b, st)
      PROVE  ActiveIsOffTheMap'
  <2>1. NoneActivated BY <1>2, SetStatusActivatesNone DEF Update
  <2>2. NonePublished BY <1>2 DEF Update, NonePublished
  <2> QED BY <2>1, <2>2, QuietKeepsOffTheMap
<1>3. ASSUME NEW b \in Bookings, NEW k \in DocumentKinds, RemoveDocument(b, k)
      PROVE  ActiveIsOffTheMap'
  <2>1. NoneActivated /\ NonePublished
    BY <1>3 DEF RemoveDocument, NoneActivated, NonePublished
  <2> QED BY <2>1, QuietKeepsOffTheMap
<1>4. ASSUME NEW s \in Spaces, NEW st \in SpaceEdits \cup {space[s].status},
             NEW pub \in PublishEdits \cup {space[s].is_published},
             UpdateSpace(s, st, pub)
      PROVE  ActiveIsOffTheMap'
  <2>1. pub => space[s].is_published
    BY SpaceEditsAreEdits DEF TInv, TypeOK
  <2>2. NonePublished BY <1>4, <2>1 DEF UpdateSpace, NonePublished, TInv, TypeOK
  <2>3. NoneActivated BY <1>4 DEF UpdateSpace, NoneActivated
  <2> QED BY <2>2, <2>3, QuietKeepsOffTheMap
<1> QED BY <1>1, <1>2, <1>3, <1>4 DEF Immediate

\* While a booking is ACTIVE its space is off the public map, whatever handlers
\* overlap or fail, as long as staff write ACTIVE into no booking and publish no
\* space by hand.
THEOREM ActiveStaysOffTheMap ==
  ASSUME "ACTIVE" \notin FreeStatuses, TRUE \notin PublishEdits
  PROVE  Spec => []ActiveIsOffTheMap
<1>1. Init => TInv /\ ActiveIsOffTheMap
  BY InitTInv DEF Init, NoBooking, ActiveIsOffTheMap
<1>2. TInv /\ ActiveIsOffTheMap /\ [Next]_vars => TInv' /\ ActiveIsOffTheMap'
  <2> SUFFICES ASSUME TInv, ActiveIsOffTheMap, [Next]_vars
               PROVE  TInv' /\ ActiveIsOffTheMap'
    OBVIOUS
  <2>1. TInv' BY NextTInv
  <2>2. ASSUME NEW r \in Requests, Arrival(r) \/ Fail(r) PROVE ActiveIsOffTheMap'
    <3>1. UNCHANGED <<booking, space>>
      BY <2>2 DEF Arrival, Fail, Create, Approve, Reject, Cancel, CheckIn,
           CheckOut, ConfirmPhone, PhoneUnreachable, MarkDocumentsPending,
           Finalize, AddDocument, Apply, Accept, Refuse, Review, Begin, Enter
    <3>2. NoneActivated /\ NonePublished BY <3>1 DEF NoneActivated, NonePublished
    <3> QED BY <3>2, QuietKeepsOffTheMap
  <2>3. ASSUME NEW r \in Requests, Continue(r) PROVE ActiveIsOffTheMap'
    BY <2>3, ContinueOffTheMap
  <2>4. CASE Immediate BY <2>1, <2>4, ImmediateOffTheMap
  <2>5. CASE UNCHANGED vars BY <2>1, <2>5 DEF vars, ActiveIsOffTheMap
  <2> QED BY <2>1, <2>2, <2>3, <2>4, <2>5 DEF Next
<1> QED BY <1>1, <1>2, PTL DEF Spec

-----------------------------------------------------------------------------
(***************************************************************************)
(* What a check that is not in the same transaction as the write it guards *)
(* still bounds: the handlers that passed it are at most the requests in   *)
(* flight.  Each invariant counts, for a booking, what is there together   *)
(* with the requests that may still add one.                               *)
(***************************************************************************)

LEMMA RequestSubsets ==
  ASSUME NEW S \in SUBSET Requests
  PROVE  /\ IsFiniteSet(S) /\ Cardinality(S) \in Nat
         /\ Cardinality(Requests) \in Nat
         /\ Cardinality(S) <= Cardinality(Requests)
  BY RequestsFinite, FS_Subset, FS_CardinalityType

LEMMA FewerRequests ==
  ASSUME NEW S \in SUBSET Requests, NEW T \in SUBSET S
  PROVE  Cardinality(T) <= Cardinality(S)
  BY RequestSubsets, FS_Subset

LEMMA OneRequestLess ==
  ASSUME NEW S \in SUBSET Requests, NEW r \in S
  PROVE  Cardinality(S \ {r}) = Cardinality(S) - 1
  BY RequestSubsets, FS_RemoveElement

-----------------------------------------------------------------------------
(* Documents. *)

Uploading(b) ==
  {r \in Requests : request[r].op = "addDocument" /\ request[r].booking = b}

DInv == \A b \in Bookings :
  DocumentCount(b) + Cardinality(Uploading(b)) < MaxDocuments + Cardinality(Requests)

\* A step that starts no upload and adds no document.
QuietUploads ==
  \A r \in Requests : request'[r].op = "addDocument" =>
    request[r].op = "addDocument" /\ request'[r].booking = request[r].booking

LEMMA DocumentsNat ==
  ASSUME TInv, NEW b \in Bookings
  PROVE  DocumentCount(b) \in Nat
  BY DEF TInv, TypeOK, DocumentCount, DocumentKinds

LEMMA QuietKeepsDInv ==
  ASSUME TInv, TInv', DInv, QuietUploads,
         \A b \in Bookings : DocumentCount(b)' <= DocumentCount(b)
  PROVE  DInv'
<1> SUFFICES ASSUME NEW b \in Bookings
             PROVE  (DocumentCount(b) + Cardinality(Uploading(b))
                       < MaxDocuments + Cardinality(Requests))'
  BY DEF DInv
<1>1. Uploading(b)' \subseteq Uploading(b) /\ Uploading(b) \subseteq Requests
  BY DEF Uploading, QuietUploads
<1>2. /\ Cardinality(Uploading(b)') <= Cardinality(Uploading(b))
      /\ Cardinality(Uploading(b)) \in Nat /\ Cardinality(Uploading(b)') \in Nat
      /\ Cardinality(Requests) \in Nat
  BY <1>1, FewerRequests, RequestSubsets
<1>3. DocumentCount(b) \in Nat /\ DocumentCount(b)' \in Nat
  <2>1. DocumentCount(b) \in Nat BY DocumentsNat
  <2>2. DocumentCount(b)' \in Nat
    BY DEF TInv, TypeOK, DocumentCount, DocumentKinds
  <2> QED BY <2>1, <2>2
<1>4. DocumentCount(b) + Cardinality(Uploading(b))
        < MaxDocuments + Cardinality(Requests)
  BY DEF DInv
<1>5. DocumentCount(b)' + Cardinality(Uploading(b)')
        < MaxDocuments + Cardinality(Requests)
  BY <1>2, <1>3, <1>4, LimitsAreNaturals
<1> QED BY <1>5

LEMMA EnterQuiet ==
  ASSUME TInv, TInv', DInv, NEW r \in Requests, NEW row, Enter(r, row),
         row.op # "addDocument"
  PROVE  DInv'
<1>1. request'[r] = row /\ \A q \in Requests \ {r} : request'[q] = request[q]
  BY DEF Enter, TInv, TypeOK
<1>2. QuietUploads BY <1>1 DEF QuietUploads
<1>3. \A b \in Bookings : DocumentCount(b)' <= DocumentCount(b)
  BY DocumentsNat DEF Enter, DocumentCount
<1> QED BY <1>2, <1>3, QuietKeepsDInv

LEMMA BeginQuiet ==
  ASSUME TInv, TInv', DInv, NEW r \in Requests, NEW b \in Bookings, NEW S,
         NEW op \in OnBooking \ {"addDocument"}, Begin(r, op, b, S)
  PROVE  DInv'
<1>1. [Idle EXCEPT !.op = op, !.at = "write", !.booking = b].op = op
  BY DEF Idle
<1> QED BY <1>1, EnterQuiet DEF Begin

\* The rest of the steps either end the request or keep its endpoint and booking.
LEMMA StepQuiet ==
  ASSUME TInv, TInv', DInv, NEW r \in Requests, UNCHANGED documents,
         \A q \in Requests \ {r} : request'[q] = request[q],
         request'[r].op # "addDocument"
  PROVE  DInv'
<1>1. QuietUploads BY DEF QuietUploads
<1>2. \A b \in Bookings : DocumentCount(b)' <= DocumentCount(b)
  BY DocumentsNat DEF DocumentCount
<1> QED BY <1>1, <1>2, QuietKeepsDInv

LEMMA FinishQuiet ==
  ASSUME TInv, TInv', DInv, NEW r \in Requests, UNCHANGED documents, Finish(r)
  PROVE  DInv'
  BY FinishKeeps, StepQuiet DEF Idle

LEMMA GotoQuiet ==
  ASSUME TInv, TInv', DInv, NEW r \in Requests, NEW at, UNCHANGED documents,
         request[r].op # "addDocument", request' = [request EXCEPT ![r].at = at]
  PROVE  DInv'
<1>1. /\ request'[r] = [request[r] EXCEPT !.at = at] /\ request[r] \in RequestRow
      /\ \A q \in Requests \ {r} : request'[q] = request[q]
  BY DEF TInv, TypeOK
<1>2. request'[r].op = request[r].op BY <1>1 DEF RequestRow
<1> QED BY <1>1, <1>2, StepQuiet

\* The upload that starts has counted fewer documents than the limit.
LEMMA AddDocumentKeepsDInv ==
  ASSUME TInv, TInv', DInv, NEW r \in Requests, NEW b \in Bookings,
         NEW k \in DocumentKinds, AddDocument(r, b, k)
  PROVE  DInv'
<1> DEFINE row == [Idle EXCEPT !.op = "addDocument", !.at = "write",
                               !.booking = b, !.document = k]
<1>1. row.op = "addDocument" /\ row.booking = b BY DEF Idle
<1>2. Enter(r, row) /\ DocumentCount(b) < MaxDocuments BY DEF AddDocument
<1> HIDE DEF row
<1>3. request'[r] = row /\ \A q \in Requests \ {r} : request'[q] = request[q]
  BY <1>2 DEF Enter, TInv, TypeOK
<1>4. \A c \in Bookings : DocumentCount(c)' = DocumentCount(c)
  BY <1>2 DEF Enter, DocumentCount
<1>5. \A c \in Bookings : Uploading(c)' \in SUBSET Requests
  BY DEF Uploading
<1> SUFFICES ASSUME NEW c \in Bookings
             PROVE  DocumentCount(c)' + Cardinality(Uploading(c)')
                      < MaxDocuments + Cardinality(Requests)
  BY DEF DInv
<1>6. CASE c = b
  BY <1>2, <1>4, <1>5, <1>6, RequestSubsets, DocumentsNat, LimitsAreNaturals
<1>7. CASE c # b
  <2>1. Uploading(c)' \subseteq Uploading(c)
    BY <1>1, <1>3, <1>7 DEF Uploading
  <2>2. Uploading(c) \in SUBSET Requests BY DEF Uploading
  <2>3. Cardinality(Uploading(c)') <= Cardinality(Uploading(c))
    BY <2>1, <2>2, FewerRequests
  <2> QED
    BY <1>4, <1>5, <2>2, <2>3, RequestSubsets, DocumentsNat, LimitsAreNaturals
    DEF DInv
<1> QED BY <1>6, <1>7

\* The document inserted takes the place of its upload.
LEMMA AddDocumentInsertKeepsDInv ==
  ASSUME TInv, TInv', DInv, NEW r \in Requests, AddDocumentInsert(r)
  PROVE  DInv'
<1>1. PICK b \in Bookings : b = request[r].booking
  BY DEF AddDocumentInsert, At, TInv, RequestsComplete, RequestComplete, OnBooking
<1>0. PICK k \in DocumentKinds : k = request[r].document
  BY DEF TInv, TypeOK, RequestRow
<1>2. /\ request[r].op = "addDocument" /\ Finish(r)
      /\ documents' = [documents EXCEPT ![b][k] = @ + 1]
  BY <1>1, <1>0 DEF AddDocumentInsert, At
<1>3. /\ DocumentCount(b)' = DocumentCount(b) + 1
      /\ \A c \in Bookings \ {b} : DocumentCount(c)' = DocumentCount(c)
  BY <1>2 DEF TInv, TypeOK, DocumentCount, DocumentKinds
<1>4. \A c \in Bookings : Uploading(c)' = Uploading(c) \ {r}
  BY <1>2, FinishKeeps DEF Uploading, Idle
<1>5. r \in Uploading(b) BY <1>1, <1>2 DEF Uploading
<1> SUFFICES ASSUME NEW c \in Bookings
             PROVE  DocumentCount(c)' + Cardinality(Uploading(c)')
                      < MaxDocuments + Cardinality(Requests)
  BY DEF DInv
<1>6. Uploading(c) \in SUBSET Requests BY DEF Uploading
<1>7. /\ Cardinality(Uploading(c)) \in Nat /\ Cardinality(Requests) \in Nat
      /\ Cardinality(Uploading(c) \ {r}) \in Nat
      /\ Cardinality(Uploading(c) \ {r}) <= Cardinality(Uploading(c))
  BY <1>6, RequestSubsets, FewerRequests
<1>8. /\ DocumentCount(c) \in Nat
      /\ DocumentCount(c) + Cardinality(Uploading(c))
           < MaxDocuments + Cardinality(Requests)
  BY DocumentsNat DEF DInv
<1>11. Cardinality(Uploading(c)') = Cardinality(Uploading(c) \ {r})
  BY <1>4
<1>9. CASE c = b
  <2>1. Cardinality(Uploading(c) \ {r}) = Cardinality(Uploading(c)) - 1
    BY <1>5, <1>6, <1>9, OneRequestLess
  <2>2. DocumentCount(c)' = DocumentCount(c) + 1 BY <1>3, <1>9
  <2> QED BY <1>7, <1>8, <1>11, <2>1, <2>2, LimitsAreNaturals
<1>10. CASE c # b
  <2>1. DocumentCount(c)' = DocumentCount(c) BY <1>3, <1>10
  <2> QED BY <1>7, <1>8, <1>11, <2>1, LimitsAreNaturals
<1> QED BY <1>9, <1>10

LEMMA ArrivalDInv ==
  ASSUME TInv, TInv', DInv, NEW r \in Requests, Arrival(r)
  PROVE  DInv'
<1>1. ASSUME NEW s \in Spaces, NEW slot \in Slots, NEW st \in CreateStatuses,
             Create(r, s, slot, st)
      PROVE  DInv'
  <2>1. [Idle EXCEPT !.op = "create", !.at = "write", !.space = s,
                     !.slot = slot, !.status = st].op = "create"
    BY DEF Idle
  <2> QED BY <1>1, <2>1, EnterQuiet DEF Create
<1>2. ASSUME NEW p \in Applicants, NEW s \in Spaces, NEW slot \in Slots,
             Apply(r, p, s, slot)
      PROVE  DInv'
  <2>1. [Idle EXCEPT !.op = "apply", !.at = "write", !.space = s,
                     !.slot = slot, !.applicant = p].op = "apply"
    BY DEF Idle
  <2> QED BY <1>2, <2>1, EnterQuiet DEF Apply
<1>3. ASSUME NEW a \in Applications, NEW op \in {"accept", "refuse"},
             Review(r, op, a)
      PROVE  DInv'
  <2>1. [Idle EXCEPT !.op = op, !.at = "write", !.application = a].op = op
    BY DEF Idle
  <2> QED BY <1>3, <2>1, EnterQuiet DEF Review
<1>4. ASSUME NEW b \in Bookings, Finalize(r, b) PROVE DInv'
  <2>1. [Idle EXCEPT !.op = "finalize", !.at = "contractDoc",
                     !.booking = b].op = "finalize"
    BY DEF Idle
  <2> QED BY <1>4, <2>1, EnterQuiet DEF Finalize
<1>5. ASSUME NEW b \in Bookings, NEW op \in OnBooking \ {"addDocument"}, NEW S,
             Begin(r, op, b, S)
      PROVE  DInv'
  BY <1>5, BeginQuiet
<1>6. ASSUME NEW b \in Bookings,
             \/ Approve(r, b) \/ Reject(r, b) \/ Cancel(r, b)
             \/ CheckIn(r, b) \/ CheckOut(r, b)
             \/ ConfirmPhone(r, b) \/ PhoneUnreachable(r, b)
             \/ MarkDocumentsPending(r, b)
      PROVE  DInv'
  BY <1>5, <1>6 DEF Approve, Reject, Cancel, CheckIn, CheckOut, ConfirmPhone,
     PhoneUnreachable, MarkDocumentsPending, OnBooking
<1> QED
  BY <1>1, <1>2, <1>3, <1>4, <1>6, AddDocumentKeepsDInv
  DEF Arrival, Accept, Refuse

LEMMA ContinueDInv ==
  ASSUME TInv, TInv', DInv, NEW r \in Requests, Continue(r)
  PROVE  DInv'
<1>1. CASE Finish(r) /\ UNCHANGED documents BY <1>1, FinishQuiet
<1>2. ASSUME NEW b \in Bookings, CreateInsert(r, b) PROVE DInv'
  <2>1. CASE Finish(r) BY <1>2, <2>1, FinishQuiet DEF CreateInsert
  <2>2. CASE request' = [request EXCEPT ![r] = [Idle EXCEPT !.op = "create",
                                    !.at = "readInvoice", !.booking = b]]
    <3>1. request'[r].op = "create" BY <2>2 DEF Idle, TInv, TypeOK
    <3>2. \A q \in Requests \ {r} : request'[q] = request[q]
      BY <2>2 DEF TInv, TypeOK
    <3> QED BY <1>2, <3>1, <3>2, StepQuiet DEF CreateInsert
  <2> QED BY <1>2, <2>1, <2>2 DEF CreateInsert
<1>3. ASSUME NEW b \in Bookings, AcceptWrite(r, b) PROVE DInv'
  <2>1. /\ request'[r] = [request[r] EXCEPT !.at = "generateInvoice", !.booking = b]
        /\ request[r] \in RequestRow /\ request[r].op = "accept"
        /\ \A q \in Requests \ {r} : request'[q] = request[q]
    BY <1>3 DEF AcceptWrite, At, TInv, TypeOK
  <2>2. request'[r].op = request[r].op BY <2>1 DEF RequestRow
  <2> QED BY <1>3, <2>1, <2>2, StepQuiet DEF AcceptWrite
<1>4. CASE ReadInvoice(r) \/ GenerateInvoice(r) \/ LinkInvoice(r)
  <2>1. request'[r].op # "addDocument" \/ request'[r].op = request[r].op
    BY <1>4, FinishKeeps DEF ReadInvoice, GenerateInvoice, LinkInvoice, Idle,
       TInv, TypeOK, RequestRow
  <2>2. QuietUploads
    BY <1>4, FinishKeeps DEF ReadInvoice, GenerateInvoice, LinkInvoice, Idle,
       TInv, TypeOK, RequestRow, QuietUploads
  <2>3. \A b \in Bookings : DocumentCount(b)' <= DocumentCount(b)
    BY <1>4, DocumentsNat
    DEF ReadInvoice, GenerateInvoice, LinkInvoice, DocumentCount
  <2> QED BY <2>2, <2>3, QuietKeepsDInv
<1>5. CASE ApproveWrite(r)
  BY <1>5, GotoQuiet DEF ApproveWrite, At
<1>6. CASE FinalizeContractDoc(r)
  BY <1>6, <1>1, GotoQuiet DEF FinalizeContractDoc, At
<1>7. CASE AddDocumentInsert(r) BY <1>7, AddDocumentInsertKeepsDInv
<1> QED
  BY <1>1, <1>2, <1>3, <1>4, <1>5, <1>6, <1>7
  DEF Continue, ApplyInsert, RejectWrite, CancelWrite, CheckInWrite,
      CheckOutWrite, ConfirmPhoneWrite, MarkDocumentsPendingWrite, WriteStatus,
      PhoneUnreachableWrite, FinalizeWrite, RefuseWrite, RowGone

LEMMA ImmediateDInv ==
  ASSUME TInv, TInv', DInv, Immediate
  PROVE  DInv'
<1>1. UNCHANGED request /\ \A b \in Bookings : DocumentCount(b)' <= DocumentCount(b)
  <2>1. ASSUME NEW b \in Bookings, Remove(b)
        PROVE  \A c \in Bookings : DocumentCount(c)' <= DocumentCount(c)
    BY <2>1, DocumentsNat
    DEF Remove, TInv, TypeOK, DocumentCount, DocumentKinds, NoDocuments
  <2>2. ASSUME NEW b \in Bookings, NEW k \in DocumentKinds, RemoveDocument(b, k)
        PROVE  \A c \in Bookings : DocumentCount(c)' <= DocumentCount(c)
    BY <2>2 DEF RemoveDocument, TInv, TypeOK, DocumentCount, DocumentKinds
  <2>3. UNCHANGED documents =>
          \A c \in Bookings : DocumentCount(c)' <= DocumentCount(c)
    BY DocumentsNat DEF DocumentCount
  <2> QED
    BY <2>1, <2>2, <2>3 DEF Immediate, Remove, Update, RemoveDocument, UpdateSpace
<1> QED BY <1>1, QuietKeepsDInv DEF QuietUploads

\* addDocument's limit holds up to the uploads that can overlap: for MaxDocuments
\* documents and n request slots, at most MaxDocuments + n - 1; with one slot,
\* the limit itself.
THEOREM DocumentsStayBounded == Spec => []DocumentsBounded
<1>1. Init => DInv
  <2> SUFFICES ASSUME Init, NEW b \in Bookings
               PROVE  DocumentCount(b) + Cardinality(Uploading(b))
                        < MaxDocuments + Cardinality(Requests)
    BY DEF DInv
  <2>1. Uploading(b) = {} BY DEF Init, Uploading, Idle
  <2>2. DocumentCount(b) = 0
    BY DEF Init, DocumentCount, NoDocuments, DocumentKinds
  <2>3. Cardinality({}) = 0 /\ Cardinality(Requests) \in Nat
    BY FS_EmptySet, RequestsFinite, FS_CardinalityType
  <2> QED BY <2>1, <2>2, <2>3, LimitsAreNaturals
<1>2. TInv /\ TInv' /\ DInv /\ [Next]_vars => DInv'
  <2> SUFFICES ASSUME TInv, TInv', DInv, [Next]_vars PROVE DInv'
    OBVIOUS
  <2>1. ASSUME NEW r \in Requests, Fail(r) PROVE DInv'
    BY <2>1, FinishQuiet DEF Fail
  <2>2. CASE UNCHANGED vars
    BY <2>2 DEF vars, DInv, DocumentCount, Uploading
  <2> QED
    BY <2>1, <2>2, ArrivalDInv, ContinueDInv, ImmediateDInv DEF Next
<1>3. TInv /\ DInv => DocumentsBounded
  <2> SUFFICES ASSUME TInv, DInv, NEW b \in Bookings
               PROVE  DocumentCount(b) <= MaxDocuments + Cardinality(Requests) - 1
    BY DEF DocumentsBounded
  <2>1. Uploading(b) \in SUBSET Requests BY DEF Uploading
  <2> QED BY <2>1, RequestSubsets, DocumentsNat, LimitsAreNaturals DEF DInv
<1> QED BY <1>1, <1>2, <1>3, InitTInv, NextTInv, PTL DEF Spec

-----------------------------------------------------------------------------
(* Invoices. *)

\* A request past the point where it may still generate an invoice, or at it.
IssuesNow(q) == q.at \in {"readInvoice", "generateInvoice"}
MayIssue(q) == IssuesNow(q) \/ (q.op = "approve" /\ q.at = "write")

Issuing(b) == {r \in Requests : MayIssue(request[r]) /\ request[r].booking = b}

IInv == \A b \in Bookings :
  /\ booking[b].status \in {"unborn", "PENDING_APPROVAL"} => invoices[b] = 0
  /\ booking[b].status = "PENDING_APPROVAL" =>
       \A r \in Issuing(b) : ~IssuesNow(request[r])
  /\ invoices[b] + Cardinality(Issuing(b)) <= Cardinality(Requests)

\* The status of a booking does not go back to waiting for approval.
NoReopening ==
  \A b \in Bookings : booking'[b].status \in {"unborn", "PENDING_APPROVAL"} =>
    booking[b].status \in {"unborn", booking'[b].status}

LEMMA IInvParts ==
  ASSUME TInv, IInv, NEW b \in Bookings
  PROVE  /\ Issuing(b) \in SUBSET Requests /\ invoices[b] \in Nat
         /\ Cardinality(Issuing(b)) \in Nat /\ Cardinality(Requests) \in Nat
         /\ invoices[b] + Cardinality(Issuing(b)) <= Cardinality(Requests)
         /\ booking[b].status = "unborn" => Issuing(b) = {}
<1>1. Issuing(b) \in SUBSET Requests BY DEF Issuing
<1>2. booking[b].status = "unborn" => Issuing(b) = {}
  BY DEF Issuing, TInv, RequestsComplete
<1> QED BY <1>1, <1>2, RequestSubsets DEF IInv, TInv, TypeOK

\* A step that makes no request one that may issue, or issue now, an invoice.
LEMMA QuietKeepsIInv ==
  ASSUME TInv, IInv, NoReopening, UNCHANGED invoices,
         \A r \in Requests : MayIssue(request'[r]) =>
           /\ MayIssue(request[r]) /\ request'[r].booking = request[r].booking
           /\ IssuesNow(request'[r]) => IssuesNow(request[r])
  PROVE  IInv'
<1> SUFFICES ASSUME NEW b \in Bookings
             PROVE  /\ booking'[b].status \in {"unborn", "PENDING_APPROVAL"}
                         => invoices'[b] = 0
                    /\ booking'[b].status = "PENDING_APPROVAL" =>
                         \A r \in Issuing(b)' : ~IssuesNow(request'[r])
                    /\ invoices'[b] + Cardinality(Issuing(b)')
                         <= Cardinality(Requests)
  BY DEF IInv
<1>1. Issuing(b)' \in SUBSET Issuing(b) /\ Issuing(b)' \in SUBSET Requests
  BY DEF Issuing
<1>2. Cardinality(Issuing(b)') <= Cardinality(Issuing(b))
  BY <1>1, IInvParts, FewerRequests
<1>3. Cardinality(Issuing(b)') \in Nat BY <1>1, RequestSubsets
<1>4. booking'[b].status = "PENDING_APPROVAL" =>
        \A r \in Issuing(b)' : ~IssuesNow(request'[r])
  BY <1>1, IInvParts DEF IInv, NoReopening, Issuing
<1>5. booking'[b].status \in {"unborn", "PENDING_APPROVAL"} => invoices'[b] = 0
  BY DEF IInv, NoReopening
<1> QED BY <1>2, <1>3, <1>4, <1>5, IInvParts

LEMMA RecordQuiet ==
  ASSUME TInv, IInv, NoReopening, UNCHANGED invoices, NEW r \in Requests,
         \A q \in Requests \ {r} : request'[q] = request[q],
         ~MayIssue(request'[r])
  PROVE  IInv'
  BY QuietKeepsIInv

LEMMA FinishQuietIInv ==
  ASSUME TInv, IInv, NoReopening, UNCHANGED invoices, NEW r \in Requests, Finish(r)
  PROVE  IInv'
<1>1. ~MayIssue(Idle) BY DEF MayIssue, IssuesNow, Idle
<1> QED BY <1>1, FinishKeeps, RecordQuiet

LEMMA EnterQuietIInv ==
  ASSUME TInv, IInv, NEW r \in Requests, NEW row, Enter(r, row), ~MayIssue(row)
  PROVE  IInv'
<1>1. request'[r] = row /\ \A q \in Requests \ {r} : request'[q] = request[q]
  BY DEF Enter, TInv, TypeOK
<1>2. NoReopening BY DEF Enter, NoReopening
<1> QED BY <1>1, <1>2, RecordQuiet DEF Enter

LEMMA BeginQuietIInv ==
  ASSUME TInv, IInv, NEW r \in Requests, NEW b \in Bookings, NEW S,
         NEW op \in OnBooking \ {"approve"}, Begin(r, op, b, S)
  PROVE  IInv'
<1>1. ~MayIssue([Idle EXCEPT !.op = op, !.at = "write", !.booking = b])
  BY DEF Idle, MayIssue, IssuesNow
<1> QED BY <1>1, EnterQuietIInv DEF Begin

LEMMA SetStatusNoReopening ==
  ASSUME TInv, NEW b \in Bookings, NEW s \in BookingStatus,
         s # "PENDING_APPROVAL", SetStatus(b, s)
  PROVE  NoReopening
<1>1. booking'[b].status = s
  BY DEF SetStatus, TInv, TypeOK, BookingRow
<1>2. \A c \in Bookings \ {b} : booking'[c] = booking[c]
  BY DEF SetStatus, TInv, TypeOK
<1> QED BY <1>1, <1>2 DEF NoReopening, BookingStatus

\* One request r becomes one that issues an invoice for b, which has none yet
\* and is not waiting for approval any more.
LEMMA FirstIssueKeepsIInv ==
  ASSUME TInv, IInv, NEW r \in Requests, NEW b \in Bookings, UNCHANGED invoices,
         invoices[b] = 0, request'[r].booking = b,
         \A q \in Requests \ {r} : request'[q] = request[q],
         \A c \in Bookings \ {b} : booking'[c].status = booking[c].status,
         \/ booking'[b].status \notin {"unborn", "PENDING_APPROVAL"}
         \/ booking'[b].status = booking[b].status /\ ~IssuesNow(request'[r])
  PROVE  IInv'
<1> SUFFICES ASSUME NEW c \in Bookings
             PROVE  /\ booking'[c].status \in {"unborn", "PENDING_APPROVAL"}
                         => invoices'[c] = 0
                    /\ booking'[c].status = "PENDING_APPROVAL" =>
                         \A q \in Issuing(c)' : ~IssuesNow(request'[q])
                    /\ invoices'[c] + Cardinality(Issuing(c)')
                         <= Cardinality(Requests)
  BY DEF IInv
<1>1. Issuing(c)' \in SUBSET Requests BY DEF Issuing
<1>2. CASE c = b
  <2>1. Cardinality(Issuing(c)') <= Cardinality(Requests)
        /\ Cardinality(Issuing(c)') \in Nat
    BY <1>1, RequestSubsets
  <2>2. booking'[b].status = "PENDING_APPROVAL" =>
          \A q \in Issuing(b)' : ~IssuesNow(request'[q])
    BY DEF IInv, Issuing
  <2> QED BY <1>2, <2>1, <2>2, IInvParts
<1>3. CASE c # b
  <2>1. Issuing(c)' \in SUBSET Issuing(c)
    BY <1>3 DEF Issuing
  <2>2. Cardinality(Issuing(c)') <= Cardinality(Issuing(c))
        /\ Cardinality(Issuing(c)') \in Nat
    BY <1>1, <2>1, IInvParts, FewerRequests, RequestSubsets
  <2>3. booking'[c].status = "PENDING_APPROVAL" =>
          \A q \in Issuing(c)' : ~IssuesNow(request'[q])
    BY <1>3 DEF IInv, Issuing
  <2>4. booking'[c].status = booking[c].status BY <1>3
  <2>5. booking'[c].status \in {"unborn", "PENDING_APPROVAL"} => invoices'[c] = 0
    BY <2>4 DEF IInv
  <2> QED BY <2>2, <2>3, <2>5, IInvParts
<1> QED BY <1>2, <1>3

LEMMA ApproveKeepsIInv ==
  ASSUME TInv, IInv, NEW r \in Requests, NEW b \in Bookings, Approve(r, b)
  PROVE  IInv'
<1> DEFINE row == [Idle EXCEPT !.op = "approve", !.at = "write", !.booking = b]
<1>1. row.booking = b /\ ~IssuesNow(row) BY DEF Idle, IssuesNow
<1>2. Enter(r, row) /\ booking[b].status = "PENDING_APPROVAL"
  BY DEF Approve, Begin
<1> HIDE DEF row
<1>3. request'[r] = row /\ \A q \in Requests \ {r} : request'[q] = request[q]
  BY <1>2 DEF Enter, TInv, TypeOK
<1>4. invoices[b] = 0 BY <1>2 DEF IInv
<1>5. UNCHANGED <<invoices, booking>> BY <1>2 DEF Enter
<1> QED BY <1>1, <1>3, <1>4, <1>5, FirstIssueKeepsIInv

LEMMA ArrivalIInv ==
  ASSUME TInv, IInv, NEW r \in Requests, Arrival(r)
  PROVE  IInv'
<1>1. ASSUME NEW s \in Spaces, NEW slot \in Slots, NEW st \in CreateStatuses,
             Create(r, s, slot, st)
      PROVE  IInv'
  <2>1. ~MayIssue([Idle EXCEPT !.op = "create", !.at = "write", !.space = s,
                               !.slot = slot, !.status = st])
    BY DEF Idle, MayIssue, IssuesNow
  <2> QED BY <1>1, <2>1, EnterQuietIInv DEF Create
<1>2. ASSUME NEW p \in Applicants, NEW s \in Spaces, NEW slot \in Slots,
             Apply(r, p, s, slot)
      PROVE  IInv'
  <2>1. ~MayIssue([Idle EXCEPT !.op = "apply", !.at = "write", !.space = s,
                               !.slot = slot, !.applicant = p])
    BY DEF Idle, MayIssue, IssuesNow
  <2> QED BY <1>2, <2>1, EnterQuietIInv DEF Apply
<1>3. ASSUME NEW a \in Applications, NEW op \in {"accept", "refuse"},
             Review(r, op, a)
      PROVE  IInv'
  <2>1. ~MayIssue([Idle EXCEPT !.op = op, !.at = "write", !.application = a])
    BY DEF Idle, MayIssue, IssuesNow
  <2> QED BY <1>3, <2>1, EnterQuietIInv DEF Review
<1>4. ASSUME NEW b \in Bookings, Finalize(r, b) PROVE IInv'
  <2>1. ~MayIssue([Idle EXCEPT !.op = "finalize", !.at = "contractDoc",
                               !.booking = b])
    BY DEF Idle, MayIssue, IssuesNow
  <2> QED BY <1>4, <2>1, EnterQuietIInv DEF Finalize
<1>5. ASSUME NEW b \in Bookings, NEW k \in DocumentKinds, AddDocument(r, b, k)
      PROVE  IInv'
  <2>1. ~MayIssue([Idle EXCEPT !.op = "addDocument", !.at = "write",
                               !.booking = b, !.document = k])
    BY DEF Idle, MayIssue, IssuesNow
  <2> QED BY <1>5, <2>1, EnterQuietIInv DEF AddDocument
<1>6. ASSUME NEW b \in Bookings, NEW op \in OnBooking \ {"approve"}, NEW S,
             Begin(r, op, b, S)
      PROVE  IInv'
  BY <1>6, BeginQuietIInv
<1>7. ASSUME NEW b \in Bookings,
             \/ Reject(r, b) \/ Cancel(r, b) \/ CheckIn(r, b) \/ CheckOut(r, b)
             \/ ConfirmPhone(r, b) \/ PhoneUnreachable(r, b)
             \/ MarkDocumentsPending(r, b)
      PROVE  IInv'
  BY <1>6, <1>7 DEF Reject, Cancel, CheckIn, CheckOut, ConfirmPhone,
     PhoneUnreachable, MarkDocumentsPending, OnBooking
<1> QED
  BY <1>1, <1>2, <1>3, <1>4, <1>5, <1>7, ApproveKeepsIInv
  DEF Arrival, Accept, Refuse

\* The invoice generated takes the place of its request.
LEMMA GenerateKeepsIInv ==
  ASSUME TInv, IInv, NEW r \in Requests, GenerateInvoice(r)
  PROVE  IInv'
<1>1. PICK b \in Bookings : b = request[r].booking
  BY DEF GenerateInvoice, TInv, RequestsComplete, RequestComplete
<1>2. /\ request[r].at = "generateInvoice"
      /\ invoices'[b] = invoices[b] + 1
      /\ \A c \in Bookings \ {b} : invoices'[c] = invoices[c]
      /\ UNCHANGED booking
  BY <1>1 DEF GenerateInvoice, TInv, TypeOK
<1>3. /\ request'[r] = [request[r] EXCEPT !.at = "linkInvoice"]
      /\ request[r] \in RequestRow
      /\ \A q \in Requests \ {r} : request'[q] = request[q]
  BY DEF GenerateInvoice, TInv, TypeOK
<1>4. request'[r].at = "linkInvoice" BY <1>3 DEF RequestRow
<1>5. ~MayIssue(request'[r]) BY <1>4 DEF MayIssue, IssuesNow
<1>6. IssuesNow(request[r]) BY <1>2 DEF IssuesNow
<1>7. r \in Issuing(b)
  <2>1. MayIssue(request[r]) BY <1>6 DEF MayIssue
  <2> QED BY <1>1, <2>1 DEF Issuing
<1>8. \A c \in Bookings : Issuing(c)' = Issuing(c) \ {r}
  BY <1>3, <1>5 DEF Issuing
<1>9. booking[b].status \notin {"unborn", "PENDING_APPROVAL"}
  BY <1>6, <1>7, IInvParts DEF IInv
<1> SUFFICES ASSUME NEW c \in Bookings
             PROVE  /\ booking'[c].status \in {"unborn", "PENDING_APPROVAL"}
                         => invoices'[c] = 0
                    /\ booking'[c].status = "PENDING_APPROVAL" =>
                         \A q \in Issuing(c)' : ~IssuesNow(request'[q])
                    /\ invoices'[c] + Cardinality(Issuing(c)')
                         <= Cardinality(Requests)
  BY DEF IInv
<1>10. Cardinality(Issuing(c)') = Cardinality(Issuing(c) \ {r})
  BY <1>8
<1>11. /\ Cardinality(Issuing(c) \ {r}) \in Nat
       /\ Cardinality(Issuing(c) \ {r}) <= Cardinality(Issuing(c))
       /\ c = b => Cardinality(Issuing(c) \ {r}) = Cardinality(Issuing(c)) - 1
  BY <1>7, IInvParts, RequestSubsets, FewerRequests, OneRequestLess
<1>12. invoices'[c] + Cardinality(Issuing(c)') <= Cardinality(Requests)
  BY <1>2, <1>10, <1>11, IInvParts
<1>13. booking'[c].status = "PENDING_APPROVAL" =>
         \A q \in Issuing(c)' : ~IssuesNow(request'[q])
  BY <1>2, <1>3, <1>8, IInvParts DEF IInv
<1>14. booking'[c].status \in {"unborn", "PENDING_APPROVAL"} => invoices'[c] = 0
  BY <1>2, <1>9 DEF IInv
<1> QED BY <1>12, <1>13, <1>14

LEMMA ApproveWriteKeepsIInv ==
  ASSUME TInv, IInv, NEW r \in Requests, ApproveWrite(r)
  PROVE  IInv'
<1>1. PICK b \in Bookings : b = request[r].booking
  BY DEF ApproveWrite, At, TInv, RequestsComplete, RequestComplete, OnBooking
<1>2. /\ request'[r] = [request[r] EXCEPT !.at = "readInvoice"]
      /\ request[r] \in RequestRow /\ request[r].op = "approve"
      /\ request[r].at = "write"
      /\ \A q \in Requests \ {r} : request'[q] = request[q]
  BY DEF ApproveWrite, At, TInv, TypeOK
<1>3. request'[r].booking = b BY <1>1, <1>2 DEF RequestRow
<1>4. /\ booking'[b].status = "CONFIRMED"
      /\ \A c \in Bookings \ {b} : booking'[c] = booking[c]
  BY <1>1 DEF ApproveWrite, SetStatus, TInv, TypeOK, BookingRow
<1>5. Issuing(b)' = Issuing(b) /\ \A c \in Bookings : Issuing(c)' = Issuing(c)
  <2>1. MayIssue(request'[r]) /\ MayIssue(request[r])
    <3>1. request'[r].at = "readInvoice" /\ request'[r].op = "approve"
      BY <1>2 DEF RequestRow
    <3>2. MayIssue(request'[r]) BY <3>1 DEF MayIssue, IssuesNow
    <3>3. MayIssue(request[r]) BY <1>2 DEF MayIssue
    <3> QED BY <3>2, <3>3
  <2>2. \A q \in Requests : /\ MayIssue(request'[q]) <=> MayIssue(request[q])
                           /\ request'[q].booking = request[q].booking
    BY <1>1, <1>2, <1>3, <2>1
  <2> QED BY <2>2 DEF Issuing
<1>6. UNCHANGED invoices BY DEF ApproveWrite
<1> SUFFICES ASSUME NEW c \in Bookings
             PROVE  /\ booking'[c].status \in {"unborn", "PENDING_APPROVAL"}
                         => invoices'[c] = 0
                    /\ booking'[c].status = "PENDING_APPROVAL" =>
                         \A q \in Issuing(c)' : ~IssuesNow(request'[q])
                    /\ invoices'[c] + Cardinality(Issuing(c)')
                         <= Cardinality(Requests)
  BY DEF IInv
<1>7. Cardinality(Issuing(c)') = Cardinality(Issuing(c)) BY <1>5
<1>8. invoices'[c] + Cardinality(Issuing(c)') <= Cardinality(Requests)
  BY <1>6, <1>7, IInvParts
<1>9. CASE c = b BY <1>4, <1>8, <1>9
<1>10. CASE c # b
  <2>1. booking'[c].status = booking[c].status BY <1>4, <1>10
  <2>2. r \notin Issuing(c) BY <1>1, <1>10 DEF Issuing
  <2>3. booking'[c].status = "PENDING_APPROVAL" =>
          \A q \in Issuing(c)' : ~IssuesNow(request'[q])
    BY <1>2, <1>5, <2>1, <2>2 DEF IInv, Issuing
  <2>4. booking'[c].status \in {"unborn", "PENDING_APPROVAL"} => invoices'[c] = 0
    BY <1>6, <2>1 DEF IInv
  <2> QED BY <1>8, <2>3, <2>4
<1> QED BY <1>9, <1>10

LEMMA InsertsKeepIInv ==
  ASSUME TInv, IInv, NEW r \in Requests, NEW b \in Bookings,
         CreateInsert(r, b) \/ AcceptWrite(r, b)
  PROVE  IInv'
<1>1. ASSUME NEW st \in BookingStatus, NEW s, NEW slot, InsertBooking(b, st, s, slot)
      PROVE  /\ booking[b].status = "unborn" /\ booking'[b].status = st
             /\ \A c \in Bookings \ {b} : booking'[c] = booking[c]
  BY <1>1 DEF InsertBooking, NoBooking, TInv, TypeOK
<1>2. booking[b].status = "unborn" => invoices[b] = 0 BY DEF IInv
<1>3. CASE CreateInsert(r, b)
  <2>1. request[r].status \in BookingStatus
    BY <1>3, FreeStatusesAreStatuses
    DEF CreateInsert, At, TInv, RequestsComplete, RequestComplete,
        CreateStatuses, BookingStatus
  <2>2. /\ booking[b].status = "unborn" /\ booking'[b].status = request[r].status
        /\ \A c \in Bookings \ {b} : booking'[c] = booking[c]
        /\ UNCHANGED invoices
    BY <1>1, <1>3, <2>1 DEF CreateInsert
  <2>3. CASE request[r].status = "CONFIRMED"
    <3>1. request'[r] = [Idle EXCEPT !.op = "create", !.at = "readInvoice",
                                     !.booking = b]
          /\ \A q \in Requests \ {r} : request'[q] = request[q]
      BY <1>3, <2>3 DEF CreateInsert, TInv, TypeOK
    <3>2. request'[r].booking = b BY <3>1 DEF Idle
    <3>3. booking'[b].status \notin {"unborn", "PENDING_APPROVAL"}
      BY <2>2, <2>3
    <3> QED BY <1>2, <2>2, <3>1, <3>2, <3>3, FirstIssueKeepsIInv
  <2>4. CASE request[r].status # "CONFIRMED"
    <3>1. Finish(r) BY <1>3, <2>4 DEF CreateInsert
    <3>2. NoReopening BY <2>2 DEF NoReopening
    <3> QED BY <2>2, <3>1, <3>2, FinishQuietIInv
  <2> QED BY <2>3, <2>4
<1>4. CASE AcceptWrite(r, b)
  <2>1. /\ booking[b].status = "unborn"
        /\ booking'[b].status = "PENDING_PHONE_CONFIRMATION"
        /\ \A c \in Bookings \ {b} : booking'[c] = booking[c]
        /\ UNCHANGED invoices
    BY <1>1, <1>4 DEF AcceptWrite, BookingStatus
  <2>2. /\ request'[r] = [request[r] EXCEPT !.at = "generateInvoice", !.booking = b]
        /\ request[r] \in RequestRow
        /\ \A q \in Requests \ {r} : request'[q] = request[q]
    BY <1>4 DEF AcceptWrite, TInv, TypeOK
  <2>3. request'[r].booking = b BY <2>2 DEF RequestRow
  <2> QED BY <1>2, <2>1, <2>2, <2>3, FirstIssueKeepsIInv
<1> QED BY <1>3, <1>4

LEMMA WriteStatusIInv ==
  ASSUME TInv, IInv, NEW r \in Requests, NEW op \in OnBooking,
         NEW s \in BookingStatus, s # "PENDING_APPROVAL", At(r, op, "write"),
         SetStatus(request[r].booking, s), Finish(r), UNCHANGED invoices
  PROVE  IInv'
<1>1. request[r].booking \in Bookings
  BY DEF At, TInv, RequestsComplete, RequestComplete
<1>2. NoReopening BY <1>1, SetStatusNoReopening
<1> QED BY <1>2, FinishQuietIInv

LEMMA ContinueIInv ==
  ASSUME TInv, IInv, NEW r \in Requests, Continue(r)
  PROVE  IInv'
<1>1. ASSUME NEW op \in OnBooking, NEW s \in BookingStatus,
             s # "PENDING_APPROVAL", WriteStatus(r, op, s)
      PROVE  IInv'
  BY <1>1, WriteStatusIInv DEF WriteStatus
<1>2. CASE \/ RejectWrite(r) \/ CancelWrite(r) \/ CheckInWrite(r)
           \/ CheckOutWrite(r) \/ ConfirmPhoneWrite(r)
           \/ MarkDocumentsPendingWrite(r)
  BY <1>1, <1>2 DEF RejectWrite, CancelWrite, CheckInWrite, CheckOutWrite,
     ConfirmPhoneWrite, MarkDocumentsPendingWrite, OnBooking, BookingStatus
<1>3. CASE PhoneUnreachableWrite(r)
  BY <1>3, WriteStatusIInv DEF PhoneUnreachableWrite, OnBooking, BookingStatus
<1>4. CASE FinalizeWrite(r)
  BY <1>4, WriteStatusIInv DEF FinalizeWrite, OnBooking, BookingStatus
<1>5. UNCHANGED booking => NoReopening BY DEF NoReopening
<1>6. CASE Finish(r) /\ UNCHANGED <<booking, invoices>>
  BY <1>5, <1>6, FinishQuietIInv
<1>7. CASE ReadInvoice(r)
  <2>1. CASE Finish(r) BY <1>6, <1>7, <2>1 DEF ReadInvoice
  <2>2. CASE request' = [request EXCEPT ![r].at = "generateInvoice"]
    <3>1. /\ request'[r] = [request[r] EXCEPT !.at = "generateInvoice"]
          /\ request[r] \in RequestRow /\ request[r].at = "readInvoice"
          /\ \A q \in Requests \ {r} : request'[q] = request[q]
      BY <1>7, <2>2 DEF ReadInvoice, TInv, TypeOK
    <3>2. request'[r].booking = request[r].booking BY <3>1 DEF RequestRow
    <3>3. MayIssue(request[r]) /\ IssuesNow(request[r])
      BY <3>1 DEF MayIssue, IssuesNow
    <3> QED BY <1>5, <1>7, <3>1, <3>2, <3>3, QuietKeepsIInv DEF ReadInvoice
  <2> QED BY <1>7, <2>1, <2>2 DEF ReadInvoice
<1>8. CASE LinkInvoice(r)
  <2>1. request[r].booking \in Bookings
    BY <1>8 DEF LinkInvoice, TInv, RequestsComplete, RequestComplete
  <2>2. \A c \in Bookings : booking'[c].status = booking[c].status
    BY <1>8, <2>1 DEF LinkInvoice, TInv, TypeOK, BookingRow
  <2>3. NoReopening BY <2>2 DEF NoReopening
  <2> QED BY <1>8, <2>3, FinishQuietIInv DEF LinkInvoice
<1>9. CASE FinalizeContractDoc(r)
  <2>1. CASE Finish(r) BY <1>6, <1>9, <2>1 DEF FinalizeContractDoc
  <2>2. CASE request' = [request EXCEPT ![r].at = "write"]
    <3>1. /\ request'[r] = [request[r] EXCEPT !.at = "write"]
          /\ request[r] \in RequestRow /\ request[r].op = "finalize"
          /\ \A q \in Requests \ {r} : request'[q] = request[q]
      BY <1>9, <2>2 DEF FinalizeContractDoc, At, TInv, TypeOK
    <3>2. request'[r].op = "finalize" /\ request'[r].at = "write"
      BY <3>1 DEF RequestRow
    <3>3. ~MayIssue(request'[r]) BY <3>2 DEF MayIssue, IssuesNow
    <3> QED BY <1>5, <1>9, <3>1, <3>3, RecordQuiet DEF FinalizeContractDoc
  <2> QED BY <1>9, <2>1, <2>2 DEF FinalizeContractDoc
<1> QED
  BY <1>2, <1>3, <1>4, <1>6, <1>7, <1>8, <1>9, InsertsKeepIInv,
     GenerateKeepsIInv, ApproveWriteKeepsIInv
  DEF Continue, ApplyInsert, AddDocumentInsert, RefuseWrite, RowGone

LEMMA ImmediateIInv ==
  ASSUME TInv, IInv, "PENDING_APPROVAL" \notin FreeStatuses, Immediate
  PROVE  IInv'
<1>1. ASSUME NEW b \in Bookings, Remove(b) PROVE NoReopening
  <2>1. /\ booking'[b].status = "deleted"
        /\ \A c \in Bookings \ {b} : booking'[c] = booking[c]
    BY <1>1 DEF Remove, Deleted, NoBooking, TInv, TypeOK
  <2> QED BY <2>1 DEF NoReopening
<1>2. ASSUME NEW b \in Bookings, NEW st \in FreeStatuses, Update(b, st)
      PROVE  NoReopening
  BY <1>2, FreeStatusesAreStatuses, SetStatusNoReopening DEF Update
<1>3. UNCHANGED booking => NoReopening BY DEF NoReopening
<1>4. NoReopening /\ UNCHANGED <<request, invoices>>
  BY <1>1, <1>2, <1>3 DEF Immediate, Remove, Update, RemoveDocument, UpdateSpace
<1> QED BY <1>4, QuietKeepsIInv

\* Approvals and acceptances, however they overlap, generate for a
\* booking at most as many invoices as requests can be in flight, as long as
\* PATCH does not send it back to PENDING_APPROVAL.
THEOREM InvoicesStayBounded ==
  ASSUME "PENDING_APPROVAL" \notin FreeStatuses
  PROVE  Spec => []InvoicesBounded
<1>1. Init => IInv
  <2> SUFFICES ASSUME Init, NEW b \in Bookings
               PROVE  /\ invoices[b] = 0 /\ Issuing(b) = {}
                      /\ Cardinality({}) = 0 /\ Cardinality(Requests) \in Nat
    BY DEF IInv
  <2>1. Issuing(b) = {} BY DEF Init, Issuing, Idle, MayIssue, IssuesNow
  <2> QED BY <2>1, FS_EmptySet, RequestsFinite, FS_CardinalityType DEF Init
<1>2. TInv /\ IInv /\ [Next]_vars => IInv'
  <2> SUFFICES ASSUME TInv, IInv, [Next]_vars PROVE IInv'
    OBVIOUS
  <2>1. ASSUME NEW r \in Requests, Fail(r) PROVE IInv'
    BY <2>1, FinishQuietIInv DEF Fail, NoReopening
  <2>2. CASE UNCHANGED vars BY <2>2 DEF vars, IInv, Issuing
  <2> QED
    BY <2>1, <2>2, ArrivalIInv, ContinueIInv, ImmediateIInv DEF Next
<1>3. TInv /\ IInv => InvoicesBounded
  BY IInvParts DEF InvoicesBounded
<1> QED BY <1>1, <1>2, <1>3, InitTInv, NextTInv, PTL DEF Spec

-----------------------------------------------------------------------------
(***************************************************************************)
(* BookingWorkflow implements BookingStages, for every value of its        *)
(* constants.  A handler writes a status although the booking may have     *)
(* left the one it tested; what remains true is that the booking has been  *)
(* at the one it tested.                                                   *)
(***************************************************************************)

\* What each endpoint that tests a status writes.
Writes == [approve |-> "CONFIRMED", reject |-> "CANCELLED",
  cancel |-> "CANCELLED", checkIn |-> "CHECKED_IN", checkOut |-> "COMPLETED",
  confirmPhone |-> "AWAITING_PHYSICAL_VISIT", phoneUnreachable |-> "REFUSED",
  markDocumentsPending |-> "DOCUMENTS_PENDING_UPLOAD", finalize |-> "ACTIVE"]

Movers == OnBooking \ {"addDocument"}

\* The booking has been at a status from which s is the next.
Reachable(b, s) == \E p \in held[b] : <<p, s>> \in Steps

Moving(q) == q.op \in Movers /\ q.at \in {"write", "contractDoc"}

HInv ==
  /\ \A b \in Bookings : Live(b) => booking[b].status \in held[b]
  /\ \A b \in Bookings : booking[b].status = "unborn" => held[b] = {}
  /\ \A r \in Requests :
       Moving(request[r]) /\ Live(request[r].booking) =>
         Reachable(request[r].booking, Writes[request[r].op])

\* What a step may do to the bookings a request in flight relies on.
HeldGrows ==
  \A b \in Bookings : Live(b)' /\ booking[b].status # "unborn" =>
    Live(b) /\ held[b] \subseteq held'[b]

HeldNames ==
  /\ \A b \in Bookings : Live(b)' => booking'[b].status \in held'[b]
  /\ \A b \in Bookings : booking'[b].status = "unborn" => held'[b] = {}

LEMMA OthersKeep ==
  ASSUME TInv, HInv, HeldGrows, HeldNames, NEW r \in Requests,
         \A q \in Requests \ {r} : request'[q] = request[q],
         Moving(request'[r]) /\ Live(request[r].booking)' =>
           /\ Live(request'[r].booking)
           /\ request'[r].booking \in Bookings
           /\ booking[request'[r].booking].status # "unborn"
           /\ Reachable(request'[r].booking, Writes[request'[r].op])
  PROVE  HInv'
<1> SUFFICES ASSUME NEW q \in Requests, Moving(request'[q]),
                    Live(request[q].booking)'
             PROVE  Reachable(request[q].booking, Writes[request[q].op])'
  BY DEF HInv, HeldNames, Moving, Live, Reachable
<1>1. request'[q].booking \in Bookings
  <2>1. CASE q = r BY <2>1
  <2>2. CASE q # r
    BY <2>2 DEF Moving, Movers, TInv, RequestsComplete, RequestComplete
  <2> QED BY <2>1, <2>2
<1>2. /\ booking[request'[q].booking].status # "unborn"
      /\ Live(request'[q].booking) =>
           Reachable(request'[q].booking, Writes[request'[q].op])
  <2>1. CASE q = r BY <2>1
  <2>2. CASE q # r
    BY <1>1, <2>2 DEF HInv, TInv, RequestsComplete
  <2> QED BY <2>1, <2>2
<1> QED BY <1>1, <1>2 DEF HeldGrows, Reachable, Live

EntryStatuses == CreateStatuses \cup {"PENDING_PHONE_CONFIRMATION"}

StagesStep == [Stages!Next]_held

LEMMA SameStatuses == Stages!BookingStatus = BookingStatus /\ Stages!Steps = Steps
  BY DEF Stages!BookingStatus, BookingStatus, Stages!Steps, Steps, Stages!Forward, Forward

LEMMA StatusMoves ==
  ASSUME TInv, HInv, NEW b \in Bookings, NEW s \in BookingStatus,
         SetStatus(b, s), s \in EntryStatuses \/ Reachable(b, s)
  PROVE  HeldGrows /\ HeldNames /\ StagesStep
<1>1. /\ Live(b) /\ booking[b].status # "unborn"
      /\ booking'[b].status = s /\ held'[b] = held[b] \cup {s}
      /\ \A c \in Bookings \ {b} : booking'[c] = booking[c] /\ held'[c] = held[c]
  BY DEF SetStatus, Live, TInv, TypeOK, BookingRow, BookingStatus
<1>2. HeldGrows BY <1>1 DEF HeldGrows, Live
<1>3. HeldNames BY <1>1 DEF HeldNames, HInv, Live, BookingStatus
<1>4. Stages!Reach(b, s)
  BY SameStatuses DEF SetStatus, Stages!Reach, EntryStatuses, Reachable
<1> QED BY <1>2, <1>3, <1>4, SameStatuses DEF StagesStep, Stages!Next

LEMMA InsertMoves ==
  ASSUME TInv, HInv, NEW b \in Bookings, NEW s \in EntryStatuses,
         NEW sp, NEW slot, InsertBooking(b, s, sp, slot)
  PROVE  HeldGrows /\ HeldNames /\ StagesStep
<1>0. s \in BookingStatus
  BY FreeStatusesAreStatuses DEF EntryStatuses, CreateStatuses, BookingStatus
<1>1. /\ booking[b].status = "unborn" /\ held[b] = {}
      /\ booking'[b].status = s /\ held'[b] = {s}
      /\ \A c \in Bookings \ {b} : booking'[c] = booking[c] /\ held'[c] = held[c]
  BY DEF InsertBooking, NoBooking, HInv, TInv, TypeOK
<1>2. HeldGrows BY <1>1 DEF HeldGrows, Live
<1>3. HeldNames BY <1>0, <1>1 DEF HeldNames, HInv, Live, BookingStatus
<1>4. Stages!Reach(b, s)
  BY <1>1 DEF InsertBooking, Stages!Reach, EntryStatuses, TInv, TypeOK
<1> QED BY <1>0, <1>2, <1>3, <1>4, SameStatuses DEF StagesStep, Stages!Next

LEMMA StillMoves ==
  ASSUME TInv, HInv, UNCHANGED held,
         \A b \in Bookings : booking'[b].status = booking[b].status
  PROVE  HeldGrows /\ HeldNames /\ StagesStep
  BY DEF HeldGrows, HeldNames, StagesStep, HInv, Live

LEMMA FinishHInv ==
  ASSUME TInv, HInv, HeldGrows, HeldNames, NEW r \in Requests, Finish(r)
  PROVE  HInv'
<1>1. ~Moving(request'[r])
  BY FinishKeeps DEF Moving, Movers, OnBooking, Idle
<1> QED BY <1>1, FinishKeeps, OthersKeep

\* A request that enters has seen the status it needs.
LEMMA EnterHInv ==
  ASSUME TInv, HInv, NEW r \in Requests, NEW row, Enter(r, row),
         Moving(row) => /\ row.booking \in Bookings /\ Live(row.booking)
                        /\ Reachable(row.booking, Writes[row.op])
  PROVE  HInv' /\ StagesStep
<1>1. request'[r] = row /\ \A q \in Requests \ {r} : request'[q] = request[q]
  BY DEF Enter, TInv, TypeOK
<1>2. UNCHANGED <<booking, held>> BY DEF Enter
<1>3. HeldGrows /\ HeldNames /\ StagesStep BY <1>2, StillMoves
<1>4. Moving(row) => booking[row.booking].status # "unborn"
  BY DEF Live, BookingStatus
<1>5. HInv' BY <1>1, <1>3, <1>4, OthersKeep
<1> QED BY <1>3, <1>5

LEMMA BeginHInv ==
  ASSUME TInv, HInv, NEW r \in Requests, NEW b \in Bookings,
         NEW S \in SUBSET BookingStatus, NEW op \in Movers, Begin(r, op, b, S),
         \A p \in S : <<p, Writes[op]>> \in Steps
  PROVE  HInv' /\ StagesStep
<1> DEFINE row == [Idle EXCEPT !.op = op, !.at = "write", !.booking = b]
<1>1. row.op = op /\ row.booking = b BY DEF Idle
<1>2. Enter(r, row) /\ booking[b].status \in S BY DEF Begin
<1> HIDE DEF row
<1>3. Live(b) BY <1>2 DEF Live
<1>4. booking[b].status \in held[b] BY <1>3 DEF HInv
<1>5. Reachable(b, Writes[op]) BY <1>2, <1>4 DEF Reachable
<1> QED BY <1>1, <1>2, <1>3, <1>5, EnterHInv

LEMMA ArrivalHInv ==
  ASSUME TInv, HInv, NEW r \in Requests, Arrival(r)
  PROVE  HInv' /\ StagesStep
<1>1. ASSUME NEW s \in Spaces, NEW slot \in Slots, NEW st \in CreateStatuses,
             Create(r, s, slot, st)
      PROVE  HInv' /\ StagesStep
  <2>1. ~Moving([Idle EXCEPT !.op = "create", !.at = "write", !.space = s,
                             !.slot = slot, !.status = st])
    BY DEF Idle, Moving, Movers, OnBooking
  <2> QED BY <1>1, <2>1, EnterHInv DEF Create
<1>2. ASSUME NEW p \in Applicants, NEW s \in Spaces, NEW slot \in Slots,
             Apply(r, p, s, slot)
      PROVE  HInv' /\ StagesStep
  <2>1. ~Moving([Idle EXCEPT !.op = "apply", !.at = "write", !.space = s,
                             !.slot = slot, !.applicant = p])
    BY DEF Idle, Moving, Movers, OnBooking
  <2> QED BY <1>2, <2>1, EnterHInv DEF Apply
<1>3. ASSUME NEW a \in Applications, NEW op \in {"accept", "refuse"},
             Review(r, op, a)
      PROVE  HInv' /\ StagesStep
  <2>1. ~Moving([Idle EXCEPT !.op = op, !.at = "write", !.application = a])
    BY DEF Idle, Moving, Movers, OnBooking
  <2> QED BY <1>3, <2>1, EnterHInv DEF Review
<1>4. ASSUME NEW b \in Bookings, NEW k \in DocumentKinds, AddDocument(r, b, k)
      PROVE  HInv' /\ StagesStep
  <2>1. ~Moving([Idle EXCEPT !.op = "addDocument", !.at = "write",
                             !.booking = b, !.document = k])
    BY DEF Idle, Moving, Movers, OnBooking
  <2> QED BY <1>4, <2>1, EnterHInv DEF AddDocument
<1>5. ASSUME NEW b \in Bookings, Finalize(r, b) PROVE HInv' /\ StagesStep
  <2> DEFINE row == [Idle EXCEPT !.op = "finalize", !.at = "contractDoc",
                                 !.booking = b]
  <2>1. row.op = "finalize" /\ row.booking = b BY DEF Idle
  <2>2. Enter(r, row) /\ booking[b].status = "DOCUMENTS_PENDING_UPLOAD"
    BY <1>5 DEF Finalize
  <2> HIDE DEF row
  <2>3. Live(b) BY <2>2 DEF Live, BookingStatus
  <2>4. "DOCUMENTS_PENDING_UPLOAD" \in held[b] BY <2>2, <2>3 DEF HInv
  <2>5. Writes["finalize"] = "ACTIVE" BY DEF Writes
  <2>6. Reachable(b, Writes["finalize"])
    BY <2>4, <2>5 DEF Reachable, Steps, Forward
  <2> QED BY <2>1, <2>2, <2>3, <2>6, EnterHInv
<1>6. ASSUME NEW b \in Bookings,
             \/ Approve(r, b) \/ Reject(r, b) \/ Cancel(r, b)
             \/ CheckIn(r, b) \/ CheckOut(r, b)
             \/ ConfirmPhone(r, b) \/ PhoneUnreachable(r, b)
             \/ MarkDocumentsPending(r, b)
      PROVE  HInv' /\ StagesStep
  <2> USE <1>6 DEF Movers, OnBooking, Writes, Steps, Forward, BookingStatus
  <2>1. CASE Approve(r, b) BY <2>1, BeginHInv DEF Approve
  <2>2. CASE Reject(r, b) BY <2>2, BeginHInv DEF Reject
  <2>3. CASE Cancel(r, b) BY <2>3, BeginHInv DEF Cancel
  <2>4. CASE CheckIn(r, b) BY <2>4, BeginHInv DEF CheckIn
  <2>5. CASE CheckOut(r, b) BY <2>5, BeginHInv DEF CheckOut
  <2>6. CASE ConfirmPhone(r, b) BY <2>6, BeginHInv DEF ConfirmPhone
  <2>7. CASE PhoneUnreachable(r, b) BY <2>7, BeginHInv DEF PhoneUnreachable
  <2>8. CASE MarkDocumentsPending(r, b)
    BY <2>8, BeginHInv DEF MarkDocumentsPending
  <2> QED BY <2>1, <2>2, <2>3, <2>4, <2>5, <2>6, <2>7, <2>8
<1> QED BY <1>1, <1>2, <1>3, <1>4, <1>5, <1>6 DEF Arrival, Accept, Refuse

LEMMA RecordSettles ==
  ASSUME TInv, HInv, HeldGrows, HeldNames, NEW r \in Requests,
         NEW row, request' = [request EXCEPT ![r] = row], ~Moving(row)
  PROVE  HInv'
<1>1. request'[r] = row /\ \A q \in Requests \ {r} : request'[q] = request[q]
  BY DEF TInv, TypeOK
<1> QED BY <1>1, OthersKeep

\* The handler writes what its endpoint writes: the booking it tested is live.
LEMMA HandlerMoves ==
  ASSUME TInv, HInv, NEW r \in Requests, NEW op \in Movers, At(r, op, "write"),
         SetStatus(request[r].booking, Writes[op])
  PROVE  HeldGrows /\ HeldNames /\ StagesStep
<1>1. PICK b \in Bookings : b = request[r].booking
  BY DEF At, Movers, TInv, RequestsComplete, RequestComplete
<1>2. Live(b) BY <1>1 DEF SetStatus
<1>3. Moving(request[r]) BY DEF At, Moving
<1>4. Reachable(b, Writes[op]) BY <1>1, <1>2, <1>3 DEF HInv, At
<1>5. Writes[op] \in BookingStatus BY DEF Writes, Movers, OnBooking, BookingStatus
<1> QED BY <1>1, <1>4, <1>5, StatusMoves

LEMMA WriteStatusHInv ==
  ASSUME TInv, HInv, NEW r \in Requests, NEW op \in Movers, At(r, op, "write"),
         SetStatus(request[r].booking, Writes[op]), Finish(r)
  PROVE  HInv' /\ StagesStep
  BY HandlerMoves, FinishHInv

LEMMA ContinueHInv ==
  ASSUME TInv, HInv, NEW r \in Requests, Continue(r)
  PROVE  HInv' /\ StagesStep
<1>1. CASE Finish(r) /\ UNCHANGED held
           /\ \A b \in Bookings : booking'[b].status = booking[b].status
  BY <1>1, StillMoves, FinishHInv
<1>2. ASSUME NEW b \in Bookings, CreateInsert(r, b) PROVE HInv' /\ StagesStep
  <2>1. request[r].status \in EntryStatuses
    BY <1>2 DEF CreateInsert, At, TInv, RequestsComplete, RequestComplete,
       EntryStatuses
  <2>2. HeldGrows /\ HeldNames /\ StagesStep
    BY <1>2, <2>1, InsertMoves DEF CreateInsert
  <2>3. CASE Finish(r) BY <2>2, <2>3, FinishHInv
  <2>4. ~Moving([Idle EXCEPT !.op = "create", !.at = "readInvoice", !.booking = b])
    BY DEF Idle, Moving, Movers, OnBooking
  <2> QED BY <1>2, <2>2, <2>3, <2>4, RecordSettles DEF CreateInsert
<1>3. ASSUME NEW b \in Bookings, AcceptWrite(r, b) PROVE HInv' /\ StagesStep
  <2>1. HeldGrows /\ HeldNames /\ StagesStep
    BY <1>3, InsertMoves DEF AcceptWrite, EntryStatuses
  <2>2. /\ request'[r] = [request[r] EXCEPT !.at = "generateInvoice", !.booking = b]
        /\ request[r] \in RequestRow /\ request[r].op = "accept"
        /\ \A q \in Requests \ {r} : request'[q] = request[q]
    BY <1>3 DEF AcceptWrite, At, TInv, TypeOK
  <2>3. request'[r].op = "accept" BY <2>2 DEF RequestRow
  <2>4. ~Moving(request'[r]) BY <2>3 DEF Moving, Movers, OnBooking
  <2> QED BY <2>1, <2>2, <2>4, OthersKeep
<1>4. ASSUME NEW at, request'= [request EXCEPT ![r].at = at],
             at \notin {"write", "contractDoc"}
      PROVE  /\ ~Moving(request'[r])
             /\ \A q \in Requests \ {r} : request'[q] = request[q]
  <2>1. /\ request'[r] = [request[r] EXCEPT !.at = at] /\ request[r] \in RequestRow
        /\ \A q \in Requests \ {r} : request'[q] = request[q]
    BY <1>4 DEF TInv, TypeOK
  <2>2. request'[r].at = at BY <2>1 DEF RequestRow
  <2> QED BY <1>4, <2>1, <2>2 DEF Moving
<1>5. CASE ReadInvoice(r) \/ GenerateInvoice(r)
  <2>1. HeldGrows /\ HeldNames /\ StagesStep
    BY <1>5, StillMoves DEF ReadInvoice, GenerateInvoice
  <2>2. CASE Finish(r) BY <2>1, <2>2, FinishHInv
  <2> QED BY <1>4, <1>5, <2>1, <2>2, OthersKeep DEF ReadInvoice, GenerateInvoice
<1>6. CASE LinkInvoice(r)
  <2>1. request[r].booking \in Bookings
    BY <1>6 DEF LinkInvoice, TInv, RequestsComplete, RequestComplete
  <2>2. \A c \in Bookings : booking'[c].status = booking[c].status
    BY <1>6, <2>1 DEF LinkInvoice, TInv, TypeOK, BookingRow
  <2> QED BY <1>1, <1>6, <2>2 DEF LinkInvoice
<1>7. CASE ApproveWrite(r)
  <2>1. HeldGrows /\ HeldNames /\ StagesStep
    BY <1>7, HandlerMoves DEF ApproveWrite, Writes, Movers, OnBooking
  <2>2. /\ ~Moving(request'[r])
        /\ \A q \in Requests \ {r} : request'[q] = request[q]
    <3>1. /\ request'[r] = [request[r] EXCEPT !.at = "readInvoice"]
          /\ request[r] \in RequestRow
          /\ \A q \in Requests \ {r} : request'[q] = request[q]
      BY <1>7 DEF ApproveWrite, TInv, TypeOK
    <3>2. request'[r].at = "readInvoice" BY <3>1 DEF RequestRow
    <3> QED BY <3>1, <3>2 DEF Moving
  <2> QED BY <2>1, <2>2, OthersKeep
<1>8. CASE FinalizeContractDoc(r)
  <2>1. HeldGrows /\ HeldNames /\ StagesStep
    BY <1>8, StillMoves DEF FinalizeContractDoc
  <2>2. CASE Finish(r) BY <2>1, <2>2, FinishHInv
  <2>3. CASE request' = [request EXCEPT ![r].at = "write"]
    <3>1. /\ request'[r] = [request[r] EXCEPT !.at = "write"]
          /\ request[r] \in RequestRow /\ request[r].op = "finalize"
          /\ request[r].at = "contractDoc"
          /\ \A q \in Requests \ {r} : request'[q] = request[q]
          /\ UNCHANGED booking
      BY <1>8, <2>3 DEF FinalizeContractDoc, At, TInv, TypeOK
    <3>2. request'[r].op = "finalize" /\ request'[r].booking = request[r].booking
      BY <3>1 DEF RequestRow
    <3>3. request[r].booking \in Bookings
      BY <3>1 DEF OnBooking, TInv, RequestsComplete, RequestComplete
    <3>4. Moving(request[r]) BY <3>1 DEF Moving, Movers, OnBooking
    <3>5. Live(request'[r].booking) =>
            /\ booking[request'[r].booking].status # "unborn"
            /\ Reachable(request'[r].booking, Writes[request'[r].op])
      BY <3>1, <3>2, <3>4 DEF HInv, Live, BookingStatus
    <3>6. Live(request[r].booking)' => Live(request'[r].booking)
      BY <3>1 DEF Live
    <3> QED BY <2>1, <3>1, <3>2, <3>3, <3>5, <3>6, OthersKeep
  <2> QED BY <1>8, <2>2, <2>3 DEF FinalizeContractDoc
<1>9. CASE \/ RejectWrite(r) \/ CancelWrite(r) \/ CheckInWrite(r)
           \/ CheckOutWrite(r) \/ ConfirmPhoneWrite(r)
           \/ MarkDocumentsPendingWrite(r) \/ PhoneUnreachableWrite(r)
           \/ FinalizeWrite(r)
  BY <1>9, WriteStatusHInv
  DEF RejectWrite, CancelWrite, CheckInWrite, CheckOutWrite, ConfirmPhoneWrite,
      MarkDocumentsPendingWrite, PhoneUnreachableWrite, FinalizeWrite,
      WriteStatus, Writes, Movers, OnBooking
<1> QED
  BY <1>1, <1>2, <1>3, <1>5, <1>6, <1>7, <1>8, <1>9
  DEF Continue, ApplyInsert, AddDocumentInsert, RefuseWrite, RowGone

LEMMA ImmediateHInv ==
  ASSUME TInv, HInv, Immediate
  PROVE  HInv' /\ StagesStep
<1>1. ASSUME UNCHANGED request, HeldGrows, HeldNames PROVE HInv'
  BY <1>1 DEF HInv, HeldGrows, HeldNames, Moving, Movers, Live, Reachable,
     TInv, RequestsComplete, RequestComplete
<1>2. ASSUME NEW b \in Bookings, Remove(b) PROVE HInv' /\ StagesStep
  <2>1. /\ booking'[b].status = "deleted"
        /\ \A c \in Bookings \ {b} : booking'[c] = booking[c] /\ held'[c] = held[c]
    BY <1>2 DEF Remove, Deleted, NoBooking, TInv, TypeOK
  <2>2. HeldGrows BY <2>1 DEF HeldGrows, Live, BookingStatus
  <2>3. HeldNames BY <2>1 DEF HeldNames, HInv, Live, BookingStatus
  <2>4. Stages!Forget(b) BY <1>2 DEF Remove, Stages!Forget
  <2> QED BY <1>1, <1>2, <2>2, <2>3, <2>4 DEF Remove, StagesStep, Stages!Next
<1>3. ASSUME NEW b \in Bookings, NEW st \in FreeStatuses, Update(b, st)
      PROVE  HInv' /\ StagesStep
  <2>1. HeldGrows /\ HeldNames /\ StagesStep
    BY <1>3, FreeStatusesAreStatuses, StatusMoves
    DEF Update, EntryStatuses, CreateStatuses
  <2> QED BY <1>1, <1>3, <2>1 DEF Update
<1>4. CASE UNCHANGED <<booking, request, held>> BY <1>1, <1>4, StillMoves
<1> QED BY <1>2, <1>3, <1>4 DEF Immediate, RemoveDocument, UpdateSpace

LEMMA InitHInv == Init => HInv /\ Stages!Init
  BY DEF Init, HInv, Stages!Init, NoBooking, Live, BookingStatus, Moving,
     Movers, OnBooking, Idle

LEMMA NextHInv == TInv /\ HInv /\ [Next]_vars => HInv' /\ StagesStep
<1> SUFFICES ASSUME TInv, HInv, [Next]_vars PROVE HInv' /\ StagesStep
  OBVIOUS
<1>1. ASSUME NEW r \in Requests, Fail(r) PROVE HInv' /\ StagesStep
  BY <1>1, StillMoves, FinishHInv DEF Fail
<1>2. CASE UNCHANGED vars
  BY <1>2 DEF vars, HInv, Live, Moving, Reachable, StagesStep
<1> QED BY <1>1, <1>2, ArrivalHInv, ContinueHInv, ImmediateHInv DEF Next

\* Requests that overlap, fail halfway or find their booking deleted take a
\* booking through the stages in order: the code implements BookingStages.
THEOREM StagesAreFollowed == Spec => StagesFollowed
<1>1. Spec => [](TInv /\ HInv)
  BY InitTInv, NextTInv, InitHInv, NextHInv, PTL DEF Spec
<1>2. TInv /\ HInv /\ [Next]_vars => [Stages!Next]_held
  BY NextHInv DEF StagesStep
<1> QED BY <1>1, <1>2, InitHInv, PTL DEF Spec, StagesFollowed, Stages!Spec

-----------------------------------------------------------------------------
(* What the abstract specification guarantees when staff do not write the   *)
(* later stages by hand.                                                    *)

Later == {"AWAITING_PHYSICAL_VISIT", "DOCUMENTS_PENDING_UPLOAD", "ACTIVE",
          "CHECKED_IN", "COMPLETED"}

\* Each of these stages has one before it, and the booking has been there.
Chain == \A b \in Bookings :
  /\ held[b] \in SUBSET BookingStatus
  /\ "AWAITING_PHYSICAL_VISIT" \in held[b] =>
       "PENDING_PHONE_CONFIRMATION" \in held[b]
  /\ "DOCUMENTS_PENDING_UPLOAD" \in held[b] =>
       "AWAITING_PHYSICAL_VISIT" \in held[b]
  /\ "ACTIVE" \in held[b] => "DOCUMENTS_PENDING_UPLOAD" \in held[b]
  /\ "CHECKED_IN" \in held[b] => "CONFIRMED" \in held[b]
  /\ "COMPLETED" \in held[b] => "CHECKED_IN" \in held[b]

\* No booking is ACTIVE that reception did not call, receive and document, and
\* none COMPLETED that was not confirmed and checked in, whatever overlaps.
THEOREM StagesComeInOrder ==
  ASSUME FreeStatuses \cap Later = {}
  PROVE  Spec => []StagesInOrder
<1>1. Stages!Init => Chain
  BY DEF Stages!Init, Chain
<1>2. TypeOK /\ Chain /\ [Stages!Next]_held => Chain'
  <2> SUFFICES ASSUME TypeOK, Chain, [Stages!Next]_held PROVE Chain'
    OBVIOUS
  <2>1. ASSUME NEW b \in Bookings, Stages!Forget(b) PROVE Chain'
    BY <2>1 DEF Stages!Forget, Chain, TypeOK
  <2>2. ASSUME NEW b \in Bookings, NEW s \in BookingStatus, Stages!Reach(b, s)
        PROVE  Chain'
    <3>1. /\ held'[b] = held[b] \cup {s}
          /\ \A c \in Bookings \ {b} : held'[c] = held[c]
      BY <2>2 DEF Stages!Reach, TypeOK
    <3>2. s \in Later => \E p \in held[b] : <<p, s>> \in Steps
      BY <2>2, SameStatuses DEF Stages!Reach, CreateStatuses, Later
    <3>3. /\ s = "AWAITING_PHYSICAL_VISIT" =>
               "PENDING_PHONE_CONFIRMATION" \in held[b]
          /\ s = "DOCUMENTS_PENDING_UPLOAD" =>
               "AWAITING_PHYSICAL_VISIT" \in held[b]
          /\ s = "ACTIVE" => "DOCUMENTS_PENDING_UPLOAD" \in held[b]
          /\ s = "CHECKED_IN" => "CONFIRMED" \in held[b]
          /\ s = "COMPLETED" => "CHECKED_IN" \in held[b]
      BY <3>2 DEF Later, Steps, Forward
    <3> QED BY <3>1, <3>3 DEF Chain
  <2>3. CASE UNCHANGED held BY <2>3 DEF Chain
  <2> QED BY <2>1, <2>2, <2>3, SameStatuses DEF Stages!Next
<1>3. Chain => StagesInOrder
  BY DEF Chain, StagesInOrder, Stages!StagesInOrder
<1> QED
  BY <1>1, <1>2, <1>3, StagesAreFollowed, TypeCorrect, PTL
  DEF StagesFollowed, Stages!Spec

-----------------------------------------------------------------------------
(***************************************************************************)
(* Applications and the bookings they name; spaces and the bookings that   *)
(* hold them.  Both rest on what every step but a removal does: rows that  *)
(* exist keep their space and period, and forget no status.                *)
(***************************************************************************)

Steady ==
  \A b \in Bookings : booking[b].status # "unborn" =>
    /\ booking'[b].space = booking[b].space /\ booking'[b].slot = booking[b].slot
    /\ booking'[b].status = "deleted" <=> booking[b].status = "deleted"
    /\ booking'[b].status \in BookingStatus <=> booking[b].status \in BookingStatus
    /\ held[b] \subseteq held'[b]

\* Booking b is the one application a stands for.
Own(a, b) ==
  /\ Live(b) /\ "PENDING_PHONE_CONFIRMATION" \in held[b]
  /\ booking[b].space = application[a].space
  /\ booking[b].slot = application[a].slot
  /\ application[a].status \in {"ACCEPTED", "REFUSED"}
  /\ \A c \in Applications \ {a} : application[c].booking # b

\* No application comes to name another booking.
NoneNamed ==
  \A a \in Applications : application'[a].booking # None =>
    /\ application'[a].booking = application[a].booking
    /\ application'[a].space = application[a].space
    /\ application'[a].slot = application[a].slot
    /\ application'[a].status \in {application[a].status, "ACCEPTED", "REFUSED"}

LEMMA SetStatusSteady ==
  ASSUME TInv, NEW b \in Bookings, NEW s \in BookingStatus, SetStatus(b, s)
  PROVE  Steady
<1>1. /\ booking'[b] = [booking[b] EXCEPT !.status = s] /\ held'[b] = held[b] \cup {s}
      /\ \A c \in Bookings \ {b} : booking'[c] = booking[c] /\ held'[c] = held[c]
  BY DEF SetStatus, TInv, TypeOK
<1>2. "deleted" \notin BookingStatus
  BY DEF BookingStatus
<1> QED BY <1>1, <1>2 DEF SetStatus, Live, Steady, TInv, TypeOK, BookingRow

LEMMA InsertSteady ==
  ASSUME TInv, NEW b \in Bookings, NEW st, NEW s, NEW slot, InsertBooking(b, st, s, slot)
  PROVE  Steady
<1>1. booking[b].status = "unborn"
  BY DEF InsertBooking, NoBooking
<1>2. \A c \in Bookings \ {b} : booking'[c] = booking[c] /\ held'[c] = held[c]
  BY DEF InsertBooking, TInv, TypeOK
<1> QED BY <1>1, <1>2 DEF Steady

\* Each step of a handler, acceptance apart, is steady and names no booking.
LEMMA ContinueSteady ==
  ASSUME TInv, NEW r \in Requests, Continue(r)
  PROVE  \/ \E b \in Bookings : AcceptWrite(r, b)
         \/ Steady /\ NoneNamed
<1>1. ASSUME NEW b \in Bookings, CreateInsert(r, b) PROVE Steady /\ NoneNamed
  BY <1>1, InsertSteady DEF CreateInsert, NoneNamed
<1>2. ASSUME NEW a \in Applications, ApplyInsert(r, a) PROVE Steady /\ NoneNamed
  BY <1>2 DEF ApplyInsert, Steady, NoneNamed, TInv, TypeOK
<1>3. CASE RefuseWrite(r)
  <2>1. \A a \in Applications : application[a] \in ApplicationRow
    BY DEF TInv, TypeOK
  <2> QED BY <1>3, <2>1 DEF RefuseWrite, Steady, NoneNamed, ApplicationRow, TInv, TypeOK
<1>4. CASE LinkInvoice(r)
  <2>1. request[r].booking \in Bookings
    BY <1>4 DEF LinkInvoice, TInv, RequestsComplete, RequestComplete
  <2> QED BY <1>4, <2>1 DEF LinkInvoice, Steady, NoneNamed, TInv, TypeOK, BookingRow
<1>5. CASE \/ ReadInvoice(r) \/ GenerateInvoice(r) \/ AddDocumentInsert(r)
           \/ FinalizeContractDoc(r) \/ RowGone(r)
  BY <1>5
  DEF ReadInvoice, GenerateInvoice, AddDocumentInsert, FinalizeContractDoc, RowGone,
      Steady, NoneNamed
<1>6. CASE \/ ApproveWrite(r) \/ RejectWrite(r) \/ CancelWrite(r) \/ CheckInWrite(r)
           \/ CheckOutWrite(r) \/ ConfirmPhoneWrite(r) \/ PhoneUnreachableWrite(r)
           \/ MarkDocumentsPendingWrite(r) \/ FinalizeWrite(r)
  <2>1. UNCHANGED application
    BY <1>6
    DEF ApproveWrite, RejectWrite, CancelWrite, CheckInWrite, CheckOutWrite,
        ConfirmPhoneWrite, PhoneUnreachableWrite, MarkDocumentsPendingWrite,
        FinalizeWrite, WriteStatus
  <2>2. request[r].booking \in Bookings
    BY <1>6
    DEF ApproveWrite, RejectWrite, CancelWrite, CheckInWrite, CheckOutWrite,
        ConfirmPhoneWrite, PhoneUnreachableWrite, MarkDocumentsPendingWrite,
        FinalizeWrite, WriteStatus, At, TInv, RequestsComplete, RequestComplete, OnBooking
  <2>3. \E s \in BookingStatus : SetStatus(request[r].booking, s)
    BY <1>6
    DEF ApproveWrite, RejectWrite, CancelWrite, CheckInWrite, CheckOutWrite,
        ConfirmPhoneWrite, PhoneUnreachableWrite, MarkDocumentsPendingWrite,
        FinalizeWrite, WriteStatus, BookingStatus
  <2> QED BY <2>1, <2>2, <2>3, SetStatusSteady DEF NoneNamed
<1> QED BY <1>1, <1>2, <1>3, <1>4, <1>5, <1>6 DEF Continue

\* So is each step of one request, a removal apart.
LEMMA ImmediateSteady ==
  ASSUME TInv, Immediate
  PROVE  \/ \E b \in Bookings : Remove(b)
         \/ Steady /\ NoneNamed
<1>1. ASSUME NEW b \in Bookings, NEW st \in FreeStatuses, Update(b, st)
      PROVE  Steady /\ NoneNamed
  BY <1>1, FreeStatusesAreStatuses, SetStatusSteady DEF Update, NoneNamed
<1>2. CASE UNCHANGED <<booking, held, application>>
  BY <1>2 DEF Steady, NoneNamed
<1> QED BY <1>1, <1>2 DEF Immediate, RemoveDocument, UpdateSpace

LEMMA SteadyAgrees ==
  ASSUME TInv, ApplicationsAgree, Steady, NoneNamed
  PROVE  ApplicationsAgree'
<1> SUFFICES ASSUME NEW a \in Applications, NEW b, b # None, application'[a].booking = b
             PROVE  Own(a, b)'
  BY DEF ApplicationsAgree, Own
<1>1. /\ application[a].booking = b
      /\ application'[a].space = application[a].space
      /\ application'[a].slot = application[a].slot
      /\ application'[a].status \in {application[a].status, "ACCEPTED", "REFUSED"}
  BY DEF NoneNamed
<1>2. b \in Bookings
  BY <1>1 DEF TInv, TypeOK, ApplicationRow
<1>3. Own(a, b)
  BY <1>1 DEF ApplicationsAgree, Own
<1>4. booking[b].status # "unborn"
  BY <1>3 DEF Own, Live, BookingStatus
<1>5. \A c \in Applications \ {a} : application'[c].booking # b
  BY <1>1, <1>3 DEF NoneNamed, Own
<1> QED BY <1>1, <1>2, <1>3, <1>4, <1>5 DEF Steady, Own, Live

\* The new booking is a row that no application can name yet.
LEMMA AcceptWriteAgrees ==
  ASSUME TInv, ApplicationsAgree, NEW r \in Requests, NEW n \in Bookings, AcceptWrite(r, n)
  PROVE  ApplicationsAgree'
<1> DEFINE w == request[r].application
<1>1. w \in Applications /\ "PENDING_PHONE_CONFIRMATION" \in BookingStatus
  BY DEF AcceptWrite, At, TInv, RequestsComplete, RequestComplete, BookingStatus
<1>2. /\ application'[w] = [application[w] EXCEPT !.status = "ACCEPTED", !.booking = n]
      /\ \A a \in Applications \ {w} : application'[a] = application[a]
  BY <1>1 DEF AcceptWrite, TInv, TypeOK
<1>3. application[w] \in ApplicationRow
  BY <1>1 DEF TInv, TypeOK
<1>4. /\ application'[w].status = "ACCEPTED" /\ application'[w].booking = n
      /\ application'[w].space = application[w].space
      /\ application'[w].slot = application[w].slot
  BY <1>2, <1>3 DEF ApplicationRow
<1>5. /\ booking'[n].status = "PENDING_PHONE_CONFIRMATION"
      /\ booking'[n].space = application[w].space
      /\ booking'[n].slot = application[w].slot
      /\ held'[n] = {"PENDING_PHONE_CONFIRMATION"}
      /\ \A c \in Bookings \ {n} : booking'[c] = booking[c] /\ held'[c] = held[c]
  BY DEF AcceptWrite, InsertBooking, TInv, TypeOK
<1>6. ~Live(n)
  <2>1. booking[n] = NoBooking
    BY DEF AcceptWrite, InsertBooking
  <2> QED BY <2>1 DEF NoBooking, Live, BookingStatus
<1>7. \A a \in Applications : application[a].booking # n
  BY <1>6, NoneIsNoRow DEF ApplicationsAgree
<1> SUFFICES ASSUME NEW a \in Applications, NEW b, b # None, application'[a].booking = b
             PROVE  Own(a, b)'
  BY DEF ApplicationsAgree, Own
<1>8. CASE a = w
  BY <1>1, <1>2, <1>4, <1>5, <1>7, <1>8 DEF Own, Live
<1>9. CASE a # w
  <2>1. application'[a] = application[a] /\ application[a].booking = b /\ b # n
    BY <1>2, <1>7, <1>9
  <2>2. b \in Bookings
    BY <2>1 DEF TInv, TypeOK, ApplicationRow
  <2>3. booking'[b] = booking[b] /\ held'[b] = held[b]
    BY <1>5, <2>1, <2>2
  <2>4. Own(a, b)
    BY <2>1 DEF ApplicationsAgree, Own
  <2>5. \A c \in Applications \ {a} : application'[c].booking # b
    BY <1>2, <1>4, <2>1, <2>4 DEF Own
  <2> QED BY <2>1, <2>3, <2>4, <2>5 DEF Own, Live
<1> QED BY <1>8, <1>9

LEMMA RemoveAgrees ==
  ASSUME TInv, ApplicationsAgree, NEW n \in Bookings, Remove(n)
  PROVE  ApplicationsAgree'
<1>1. \A a \in Applications :
        IF application[a].booking = n
        THEN application'[a].booking = None ELSE application'[a] = application[a]
  BY DEF Remove, TInv, TypeOK, ApplicationRow
<1>2. \A c \in Bookings \ {n} : booking'[c] = booking[c] /\ held'[c] = held[c]
  BY DEF Remove, TInv, TypeOK
<1> SUFFICES ASSUME NEW a \in Applications, NEW b, b # None, application'[a].booking = b
             PROVE  Own(a, b)'
  BY DEF ApplicationsAgree, Own
<1>3. application'[a] = application[a] /\ application[a].booking = b /\ b # n
  BY <1>1
<1>4. b \in Bookings
  BY <1>3 DEF TInv, TypeOK, ApplicationRow
<1>5. booking'[b] = booking[b] /\ held'[b] = held[b]
  BY <1>2, <1>3, <1>4
<1>6. Own(a, b)
  BY <1>3 DEF ApplicationsAgree, Own
<1>7. \A c \in Applications \ {a} : application'[c].booking # b
  BY <1>1, <1>3, <1>6 DEF Own
<1> QED BY <1>3, <1>5, <1>6, <1>7 DEF Own, Live

LEMMA OthersSteady ==
  ASSUME NEW r \in Requests, Arrival(r) \/ Fail(r)
  PROVE  UNCHANGED <<booking, documents, space, application, held>>
  BY DEF Arrival, Fail, Create, Approve, Reject, Cancel, CheckIn, CheckOut,
     ConfirmPhone, PhoneUnreachable, MarkDocumentsPending, Finalize, AddDocument,
     Apply, Accept, Refuse, Review, Begin, Enter

\* Two acceptances of one application, a refusal in between, or a removal leave
\* each application naming a booking of its own, on its own space and period,
\* or none.
THEOREM ApplicationsNameTheirOwn == Spec => []ApplicationsAgree
<1>1. Init => ApplicationsAgree
  BY DEF Init, NoApplication, ApplicationsAgree
<1>2. TInv /\ ApplicationsAgree /\ [Next]_vars => ApplicationsAgree'
  <2> SUFFICES ASSUME TInv, ApplicationsAgree, [Next]_vars PROVE ApplicationsAgree'
    OBVIOUS
  <2>1. ASSUME UNCHANGED <<booking, application, held>> PROVE ApplicationsAgree'
    BY <2>1, SteadyAgrees DEF Steady, NoneNamed
  <2>2. ASSUME NEW r \in Requests, Arrival(r) \/ Fail(r) PROVE ApplicationsAgree'
    BY <2>1, <2>2, OthersSteady
  <2>3. ASSUME NEW r \in Requests, Continue(r) PROVE ApplicationsAgree'
    BY <2>3, ContinueSteady, AcceptWriteAgrees, SteadyAgrees
  <2>4. CASE Immediate
    BY <2>4, ImmediateSteady, RemoveAgrees, SteadyAgrees
  <2>5. CASE UNCHANGED vars
    BY <2>1, <2>5 DEF vars
  <2> QED BY <2>2, <2>3, <2>4, <2>5 DEF Next
<1> QED BY <1>1, <1>2, InitTInv, NextTInv, PTL DEF Spec

-----------------------------------------------------------------------------
(***************************************************************************)
(* The spaces that the reception workflow holds.  A space is reserved when *)
(* its application is accepted, and opened again by markPhoneUnreachable   *)
(* and by managers only.                                                   *)
(***************************************************************************)

Reception == {"PENDING_PHONE_CONFIRMATION", "AWAITING_PHYSICAL_VISIT",
              "DOCUMENTS_PENDING_UPLOAD", "ACTIVE"}

Released(b) ==
  \E c \in Bookings :
    \/ booking[c].status = "deleted"
    \/ booking[c].space = booking[b].space /\ "REFUSED" \in held[c]

\* The space of a booking that was ever accepted is open only if it was released.
Reserved ==
  \A b \in Bookings :
    /\ Live(b) /\ "PENDING_PHONE_CONFIRMATION" \in held[b]
    /\ space[booking[b].space].status = "AVAILABLE"
    => Released(b)

\* What a booking in the reception workflow has been.
ReceptionFirst ==
  \A b \in Bookings :
    held[b] \cap Reception # {} => "PENDING_PHONE_CONFIRMATION" \in held[b]

NoneReceived ==
  \A b \in Bookings :
    "PENDING_PHONE_CONFIRMATION" \in held'[b] => "PENDING_PHONE_CONFIRMATION" \in held[b]

NoneOpened ==
  \A s \in Spaces : space'[s].status = "AVAILABLE" => space[s].status = "AVAILABLE"

\* What released a space stays: a row that is deleted, and a refusal.
LEMMA StillReleased ==
  ASSUME TInv, HInv, Reserved, Steady, NEW b \in Bookings, Live(b)',
         "PENDING_PHONE_CONFIRMATION" \in held[b],
         space[booking'[b].space].status = "AVAILABLE"
  PROVE  Released(b)'
<1>1. booking[b].status # "unborn"
  BY DEF HInv
<1>2. Live(b) /\ booking'[b].space = booking[b].space
  BY <1>1 DEF Steady, Live
<1>3. PICK c \in Bookings :
        \/ booking[c].status = "deleted"
        \/ booking[c].space = booking[b].space /\ "REFUSED" \in held[c]
  BY <1>2 DEF Reserved, Released
<1>4. booking[c].status # "unborn"
  BY <1>3 DEF HInv
<1> QED BY <1>2, <1>3, <1>4 DEF Steady, Released

LEMMA SteadyReserves ==
  ASSUME TInv, HInv, Reserved, Steady, NoneReceived, NoneOpened
  PROVE  Reserved'
<1> SUFFICES ASSUME NEW b \in Bookings, Live(b)', "PENDING_PHONE_CONFIRMATION" \in held'[b],
                    space'[booking'[b].space].status = "AVAILABLE"
             PROVE  Released(b)'
  BY DEF Reserved, Live, Released
<1>1. "PENDING_PHONE_CONFIRMATION" \in held[b]
  BY DEF NoneReceived
<1>2. Live(b) /\ booking'[b].space = booking[b].space
  BY <1>1 DEF HInv, Steady, Live
<1>3. booking[b].space \in Spaces
  BY <1>2 DEF TInv, RowsComplete
<1> QED BY <1>1, <1>2, <1>3, StillReleased DEF NoneOpened

LEMMA AcceptWriteReserves ==
  ASSUME TInv, HInv, Reserved, NEW r \in Requests, NEW n \in Bookings, AcceptWrite(r, n)
  PROVE  Reserved'
<1> DEFINE w == request[r].application
<1>1. w \in Applications /\ application[w].space \in Spaces
  BY DEF AcceptWrite, At, TInv, RequestsComplete, RequestComplete, RowsComplete
<1>2. /\ space'[application[w].space].status = "RESERVED"
      /\ \A s \in Spaces \ {application[w].space} : space'[s] = space[s]
  BY <1>1 DEF AcceptWrite, TInv, TypeOK
<1>3. /\ booking'[n].space = application[w].space
      /\ \A c \in Bookings \ {n} : booking'[c] = booking[c] /\ held'[c] = held[c]
  BY DEF AcceptWrite, InsertBooking, TInv, TypeOK
<1>4. Steady
  BY InsertSteady DEF AcceptWrite
<1> SUFFICES ASSUME NEW b \in Bookings, Live(b)', "PENDING_PHONE_CONFIRMATION" \in held'[b],
                    space'[booking'[b].space].status = "AVAILABLE"
             PROVE  Released(b)'
  BY DEF Reserved, Live, Released
<1>5. b # n
  BY <1>2, <1>3
<1>6. booking'[b] = booking[b] /\ held'[b] = held[b]
  BY <1>3, <1>5
<1>7. booking[b].space \in Spaces
  BY <1>6 DEF Live, TInv, RowsComplete
<1>8. space'[booking[b].space] = space[booking[b].space]
  BY <1>2, <1>6, <1>7
<1> QED BY <1>4, <1>6, <1>8, StillReleased

\* The booking that is refused is itself the reason why its space is open.
LEMMA PhoneUnreachableReserves ==
  ASSUME TInv, HInv, Reserved, NEW r \in Requests, PhoneUnreachableWrite(r)
  PROVE  Reserved'
<1> DEFINE p == request[r].booking
<1>1. p \in Bookings
  BY DEF PhoneUnreachableWrite, At, TInv, RequestsComplete, RequestComplete, OnBooking
<1>2. /\ booking'[p] = [booking[p] EXCEPT !.status = "REFUSED"] /\ Live(p)
      /\ "REFUSED" \in held'[p]
      /\ \A c \in Bookings \ {p} : held'[c] = held[c]
      /\ held'[p] = held[p] \cup {"REFUSED"}
  BY <1>1 DEF PhoneUnreachableWrite, SetStatus, TInv, TypeOK
<1>3. Steady
  BY <1>1, SetStatusSteady DEF PhoneUnreachableWrite, BookingStatus
<1>4. booking'[p].space = booking[p].space /\ booking[p].space \in Spaces
  BY <1>1, <1>2 DEF TInv, TypeOK, BookingRow, RowsComplete
<1>5. \A s \in Spaces \ {booking[p].space} : space'[s] = space[s]
  BY DEF PhoneUnreachableWrite, TInv, TypeOK
<1> SUFFICES ASSUME NEW b \in Bookings, Live(b)', "PENDING_PHONE_CONFIRMATION" \in held'[b],
                    space'[booking'[b].space].status = "AVAILABLE"
             PROVE  Released(b)'
  BY DEF Reserved, Live, Released
<1>6. CASE booking'[b].space = booking[p].space
  BY <1>1, <1>2, <1>4, <1>6 DEF Released
<1>7. CASE booking'[b].space # booking[p].space
  <2>1. "PENDING_PHONE_CONFIRMATION" \in held[b]
    BY <1>2
  <2>2. booking'[b].space = booking[b].space /\ Live(b)
    BY <1>3, <2>1 DEF HInv, Steady, Live
  <2>3. booking'[b].space \in Spaces
    BY <2>2 DEF TInv, RowsComplete
  <2>4. space'[booking'[b].space] = space[booking'[b].space]
    BY <1>5, <1>7, <2>3
  <2> QED BY <1>3, <2>1, <2>4, StillReleased
<1> QED BY <1>6, <1>7

LEMMA SetStatusReceivesNone ==
  ASSUME TInv, NEW b \in Bookings, NEW s, s # "PENDING_PHONE_CONFIRMATION", SetStatus(b, s)
  PROVE  NoneReceived
  BY DEF SetStatus, NoneReceived, TInv, TypeOK

LEMMA ContinueReserves ==
  ASSUME TInv, HInv, Reserved, "PENDING_PHONE_CONFIRMATION" \notin FreeStatuses,
         NEW r \in Requests, Continue(r)
  PROVE  Reserved'
<1>1. ASSUME NEW b \in Bookings, AcceptWrite(r, b) PROVE Reserved'
  BY <1>1, AcceptWriteReserves
<1>2. CASE PhoneUnreachableWrite(r)
  BY <1>2, PhoneUnreachableReserves
<1> SUFFICES ASSUME \A b \in Bookings : ~AcceptWrite(r, b), ~PhoneUnreachableWrite(r)
             PROVE  Reserved'
  BY <1>1, <1>2
<1>3. Steady
  BY ContinueSteady
<1>4. ASSUME NEW b \in Bookings, CreateInsert(r, b) PROVE NoneReceived /\ NoneOpened
  <2>1. request[r].status # "PENDING_PHONE_CONFIRMATION"
    BY <1>4 DEF CreateInsert, At, TInv, RequestsComplete, RequestComplete, CreateStatuses
  <2> QED BY <1>4, <2>1 DEF CreateInsert, InsertBooking, NoneReceived, NoneOpened, TInv, TypeOK
<1>5. ASSUME \/ \E a \in Applications : ApplyInsert(r, a)
             \/ ReadInvoice(r) \/ GenerateInvoice(r) \/ LinkInvoice(r)
             \/ AddDocumentInsert(r) \/ FinalizeContractDoc(r) \/ RefuseWrite(r)
             \/ RowGone(r)
      PROVE  NoneReceived /\ NoneOpened
  BY <1>5
  DEF ApplyInsert, ReadInvoice, GenerateInvoice, LinkInvoice, AddDocumentInsert,
      FinalizeContractDoc, RefuseWrite, RowGone, NoneReceived, NoneOpened
<1>6. ASSUME \/ ApproveWrite(r) \/ RejectWrite(r) \/ CancelWrite(r) \/ CheckInWrite(r)
             \/ CheckOutWrite(r) \/ ConfirmPhoneWrite(r) \/ MarkDocumentsPendingWrite(r)
             \/ FinalizeWrite(r)
      PROVE  NoneReceived /\ NoneOpened
  <2>1. request[r].booking \in Bookings
    BY <1>6
    DEF ApproveWrite, RejectWrite, CancelWrite, CheckInWrite, CheckOutWrite,
        ConfirmPhoneWrite, MarkDocumentsPendingWrite, FinalizeWrite, WriteStatus, At,
        TInv, RequestsComplete, RequestComplete, OnBooking
  <2>2. \E s \in BookingStatus \ {"PENDING_PHONE_CONFIRMATION"} :
          SetStatus(request[r].booking, s)
    BY <1>6
    DEF ApproveWrite, RejectWrite, CancelWrite, CheckInWrite, CheckOutWrite,
        ConfirmPhoneWrite, MarkDocumentsPendingWrite, FinalizeWrite, WriteStatus,
        BookingStatus
  <2>3. NoneReceived
    BY <2>1, <2>2, SetStatusReceivesNone
  <2>4. NoneOpened
    BY <1>6
    DEF ApproveWrite, RejectWrite, CancelWrite, CheckInWrite, CheckOutWrite,
        ConfirmPhoneWrite, MarkDocumentsPendingWrite, FinalizeWrite, WriteStatus,
        NoneOpened, TInv, TypeOK
  <2> QED BY <2>3, <2>4
<1>7. NoneReceived /\ NoneOpened
  BY <1>4, <1>5, <1>6 DEF Continue
<1> QED BY <1>3, <1>7, SteadyReserves

LEMMA ImmediateReserves ==
  ASSUME TInv, HInv, Reserved, "PENDING_PHONE_CONFIRMATION" \notin FreeStatuses,
         "AVAILABLE" \notin SpaceEdits, Immediate
  PROVE  Reserved'
<1>1. ASSUME NEW b \in Bookings, Remove(b) PROVE Reserved'
  <2>1. booking'[b].status = "deleted"
    BY <1>1 DEF Remove, Deleted, NoBooking, TInv, TypeOK
  <2> QED BY <2>1 DEF Reserved, Released
<1>2. ASSUME \A b \in Bookings : ~Remove(b) PROVE Reserved'
  <2>1. Steady
    BY <1>2, ImmediateSteady
  <2>2. ASSUME NEW b \in Bookings, NEW st \in FreeStatuses, Update(b, st)
        PROVE  NoneReceived /\ NoneOpened
    BY <2>2, SetStatusReceivesNone DEF Update, NoneOpened
  <2>3. ASSUME NEW s \in Spaces, NEW st \in SpaceEdits \cup {space[s].status},
               NEW pub, UpdateSpace(s, st, pub)
        PROVE  NoneReceived /\ NoneOpened
    BY <2>3 DEF UpdateSpace, NoneReceived, NoneOpened, TInv, TypeOK
  <2>4. ASSUME NEW b \in Bookings, NEW k \in DocumentKinds, RemoveDocument(b, k)
        PROVE  NoneReceived /\ NoneOpened
    BY <2>4 DEF RemoveDocument, NoneReceived, NoneOpened
  <2> QED BY <1>2, <2>1, <2>2, <2>3, <2>4, SteadyReserves DEF Immediate
<1> QED BY <1>1, <1>2

LEMMA StagesReceptionFirst ==
  ASSUME TInv, ReceptionFirst, StagesStep, FreeStatuses \cap Reception = {}
  PROVE  ReceptionFirst'
<1>1. ASSUME NEW b \in Bookings, Stages!Forget(b) PROVE ReceptionFirst'
  BY <1>1 DEF Stages!Forget, ReceptionFirst, TInv, TypeOK
<1>2. ASSUME NEW b \in Bookings, NEW s \in BookingStatus, Stages!Reach(b, s)
      PROVE  ReceptionFirst'
  <2>1. /\ held'[b] = held[b] \cup {s}
        /\ \A c \in Bookings \ {b} : held'[c] = held[c]
    BY <1>2 DEF Stages!Reach, TInv, TypeOK
  <2>2. s \in Reception \ {"PENDING_PHONE_CONFIRMATION"} =>
          \E p \in held[b] : <<p, s>> \in Steps
    BY <1>2, SameStatuses DEF Stages!Reach, CreateStatuses, Reception
  <2>3. s \in Reception \ {"PENDING_PHONE_CONFIRMATION"} => held[b] \cap Reception # {}
    BY <2>2 DEF Reception, Steps, Forward
  <2> QED BY <2>1, <2>3 DEF ReceptionFirst, Reception
<1>3. CASE UNCHANGED held BY <1>3 DEF ReceptionFirst
<1> QED BY <1>1, <1>2, <1>3, SameStatuses DEF StagesStep, Stages!Next

\* A space with a booking in the reception workflow is open only if a booking of
\* that space was refused by phone, or a booking was deleted, since: as long as
\* staff write none of those statuses by hand and open no space.
THEOREM SpacesStayHeld ==
  ASSUME FreeStatuses \cap Reception = {}, "AVAILABLE" \notin SpaceEdits
  PROVE  Spec => []HeldUntilReleased
<1> DEFINE Inv == TInv /\ HInv /\ Reserved /\ ReceptionFirst
<1>1. "PENDING_PHONE_CONFIRMATION" \notin FreeStatuses
  BY DEF Reception
<1>2. Init => Inv
  BY InitTInv, InitHInv
  DEF Init, NoBooking, Live, BookingStatus, Reserved, ReceptionFirst
<1>3. Inv /\ [Next]_vars => Inv'
  <2> SUFFICES ASSUME TInv, HInv, Reserved, ReceptionFirst, [Next]_vars PROVE Inv'
    OBVIOUS
  <2>1. TInv' /\ HInv' /\ StagesStep
    BY NextTInv, NextHInv
  <2>2. ReceptionFirst'
    BY <2>1, StagesReceptionFirst
  <2>3. ASSUME UNCHANGED <<booking, space, held>> PROVE Reserved'
    BY <2>3, SteadyReserves DEF Steady, NoneReceived, NoneOpened
  <2>4. ASSUME NEW r \in Requests, Arrival(r) \/ Fail(r) PROVE Reserved'
    BY <2>3, <2>4, OthersSteady
  <2>5. ASSUME NEW r \in Requests, Continue(r) PROVE Reserved'
    BY <1>1, <2>5, ContinueReserves
  <2>6. ASSUME Immediate PROVE Reserved'
    BY <1>1, <2>6, ImmediateReserves
  <2>7. ASSUME UNCHANGED vars PROVE Reserved'
    BY <2>3, <2>7 DEF vars
  <2>8. Reserved'
    BY <2>4, <2>5, <2>6, <2>7 DEF Next
  <2> QED BY <2>1, <2>2, <2>8
<1>4. Inv => HeldUntilReleased
  <2> SUFFICES ASSUME HInv, Reserved, ReceptionFirst, NEW b \in Bookings,
                      booking[b].status \in Reception,
                      space[booking[b].space].status = "AVAILABLE"
               PROVE  Released(b)
    BY DEF HeldUntilReleased, Reception, Released
  <2>1. Live(b)
    BY DEF Live, Reception, BookingStatus
  <2>2. "PENDING_PHONE_CONFIRMATION" \in held[b]
    BY <2>1 DEF HInv, ReceptionFirst
  <2> QED BY <2>1, <2>2 DEF Reserved
<1> HIDE DEF Inv
<1> QED BY <1>2, <1>3, <1>4, PTL DEF Spec

-----------------------------------------------------------------------------
(***************************************************************************)
(* What a handler tested and then writes.  Three properties of a server    *)
(* that runs one request at a time hold of any behaviour in which those    *)
(* few requests are kept apart that would get in each other's way.  The    *)
(* conditions below say which: they are the locks that the code lacks.     *)
(***************************************************************************)

\* Nobody moves the status of a booking between the test of another handler and
\* its write: neither a second handler nor a PATCH.
MovesApart ==
  \A p, q \in Requests :
    p # q /\ Moving(request[p]) /\ Moving(request[q])
      => request[p].booking # request[q].booking

NotPatched ==
  \A r \in Requests : Moving(request[r]) =>
    ~ \E st \in FreeStatuses : Update(request[r].booking, st)

\* No booking of the space begins to hold its days while POST /bookings, which
\* found the period free, has yet to insert.
Creating(q) == q.op = "create" /\ q.at = "write"

SpaceKept ==
  \A r \in Requests : Creating(request[r]) /\ request'[r] = request[r] =>
    \A b \in Bookings :
      Blocking(b)' /\ booking'[b].space = request[r].space => Blocking(b)

\* No two requests generate or link an invoice for one booking.
Invoicing(q) == q.at \in {"generateInvoice", "linkInvoice"}

InvoicingApart ==
  \A p, q \in Requests :
    p # q /\ Invoicing(request[p]) /\ Invoicing(request[q])
      => request[p].booking # request[q].booking

\* What a request in flight has found out and relies on.
Tested(q) ==
  Moving(q) => \/ booking[q.booking].status = "deleted"
               \/ <<booking[q.booking].status, Writes[q.op]>> \in Steps

FreeStill(q) == Creating(q) => ~Conflict(q.space, q.slot)

Unlinked(q) == q.at = "generateInvoice" => ~booking[q.booking].invoiced

AllTested == \A r \in Requests : Tested(request[r])
AllFree == \A r \in Requests : FreeStill(request[r])
AllUnlinked == \A r \in Requests : Unlinked(request[r])

\* What each step has to be.
Statuses == [b \in Bookings |-> booking[b].status]

LifecycleStep == [Lifecycle!Next]_Statuses

FreeSlotStep ==
  \A b \in Bookings : \A c \in Bookings \ {b} :
    /\ booking[b].status = "unborn" /\ booking'[b].status \in CreateStatuses
    /\ booking[c].status \in BookingStatus \ {"CANCELLED", "NO_SHOW", "REFUSED"}
    /\ booking[c].space = booking'[b].space
    => \A day \in booking'[b].slot[1] .. booking'[b].slot[2] :
         day \notin booking[c].slot[1] .. booking[c].slot[2]

InvoiceStep == \A b \in Bookings : booking[b].invoiced => invoices'[b] = invoices[b]

LEMMA SameLifecycle ==
  Lifecycle!BookingStatus = BookingStatus /\ Lifecycle!Forward = Forward
  BY DEF Lifecycle!BookingStatus, BookingStatus, Lifecycle!Forward, Forward

LEMMA NoneUnborn == "unborn" \notin CreateStatuses /\ "unborn" \notin BookingStatus
  BY FreeStatusesAreStatuses DEF CreateStatuses, BookingStatus

-----------------------------------------------------------------------------
(* Requests that arrive. *)

\* A request that arrives relies on what it has found out.
Arrived(r) ==
  /\ \A q \in Requests \ {r} : request'[q] = request[q]
  /\ UNCHANGED <<booking, invoices>>
  /\ Tested(request'[r]) /\ FreeStill(request'[r]) /\ Unlinked(request'[r])

LEMMA EnterArrives ==
  ASSUME TInv, NEW r \in Requests, NEW row, Enter(r, row),
         Tested(row), FreeStill(row), Unlinked(row)
  PROVE  Arrived(r)
<1>1. request'[r] = row /\ \A q \in Requests \ {r} : request'[q] = request[q]
  BY DEF Enter, TInv, TypeOK
<1> QED BY <1>1 DEF Arrived, Enter

LEMMA BeginArrives ==
  ASSUME TInv, NEW r \in Requests, NEW b \in Bookings,
         NEW S \in SUBSET BookingStatus, NEW op \in Movers, Begin(r, op, b, S),
         \A p \in S : <<p, Writes[op]>> \in Steps
  PROVE  Arrived(r)
<1> DEFINE row == [Idle EXCEPT !.op = op, !.at = "write", !.booking = b]
<1>1. row.op = op /\ row.at = "write" /\ row.booking = b BY DEF Idle
<1>2. Enter(r, row) /\ booking[b].status \in S BY DEF Begin
<1> HIDE DEF row
<1>3. Tested(row) BY <1>1, <1>2 DEF Tested
<1>4. FreeStill(row) /\ Unlinked(row)
  BY <1>1 DEF FreeStill, Creating, Unlinked, Movers, OnBooking
<1> QED BY <1>2, <1>3, <1>4, EnterArrives

LEMMA ArrivalArrives ==
  ASSUME TInv, NEW r \in Requests, Arrival(r)
  PROVE  Arrived(r)
<1> USE DEF Tested, Moving, Movers, OnBooking, FreeStill, Creating, Unlinked, Idle
<1>1. ASSUME NEW s \in Spaces, NEW slot \in Slots, NEW st \in CreateStatuses,
             Create(r, s, slot, st)
      PROVE  Arrived(r)
  <2> DEFINE row == [Idle EXCEPT !.op = "create", !.at = "write", !.space = s,
                                 !.slot = slot, !.status = st]
  <2>1. Enter(r, row) /\ ~Conflict(s, slot) BY <1>1 DEF Create
  <2>2. Tested(row) /\ FreeStill(row) /\ Unlinked(row) BY <2>1
  <2> QED BY <2>1, <2>2, EnterArrives
<1>2. ASSUME NEW p \in Applicants, NEW s \in Spaces, NEW slot \in Slots,
             Apply(r, p, s, slot)
      PROVE  Arrived(r)
  BY <1>2, EnterArrives DEF Apply
<1>3. ASSUME NEW a \in Applications, NEW op \in {"accept", "refuse"},
             Review(r, op, a)
      PROVE  Arrived(r)
  BY <1>3, EnterArrives DEF Review
<1>4. ASSUME NEW b \in Bookings, NEW k \in DocumentKinds, AddDocument(r, b, k)
      PROVE  Arrived(r)
  BY <1>4, EnterArrives DEF AddDocument
<1>5. ASSUME NEW b \in Bookings, Finalize(r, b) PROVE Arrived(r)
  BY <1>5, EnterArrives DEF Finalize, Writes, Steps, Forward
<1>6. ASSUME NEW b \in Bookings,
             \/ Approve(r, b) \/ Reject(r, b) \/ Cancel(r, b)
             \/ CheckIn(r, b) \/ CheckOut(r, b)
             \/ ConfirmPhone(r, b) \/ PhoneUnreachable(r, b)
             \/ MarkDocumentsPending(r, b)
      PROVE  Arrived(r)
  <2> USE <1>6 DEF Writes, Steps, Forward, BookingStatus
  <2>1. CASE Approve(r, b) BY <2>1, BeginArrives DEF Approve
  <2>2. CASE Reject(r, b) BY <2>2, BeginArrives DEF Reject
  <2>3. CASE Cancel(r, b) BY <2>3, BeginArrives DEF Cancel
  <2>4. CASE CheckIn(r, b) BY <2>4, BeginArrives DEF CheckIn
  <2>5. CASE CheckOut(r, b) BY <2>5, BeginArrives DEF CheckOut
  <2>6. CASE ConfirmPhone(r, b) BY <2>6, BeginArrives DEF ConfirmPhone
  <2>7. CASE PhoneUnreachable(r, b) BY <2>7, BeginArrives DEF PhoneUnreachable
  <2>8. CASE MarkDocumentsPending(r, b)
    BY <2>8, BeginArrives DEF MarkDocumentsPending
  <2> QED BY <2>1, <2>2, <2>3, <2>4, <2>5, <2>6, <2>7, <2>8
<1> QED BY <1>1, <1>2, <1>3, <1>4, <1>5, <1>6 DEF Arrival, Accept, Refuse

-----------------------------------------------------------------------------
(* Requests that go on: where they go, and what they do to the tables. *)

\* Only the request that goes on has another record.
Alone(r) == \A q \in Requests \ {r} : request'[q] = request[q]

\* A write of one of the handlers that test a status.
Write(r) ==
  \E op \in Movers : /\ At(r, op, "write")
                     /\ SetStatus(request[r].booking, Writes[op])
                     /\ UNCHANGED invoices
                     /\ ~Moving(request'[r]) /\ ~Creating(request'[r])
                     /\ request'[r].at # "generateInvoice"

\* The request is over.
Over(r) == request'[r] = Idle

\* The ways a request can go on.
Going(r) ==
  \/ Write(r)
  \/ Over(r) /\ UNCHANGED <<booking, invoices>>
  \/ /\ At(r, "finalize", "contractDoc") /\ UNCHANGED <<booking, invoices>>
     /\ request'[r] = [request[r] EXCEPT !.at = "write"]
  \/ /\ request[r].at = "readInvoice" /\ UNCHANGED <<booking, invoices>>
     /\ ~booking[request[r].booking].invoiced
     /\ request'[r] = [request[r] EXCEPT !.at = "generateInvoice"]
  \/ /\ request[r].at = "generateInvoice" /\ UNCHANGED booking
     /\ invoices' = [invoices EXCEPT ![request[r].booking] = @ + 1]
     /\ request'[r] = [request[r] EXCEPT !.at = "linkInvoice"]
  \/ /\ request[r].at = "linkInvoice" /\ UNCHANGED invoices
     /\ booking' = [booking EXCEPT ![request[r].booking].invoiced = TRUE]
     /\ Over(r)
  \/ \E b \in Bookings :
       /\ Creating(request[r]) /\ UNCHANGED invoices
       /\ InsertBooking(b, request[r].status, request[r].space, request[r].slot)
       /\ Over(r) \/ request'[r] = [Idle EXCEPT !.op = "create",
                                       !.at = "readInvoice", !.booking = b]
  \/ \E b \in Bookings, s \in Spaces, slot \in Slots :
       /\ At(r, "accept", "write") /\ UNCHANGED invoices
       /\ InsertBooking(b, "PENDING_PHONE_CONFIRMATION", s, slot)
       /\ request'[r] = [request[r] EXCEPT !.at = "generateInvoice", !.booking = b]

LEMMA ContinueGoes ==
  ASSUME TInv, NEW r \in Requests, Continue(r)
  PROVE  Alone(r) /\ Going(r)
<1>1. request \in [Requests -> RequestRow] /\ request[r] \in RequestRow
  BY DEF TInv, TypeOK
<1>2. ASSUME Finish(r) PROVE Alone(r) /\ Over(r)
  BY <1>1, <1>2 DEF Finish, Alone, Over
<1>3. ASSUME Finish(r), UNCHANGED <<booking, invoices>> PROVE Alone(r) /\ Going(r)
  BY <1>2, <1>3 DEF Going
<1>4. ASSUME NEW b \in Bookings, CreateInsert(r, b) PROVE Alone(r) /\ Going(r)
  <2>1. CASE Finish(r)
    BY <1>2, <1>4, <2>1 DEF CreateInsert, Going, At, Creating
  <2>2. CASE request' = [request EXCEPT ![r] = [Idle EXCEPT !.op = "create",
                                          !.at = "readInvoice", !.booking = b]]
    <3>1. Alone(r) /\ request'[r] = [Idle EXCEPT !.op = "create",
                                       !.at = "readInvoice", !.booking = b]
      BY <1>1, <2>2 DEF Alone
    <3> QED BY <1>4, <3>1 DEF CreateInsert, Going, At, Creating
  <2> QED BY <1>4, <2>1, <2>2 DEF CreateInsert
<1>5. ASSUME NEW b \in Bookings, AcceptWrite(r, b) PROVE Alone(r) /\ Going(r)
  <2>1. /\ Alone(r)
        /\ request'[r] = [request[r] EXCEPT !.at = "generateInvoice", !.booking = b]
    BY <1>1, <1>5 DEF AcceptWrite, Alone
  <2>2. /\ application[request[r].application].space \in Spaces
        /\ application[request[r].application].slot \in Slots
    BY <1>5 DEF AcceptWrite, At, TInv, RequestsComplete, RequestComplete, RowsComplete
  <2> QED BY <1>5, <2>1, <2>2 DEF AcceptWrite, Going
<1>6. CASE ReadInvoice(r)
  <2>1. CASE request' = [request EXCEPT ![r].at = "generateInvoice"]
    BY <1>1, <1>3, <1>6, <2>1 DEF ReadInvoice, Alone, Going
  <2> QED BY <1>3, <1>6, <2>1 DEF ReadInvoice
<1>7. CASE GenerateInvoice(r)
  BY <1>1, <1>7 DEF GenerateInvoice, Alone, Going
<1>8. CASE LinkInvoice(r)
  BY <1>2, <1>8 DEF LinkInvoice, Going
<1>9. CASE ApproveWrite(r)
  <2>1. Alone(r) /\ request'[r] = [request[r] EXCEPT !.at = "readInvoice"]
    BY <1>1, <1>9 DEF ApproveWrite, Alone
  <2>2. /\ ~Moving(request'[r]) /\ ~Creating(request'[r])
        /\ request'[r].at # "generateInvoice"
    BY <1>1, <2>1 DEF RequestRow, Moving, Creating
  <2>3. Write(r)
    BY <1>9, <2>2 DEF ApproveWrite, Write, Writes, Movers, OnBooking
  <2> QED BY <2>1, <2>3 DEF Going
<1>10. CASE FinalizeContractDoc(r)
  <2>1. CASE request' = [request EXCEPT ![r].at = "write"]
    BY <1>1, <1>10, <2>1 DEF FinalizeContractDoc, Alone, Going
  <2> QED BY <1>3, <1>10, <2>1 DEF FinalizeContractDoc
<1>11. CASE \/ RejectWrite(r) \/ CancelWrite(r) \/ CheckInWrite(r)
            \/ CheckOutWrite(r) \/ ConfirmPhoneWrite(r)
            \/ MarkDocumentsPendingWrite(r) \/ PhoneUnreachableWrite(r)
            \/ FinalizeWrite(r)
  <2>1. PICK op \in Movers : /\ At(r, op, "write") /\ Finish(r)
                             /\ SetStatus(request[r].booking, Writes[op])
                             /\ UNCHANGED invoices
    BY <1>11
    DEF RejectWrite, CancelWrite, CheckInWrite, CheckOutWrite, ConfirmPhoneWrite,
        MarkDocumentsPendingWrite, PhoneUnreachableWrite, FinalizeWrite,
        WriteStatus, Writes, Movers, OnBooking
  <2>2. /\ ~Moving(request'[r]) /\ ~Creating(request'[r])
        /\ request'[r].at # "generateInvoice"
    BY <1>2, <2>1 DEF Over, Idle, Moving, Creating
  <2> QED BY <1>2, <2>1, <2>2 DEF Going, Write
<1> QED
  BY <1>3, <1>4, <1>5, <1>6, <1>7, <1>8, <1>9, <1>10, <1>11
  DEF Continue, ApplyInsert, AddDocumentInsert, RefuseWrite, RowGone

LEMMA FailGoes ==
  ASSUME TInv, NEW r \in Requests, Fail(r)
  PROVE  Alone(r) /\ Going(r)
<1>1. Alone(r) /\ Over(r) /\ UNCHANGED <<booking, invoices>>
  BY FinishKeeps DEF Fail, Alone, Over
<1> QED BY <1>1 DEF Going

\* Nobody goes on: one handler of one step, or nothing.
Still ==
  /\ UNCHANGED <<request, invoices>>
  /\ \/ \E b \in Bookings : Remove(b)
     \/ \E b \in Bookings : \E st \in FreeStatuses : Update(b, st)
     \/ UNCHANGED booking

LEMMA EveryStep ==
  ASSUME TInv, [Next]_vars
  PROVE  \/ \E r \in Requests : Arrived(r) \/ (Alone(r) /\ Going(r))
         \/ Still
<1>1. CASE Immediate
  BY <1>1 DEF Immediate, Still, Remove, Update, RemoveDocument, UpdateSpace
<1>2. CASE UNCHANGED vars
  BY <1>2 DEF vars, Still
<1>3. ASSUME NEW r \in Requests, Arrival(r) \/ Continue(r) \/ Fail(r)
      PROVE  Arrived(r) \/ (Alone(r) /\ Going(r))
  <2>1. CASE Arrival(r) BY <2>1, ArrivalArrives
  <2>2. CASE Continue(r) BY <2>2, ContinueGoes
  <2>3. CASE Fail(r) BY <2>3, FailGoes
  <2> QED BY <1>3, <2>1, <2>2, <2>3
<1> QED BY <1>1, <1>2, <1>3 DEF Next

-----------------------------------------------------------------------------
(* The lifecycle: what a handler tested is still so when it writes. *)

LEMMA StatusWritten ==
  ASSUME TInv, NEW b \in Bookings, NEW s \in BookingStatus, SetStatus(b, s),
         <<booking[b].status, s>> \in Steps \/ s \in FreeStatuses
  PROVE  LifecycleStep
<1>1. /\ booking[b].status \in BookingStatus
      /\ booking'[b] = [booking[b] EXCEPT !.status = s]
      /\ \A c \in Bookings \ {b} : booking'[c] = booking[c]
      /\ booking \in [Bookings -> BookingRow]
  BY DEF SetStatus, Live, TInv, TypeOK
<1>2. booking'[b].status = s
  BY <1>1 DEF BookingRow
<1>3. Statuses' = [Statuses EXCEPT ![b] = s]
  BY <1>1, <1>2 DEF Statuses
<1>4. CASE booking[b].status = "COMPLETED" /\ s = "CANCELLED"
  <2>1. Lifecycle!CancelCompleted(b)
    BY <1>3, <1>4 DEF Lifecycle!CancelCompleted, Statuses
  <2> QED BY <2>1 DEF LifecycleStep, Lifecycle!Next
<1>5. CASE <<booking[b].status, s>> \in Forward \/ s \in FreeStatuses
  <2>1. Lifecycle!Move(b)
    BY <1>1, <1>3, <1>5, SameLifecycle DEF Lifecycle!Move, Statuses
  <2> QED BY <2>1 DEF LifecycleStep, Lifecycle!Next
<1> QED BY <1>4, <1>5 DEF Steps

LEMMA BookingInserted ==
  ASSUME TInv, NEW b \in Bookings, NEW st, NEW s, NEW slot,
         InsertBooking(b, st, s, slot)
  PROVE  /\ booking[b].status = "unborn"
         /\ booking'[b].status = st /\ ~booking'[b].invoiced
         /\ booking'[b].space = s /\ booking'[b].slot = slot
         /\ \A c \in Bookings \ {b} : booking'[c] = booking[c]
  BY DEF InsertBooking, NoBooking, TInv, TypeOK

LEMMA BookingBorn ==
  ASSUME TInv, NEW b \in Bookings, NEW st \in EntryStatuses, NEW s, NEW slot,
         InsertBooking(b, st, s, slot)
  PROVE  LifecycleStep
<1>0. /\ booking[b].status = "unborn" /\ booking'[b].status = st
      /\ \A c \in Bookings \ {b} : booking'[c] = booking[c]
  BY BookingInserted
<1>1. Statuses' = [Statuses EXCEPT ![b] = st]
  BY <1>0 DEF Statuses
<1>2. Lifecycle!Born(b)
  BY <1>0, <1>1 DEF Lifecycle!Born, EntryStatuses, Statuses
<1> QED BY <1>2 DEF LifecycleStep, Lifecycle!Next

LEMMA StatusesStay ==
  ASSUME \A b \in Bookings : booking'[b].status = booking[b].status
  PROVE  LifecycleStep
  BY DEF LifecycleStep, Statuses

\* A request that waits relies on its test as long as nobody moves its booking.
LEMMA WaitsTested ==
  ASSUME TInv, AllTested, NEW q \in Requests, request'[q] = request[q],
         \A b \in Bookings :
           \/ booking'[b].status \in {booking[b].status, "deleted"}
           \/ booking[b].status = "unborn"
           \/ ~(Moving(request[q]) /\ request[q].booking = b)
  PROVE  Tested(request[q])'
<1> SUFFICES ASSUME Moving(request[q])
             PROVE  Tested(request[q])'
  BY DEF Tested, Moving
<1>1. request[q].booking \in Bookings /\ booking[request[q].booking].status # "unborn"
  BY DEF Moving, Movers, TInv, RequestsComplete, RequestComplete
<1> QED BY <1>1 DEF AllTested, Tested

\* A handler that moves a booking names it, and finds it as it tested it.
LEMMA WriteMoves ==
  ASSUME TInv, AllTested, NEW r \in Requests, Write(r)
  PROVE  /\ Moving(request[r]) /\ request[r].booking \in Bookings
         /\ \A b \in Bookings \ {request[r].booking} : booking'[b] = booking[b]
         /\ LifecycleStep
<1>1. PICK op \in Movers : /\ At(r, op, "write")
                           /\ SetStatus(request[r].booking, Writes[op])
  BY DEF Write
<1>2. Moving(request[r]) /\ request[r].booking \in Bookings
  BY <1>1 DEF At, Moving, Movers, TInv, RequestsComplete, RequestComplete
<1>3. <<booking[request[r].booking].status, Writes[op]>> \in Steps
  BY <1>1, <1>2 DEF At, AllTested, Tested, SetStatus, Live, BookingStatus
<1>4. Writes[op] \in BookingStatus
  BY DEF Writes, Movers, OnBooking, BookingStatus
<1>5. LifecycleStep
  BY <1>1, <1>2, <1>3, <1>4, StatusWritten
<1>6. \A b \in Bookings \ {request[r].booking} : booking'[b] = booking[b]
  BY <1>1 DEF SetStatus, TInv, TypeOK
<1> QED BY <1>2, <1>5, <1>6

LEMMA GoingTested ==
  ASSUME TInv, AllTested, MovesApart, NEW r \in Requests, Alone(r), Going(r)
  PROVE  AllTested' /\ LifecycleStep
<1>1. request[r] \in RequestRow
  BY DEF TInv, TypeOK
<1>2. ASSUME Tested(request[r])',
             \A b \in Bookings :
               \/ booking'[b].status = booking[b].status
               \/ booking[b].status = "unborn"
               \/ Moving(request[r]) /\ request[r].booking = b
      PROVE  AllTested'
  <2> SUFFICES ASSUME NEW q \in Requests PROVE Tested(request[q])'
    BY DEF AllTested
  <2>1. CASE q = r BY <1>2, <2>1
  <2>2. CASE q # r
    <3>1. request'[q] = request[q] BY <2>2 DEF Alone
    <3>2. \A b \in Bookings :
            \/ booking'[b].status \in {booking[b].status, "deleted"}
            \/ booking[b].status = "unborn"
            \/ ~(Moving(request[q]) /\ request[q].booking = b)
      BY <1>2, <2>2 DEF MovesApart
    <3> QED BY <3>1, <3>2, WaitsTested
  <2> QED BY <2>1, <2>2
<1>3. ASSUME ~Moving(request'[r]) PROVE Tested(request[r])'
  BY <1>3 DEF Tested, Moving
<1>4. CASE Write(r)
  <2>1. ~Moving(request'[r]) BY <1>4 DEF Write
  <2> QED BY <1>2, <1>3, <1>4, <2>1, WriteMoves
<1>5. CASE Over(r) /\ UNCHANGED booking
  <2>1. ~Moving(request'[r]) BY <1>5 DEF Over, Idle, Moving
  <2> QED BY <1>2, <1>3, <1>5, <2>1, StatusesStay
<1>6. CASE /\ At(r, "finalize", "contractDoc") /\ UNCHANGED booking
           /\ request'[r] = [request[r] EXCEPT !.at = "write"]
  <2>1. /\ request'[r].op = request[r].op
        /\ request'[r].booking = request[r].booking
    BY <1>1, <1>6 DEF RequestRow
  <2>2. Moving(request[r])
    BY <1>6 DEF At, Moving, Movers, OnBooking
  <2>3. Tested(request[r])'
    BY <1>6, <2>1, <2>2 DEF AllTested, Tested
  <2> QED BY <1>2, <1>6, <2>3, StatusesStay
<1>7. CASE /\ UNCHANGED booking
           /\ \/ request'[r] = [request[r] EXCEPT !.at = "generateInvoice"]
              \/ request'[r] = [request[r] EXCEPT !.at = "linkInvoice"]
  <2>1. ~Moving(request'[r]) BY <1>1, <1>7 DEF RequestRow, Moving
  <2> QED BY <1>2, <1>3, <1>7, <2>1, StatusesStay
<1>8. CASE /\ request[r].at = "linkInvoice" /\ Over(r)
           /\ booking' = [booking EXCEPT ![request[r].booking].invoiced = TRUE]
  <2>1. ~Moving(request'[r]) BY <1>8 DEF Over, Idle, Moving
  <2>2. request[r].booking \in Bookings
    BY <1>8 DEF TInv, RequestsComplete, RequestComplete
  <2>3. \A b \in Bookings : booking'[b].status = booking[b].status
    BY <1>8, <2>2 DEF TInv, TypeOK, BookingRow
  <2> QED BY <1>2, <1>3, <2>1, <2>3, StatusesStay
<1>9. ASSUME NEW b \in Bookings, NEW st \in EntryStatuses, NEW s, NEW slot,
             InsertBooking(b, st, s, slot), ~Moving(request'[r])
      PROVE  AllTested' /\ LifecycleStep
  BY <1>2, <1>3, <1>9, BookingInserted, BookingBorn
<1>10. ASSUME NEW b \in Bookings, Creating(request[r]),
              InsertBooking(b, request[r].status, request[r].space, request[r].slot),
              \/ Over(r)
              \/ request'[r] = [Idle EXCEPT !.op = "create", !.at = "readInvoice",
                                            !.booking = b]
       PROVE  AllTested' /\ LifecycleStep
  <2>1. request[r].status \in EntryStatuses
    BY <1>10 DEF Creating, EntryStatuses, TInv, RequestsComplete, RequestComplete
  <2>2. CASE Over(r)
    BY <1>9, <1>10, <2>1, <2>2 DEF Over, Idle, Moving
  <2>3. CASE request'[r] = [Idle EXCEPT !.op = "create", !.at = "readInvoice",
                                        !.booking = b]
    <3>1. ~Moving(request'[r]) BY <2>3 DEF Idle, Moving
    <3> QED BY <1>9, <1>10, <2>1, <3>1
  <2> QED BY <1>10, <2>2, <2>3
<1>11. ASSUME NEW b \in Bookings, NEW s \in Spaces, NEW slot \in Slots,
              InsertBooking(b, "PENDING_PHONE_CONFIRMATION", s, slot),
              request'[r] = [request[r] EXCEPT !.at = "generateInvoice", !.booking = b]
       PROVE  AllTested' /\ LifecycleStep
  <2>1. "PENDING_PHONE_CONFIRMATION" \in EntryStatuses BY DEF EntryStatuses
  <2>2. ~Moving(request'[r]) BY <1>1, <1>11 DEF RequestRow, Moving
  <2> QED BY <1>9, <1>11, <2>1, <2>2
<1> QED BY <1>4, <1>5, <1>6, <1>7, <1>8, <1>10, <1>11 DEF Going

LEMMA StillTested ==
  ASSUME TInv, AllTested, NotPatched, Still
  PROVE  AllTested' /\ LifecycleStep
<1>1. \A q \in Requests : request'[q] = request[q]
  BY DEF Still
<1>2. ASSUME NEW b \in Bookings, Remove(b) PROVE AllTested' /\ LifecycleStep
  <2>1. /\ booking[b].status \in BookingStatus /\ booking'[b].status = "deleted"
        /\ \A c \in Bookings \ {b} : booking'[c] = booking[c]
    BY <1>2 DEF Remove, Deleted, NoBooking, Live, TInv, TypeOK
  <2>2. Statuses' = [Statuses EXCEPT ![b] = "deleted"]
    BY <2>1 DEF Statuses
  <2>3. Lifecycle!Delete(b)
    BY <2>1, <2>2, SameLifecycle DEF Lifecycle!Delete, Statuses
  <2>4. AllTested'
    BY <1>1, <2>1, WaitsTested DEF AllTested
  <2> QED BY <2>3, <2>4 DEF LifecycleStep, Lifecycle!Next
<1>3. ASSUME NEW b \in Bookings, NEW st \in FreeStatuses, Update(b, st)
      PROVE  AllTested' /\ LifecycleStep
  <2>1. SetStatus(b, st) /\ st \in BookingStatus
    BY <1>3, FreeStatusesAreStatuses DEF Update
  <2>2. \A c \in Bookings \ {b} : booking'[c] = booking[c]
    BY <2>1 DEF SetStatus, TInv, TypeOK
  <2>3. AllTested'
    BY <1>1, <1>3, <2>2, WaitsTested DEF AllTested, NotPatched
  <2> QED BY <2>1, <2>3, StatusWritten
<1>4. CASE UNCHANGED booking
  BY <1>1, <1>4, WaitsTested, StatusesStay DEF AllTested
<1> QED BY <1>2, <1>3, <1>4 DEF Still

LEMMA NextTested ==
  TInv /\ AllTested /\ MovesApart /\ [Next /\ NotPatched]_vars
    => AllTested' /\ LifecycleStep
<1> SUFFICES ASSUME TInv, AllTested, MovesApart, [Next /\ NotPatched]_vars
             PROVE  AllTested' /\ LifecycleStep
  OBVIOUS
<1>1. ASSUME NEW r \in Requests, Arrived(r) PROVE AllTested' /\ LifecycleStep
  <2>1. LifecycleStep BY <1>1, StatusesStay DEF Arrived
  <2>2. AllTested'
    BY <1>1 DEF Arrived, AllTested, Tested, Moving
  <2> QED BY <2>1, <2>2
<1>2. CASE Next /\ NotPatched
  BY <1>1, <1>2, EveryStep, GoingTested, StillTested
<1>3. CASE UNCHANGED vars
  <2>1. AllTested' BY <1>3 DEF vars, AllTested, Tested, Moving
  <2> QED BY <1>3, <2>1, StatusesStay DEF vars
<1> QED BY <1>2, <1>3

\* Every handler but PATCH takes its booking along the workflow: the code implements
\* BookingLifecycle, failures halfway and deletions included, as long as nobody else
\* moves a booking that a handler has tested and not yet written.
THEOREM LifecycleIsFollowed ==
  Spec /\ []MovesApart /\ [][NotPatched]_vars => LifecycleFollowed
<1>1. Init => AllTested /\ Lifecycle!Init
  BY DEF Init, AllTested, Tested, Moving, Movers, OnBooking, Idle, Lifecycle!Init,
     NoBooking
<1>2. [Next]_vars /\ [NotPatched]_vars => [Next /\ NotPatched]_vars
  OBVIOUS
<1>3. LifecycleStep <=> [Lifecycle!Next]_[b \in Bookings |-> booking[b].status]
  BY DEF LifecycleStep, Statuses
<1> QED
  BY <1>1, <1>2, <1>3, InitTInv, NextTInv, NextTested, PTL
  DEF Spec, LifecycleFollowed, Lifecycle!Spec

-----------------------------------------------------------------------------
(* Free slots: what POST /bookings found free stays free until it inserts. *)

\* Two periods that do not overlap have no day in common.
LEMMA NoDayShared ==
  ASSUME NEW x \in Slots, NEW y \in Slots, ~Overlap(x, y),
         NEW day \in y[1] .. y[2]
  PROVE  day \notin x[1] .. x[2]
<1>1. x[1] \in Int /\ x[2] \in Int /\ y[1] \in Int /\ y[2] \in Int
  BY SlotsArePeriods
<1> QED BY <1>1 DEF Overlap

\* A booking that goes on holding days holds those it held.
DaysStay ==
  \A b \in Bookings : Blocking(b) /\ Blocking(b)' =>
    booking'[b].space = booking[b].space /\ booking'[b].slot = booking[b].slot

LEMMA SteadyDays == Steady => DaysStay
  BY DEF Steady, DaysStay, Blocking, Live, BookingStatus

LEMMA GoingDays ==
  ASSUME TInv, NEW r \in Requests, Going(r)
  PROVE  DaysStay
<1>1. CASE Write(r)
  <2>1. PICK op \in Movers : /\ At(r, op, "write")
                             /\ SetStatus(request[r].booking, Writes[op])
    BY <1>1 DEF Write
  <2>2. request[r].booking \in Bookings /\ Writes[op] \in BookingStatus
    BY <2>1 DEF At, Writes, Movers, OnBooking, BookingStatus, TInv, RequestsComplete,
                RequestComplete
  <2> QED BY <2>1, <2>2, SetStatusSteady, SteadyDays
<1>2. CASE /\ request[r].at = "linkInvoice"
           /\ booking' = [booking EXCEPT ![request[r].booking].invoiced = TRUE]
  <2>1. request[r].booking \in Bookings
    BY <1>2 DEF TInv, RequestsComplete, RequestComplete
  <2> QED BY <1>2, <2>1 DEF DaysStay, TInv, TypeOK, BookingRow
<1>3. ASSUME NEW b \in Bookings, NEW st, NEW s, NEW slot, InsertBooking(b, st, s, slot)
      PROVE  DaysStay
  BY <1>3, InsertSteady, SteadyDays
<1>4. CASE UNCHANGED booking
  BY <1>4 DEF DaysStay
<1> QED BY <1>1, <1>2, <1>3, <1>4 DEF Going

LEMMA EveryStepDays ==
  ASSUME TInv, [Next]_vars
  PROVE  DaysStay
<1>1. ASSUME NEW b \in Bookings, Remove(b) PROVE DaysStay
  <2>1. /\ booking'[b].status = "deleted"
        /\ \A c \in Bookings \ {b} : booking'[c] = booking[c]
    BY <1>1 DEF Remove, Deleted, NoBooking, TInv, TypeOK
  <2> QED BY <2>1 DEF DaysStay, Blocking, Live, BookingStatus
<1>2. ASSUME NEW b \in Bookings, NEW st \in FreeStatuses, Update(b, st) PROVE DaysStay
  BY <1>2, FreeStatusesAreStatuses, SetStatusSteady, SteadyDays DEF Update
<1>3. CASE UNCHANGED booking
  BY <1>3 DEF DaysStay
<1>4. Still => DaysStay
  BY <1>1, <1>2, <1>3 DEF Still
<1> QED BY <1>3, <1>4, EveryStep, GoingDays DEF Arrived

\* A request comes to insert a booking by arriving only.
LEMMA NoneTurnsToCreate ==
  ASSUME TInv, NEW r \in Requests, Going(r)
  PROVE  ~Creating(request'[r])
<1>1. request[r] \in RequestRow
  BY DEF TInv, TypeOK
<1>2. CASE Over(r)
  BY <1>2 DEF Over, Idle, Creating
<1>3. CASE /\ At(r, "finalize", "contractDoc")
           /\ request'[r] = [request[r] EXCEPT !.at = "write"]
  BY <1>1, <1>3 DEF At, RequestRow, Creating
<1>4. CASE \/ request'[r] = [request[r] EXCEPT !.at = "generateInvoice"]
           \/ request'[r] = [request[r] EXCEPT !.at = "linkInvoice"]
  BY <1>1, <1>4 DEF RequestRow, Creating
<1>5. ASSUME NEW b \in Bookings,
             \/ request'[r] = [Idle EXCEPT !.op = "create", !.at = "readInvoice",
                                           !.booking = b]
             \/ request'[r] = [request[r] EXCEPT !.at = "generateInvoice", !.booking = b]
      PROVE  ~Creating(request'[r])
  BY <1>1, <1>5 DEF Idle, RequestRow, Creating
<1> QED BY <1>2, <1>3, <1>4, <1>5 DEF Going, Write

\* A booking is born with a status of POST only when POST inserts it.
LEMMA OnlyPostCreates ==
  ASSUME TInv, "PENDING_PHONE_CONFIRMATION" \notin FreeStatuses,
         NEW r \in Requests, Going(r), NEW b \in Bookings,
         booking[b].status = "unborn", booking'[b].status \in CreateStatuses
  PROVE  /\ Creating(request[r])
         /\ booking'[b].space = request[r].space /\ booking'[b].slot = request[r].slot
         /\ \A c \in Bookings \ {b} : booking'[c] = booking[c]
<1>1. ~Write(r)
  BY NoneUnborn DEF Write, SetStatus, Live, TInv, TypeOK
<1>2. booking' # booking
  BY NoneUnborn
<1>3. ~ /\ request[r].at = "linkInvoice"
        /\ booking' = [booking EXCEPT ![request[r].booking].invoiced = TRUE]
  <2> SUFFICES ASSUME request[r].at = "linkInvoice",
                      booking' = [booking EXCEPT ![request[r].booking].invoiced = TRUE]
               PROVE  FALSE
    OBVIOUS
  <2>1. request[r].booking \in Bookings
    BY DEF TInv, RequestsComplete, RequestComplete
  <2>2. booking'[b].status = booking[b].status
    BY <2>1 DEF TInv, TypeOK, BookingRow
  <2> QED BY <2>2, NoneUnborn
<1>4. ASSUME NEW c \in Bookings, NEW s, NEW slot,
             InsertBooking(c, "PENDING_PHONE_CONFIRMATION", s, slot)
      PROVE  FALSE
  <2>1. booking'[c].status = "PENDING_PHONE_CONFIRMATION"
    BY <1>4, BookingInserted
  <2>2. c # b BY <2>1 DEF CreateStatuses
  <2> QED BY <1>4, <2>2, BookingInserted, NoneUnborn
<1>5. PICK c \in Bookings :
        /\ Creating(request[r])
        /\ InsertBooking(c, request[r].status, request[r].space, request[r].slot)
  BY <1>1, <1>2, <1>3, <1>4 DEF Going
<1>6. c = b
  BY <1>5, BookingInserted, NoneUnborn
<1> QED BY <1>5, <1>6, BookingInserted

LEMMA FreeSlotTaken ==
  ASSUME TInv, AllFree, "PENDING_PHONE_CONFIRMATION" \notin FreeStatuses,
         NEW r \in Requests, Going(r)
  PROVE  FreeSlotStep
<1> SUFFICES ASSUME NEW b \in Bookings, NEW c \in Bookings \ {b},
                    booking[b].status = "unborn", booking'[b].status \in CreateStatuses,
                    booking[c].status \in
                      BookingStatus \ {"CANCELLED", "NO_SHOW", "REFUSED"},
                    booking[c].space = booking'[b].space,
                    NEW day \in booking'[b].slot[1] .. booking'[b].slot[2]
             PROVE  day \notin booking[c].slot[1] .. booking[c].slot[2]
  BY DEF FreeSlotStep
<1>1. /\ Creating(request[r])
      /\ booking'[b].space = request[r].space /\ booking'[b].slot = request[r].slot
  BY OnlyPostCreates
<1>2. ~Conflict(request[r].space, request[r].slot) /\ request[r].slot \in Slots
  BY <1>1 DEF AllFree, FreeStill, Creating, TInv, RequestsComplete, RequestComplete
<1>3. Blocking(c) /\ booking[c].slot \in Slots
  BY DEF Blocking, Live, TInv, RowsComplete
<1>4. ~Overlap(booking[c].slot, request[r].slot)
  BY <1>1, <1>2, <1>3 DEF Conflict
<1> QED BY <1>1, <1>2, <1>3, <1>4, NoDayShared

\* Only a step of a request gives birth to a booking.
LEMMA StillBearsNone ==
  ASSUME TInv, Still
  PROVE  FreeSlotStep
<1>1. ASSUME NEW b \in Bookings, NEW st \in FreeStatuses, Update(b, st),
             NEW c \in Bookings, booking[c].status = "unborn"
      PROVE  booking'[c].status \notin CreateStatuses
  <2>1. c # b /\ booking'[c] = booking[c]
    BY <1>1, NoneUnborn DEF Update, SetStatus, Live, TInv, TypeOK
  <2> QED BY <1>1, <2>1, NoneUnborn
<1>2. ASSUME NEW b \in Bookings, Remove(b), NEW c \in Bookings,
             booking[c].status = "unborn"
      PROVE  booking'[c].status \notin CreateStatuses
  <2>1. c # b /\ booking'[c] = booking[c]
    BY <1>2, NoneUnborn DEF Remove, Live, TInv, TypeOK
  <2> QED BY <1>2, <2>1, NoneUnborn
<1> QED BY <1>1, <1>2, NoneUnborn DEF Still, FreeSlotStep

\* A creation that waits still finds its period free.
LEMMA WaitsFree ==
  ASSUME AllFree, SpaceKept, DaysStay, NEW q \in Requests, request'[q] = request[q]
  PROVE  FreeStill(request[q])'
<1> SUFFICES ASSUME Creating(request[q]),
                    NEW b \in Bookings, Blocking(b)',
                    booking'[b].space = request[q].space,
                    Overlap(booking'[b].slot, request[q].slot)
             PROVE  FALSE
  BY DEF FreeStill, Creating, Conflict
<1>1. Blocking(b)
  BY DEF SpaceKept
<1>2. booking[b].space = request[q].space /\ booking[b].slot = booking'[b].slot
  BY <1>1 DEF DaysStay
<1> QED BY <1>1, <1>2 DEF AllFree, FreeStill, Conflict

LEMMA NextFree ==
  ASSUME "PENDING_PHONE_CONFIRMATION" \notin FreeStatuses
  PROVE  TInv /\ AllFree /\ [Next /\ SpaceKept]_vars => AllFree' /\ FreeSlotStep
<1> SUFFICES ASSUME TInv, AllFree, [Next /\ SpaceKept]_vars
             PROVE  AllFree' /\ FreeSlotStep
  OBVIOUS
<1>1. CASE UNCHANGED vars
  <2>1. AllFree'
    BY <1>1 DEF vars, AllFree, FreeStill, Creating, Conflict, Blocking, Live
  <2> QED BY <1>1, <2>1, NoneUnborn DEF vars, FreeSlotStep
<1>2. CASE Next /\ SpaceKept
  <2>1. DaysStay
    BY EveryStepDays
  <2>2. ASSUME NEW r \in Requests, Arrived(r) PROVE AllFree' /\ FreeSlotStep
    <3>1. AllFree'
      BY <2>2 DEF Arrived, AllFree, FreeStill, Creating, Conflict, Blocking, Live
    <3> QED BY <2>2, <3>1, NoneUnborn DEF Arrived, FreeSlotStep
  <2>3. ASSUME NEW r \in Requests, Alone(r), Going(r) PROVE AllFree' /\ FreeSlotStep
    <3>1. ASSUME NEW q \in Requests PROVE FreeStill(request[q])'
      <4>1. CASE q = r
        BY <2>3, <4>1, NoneTurnsToCreate DEF FreeStill, Creating
      <4>2. CASE q # r
        BY <1>2, <2>1, <2>3, <4>2, WaitsFree DEF Alone
      <4> QED BY <4>1, <4>2
    <3> QED BY <2>3, <3>1, FreeSlotTaken DEF AllFree
  <2>4. CASE Still
    BY <1>2, <2>1, <2>4, WaitsFree, StillBearsNone DEF Still, AllFree
  <2> QED BY <2>2, <2>3, <2>4, EveryStep
<1> QED BY <1>1, <1>2

\* POST /bookings never takes a day that another booking of the space holds, as
\* long as none begins to hold days there between its test and its insertion
\* (PENDING_PHONE_CONFIRMATION is accept's alone).
THEOREM CreatesOnFreeSlots ==
  ASSUME "PENDING_PHONE_CONFIRMATION" \notin FreeStatuses
  PROVE  Spec /\ [][SpaceKept]_vars => CreatedOnFreeSlot
<1>1. Init => AllFree
  BY DEF Init, AllFree, FreeStill, Creating, Idle
<1>2. [Next]_vars /\ [SpaceKept]_vars => [Next /\ SpaceKept]_vars
  OBVIOUS
<1> QED
  BY <1>1, <1>2, InitTInv, NextTInv, NextFree, PTL
  DEF Spec, CreatedOnFreeSlot, FreeSlotStep

-----------------------------------------------------------------------------
(* Invoices: a booking that is about to be invoiced has none linked. *)

\* An invoice is linked by a request that generated one.
LEMMA LinksOnly ==
  ASSUME TInv, NEW r \in Requests, Going(r), NEW b \in Bookings,
         booking'[b].invoiced, ~booking[b].invoiced
  PROVE  request[r].at = "linkInvoice" /\ request[r].booking = b
<1>1. ASSUME Write(r) PROVE FALSE
  <2>1. \A c \in Bookings : booking'[c].invoiced = booking[c].invoiced
    <3>1. PICK s : SetStatus(request[r].booking, s) BY <1>1 DEF Write
    <3> QED BY <3>1 DEF SetStatus, TInv, TypeOK, BookingRow
  <2> QED BY <2>1
<1>2. ASSUME NEW c \in Bookings, NEW st, NEW s, NEW slot, InsertBooking(c, st, s, slot)
      PROVE  FALSE
  <2>1. ~booking'[c].invoiced /\ \A d \in Bookings \ {c} : booking'[d] = booking[d]
    BY <1>2, BookingInserted
  <2> QED BY <2>1
<1>3. booking' # booking
  OBVIOUS
<1>4. CASE /\ request[r].at = "linkInvoice"
           /\ booking' = [booking EXCEPT ![request[r].booking].invoiced = TRUE]
  BY <1>4 DEF TInv, TypeOK
<1> QED BY <1>1, <1>2, <1>3, <1>4 DEF Going

LEMMA StillUnlinked ==
  ASSUME TInv, Still, NEW b \in Bookings, ~booking[b].invoiced
  PROVE  ~booking'[b].invoiced
<1>1. ASSUME NEW c \in Bookings, Remove(c) PROVE ~booking'[b].invoiced
  <2>1. ~booking'[c].invoiced /\ \A d \in Bookings \ {c} : booking'[d] = booking[d]
    BY <1>1 DEF Remove, Deleted, NoBooking, TInv, TypeOK
  <2> QED BY <2>1
<1>2. ASSUME NEW c \in Bookings, NEW st \in FreeStatuses, Update(c, st)
      PROVE  ~booking'[b].invoiced
  BY <1>2 DEF Update, SetStatus, TInv, TypeOK, BookingRow
<1> QED BY <1>1, <1>2 DEF Still

\* A request that goes on to generate an invoice has just found none linked, or
\* has just inserted the booking.
LEMMA TurnsUnlinked ==
  ASSUME TInv, NEW r \in Requests, Going(r)
  PROVE  Unlinked(request[r])'
<1>1. request[r] \in RequestRow
  BY DEF TInv, TypeOK
<1> SUFFICES ASSUME request'[r].at = "generateInvoice"
             PROVE  ~booking'[request'[r].booking].invoiced
  BY DEF Unlinked
<1>2. CASE Over(r) BY <1>2 DEF Over, Idle
<1>3. CASE \/ request'[r] = [request[r] EXCEPT !.at = "write"]
           \/ request'[r] = [request[r] EXCEPT !.at = "linkInvoice"]
  BY <1>1, <1>3 DEF RequestRow
<1>4. CASE /\ UNCHANGED booking /\ ~booking[request[r].booking].invoiced
           /\ request'[r] = [request[r] EXCEPT !.at = "generateInvoice"]
  BY <1>1, <1>4 DEF RequestRow
<1>5. ASSUME NEW b \in Bookings,
             request'[r] = [Idle EXCEPT !.op = "create", !.at = "readInvoice",
                                        !.booking = b]
      PROVE  FALSE
  BY <1>5 DEF Idle
<1>6. ASSUME NEW b \in Bookings, NEW s \in Spaces, NEW slot \in Slots,
             InsertBooking(b, "PENDING_PHONE_CONFIRMATION", s, slot),
             request'[r] = [request[r] EXCEPT !.at = "generateInvoice", !.booking = b]
      PROVE  ~booking'[request'[r].booking].invoiced
  <2>1. request'[r].booking = b BY <1>1, <1>6 DEF RequestRow
  <2> QED BY <1>6, <2>1, BookingInserted
<1> QED BY <1>2, <1>3, <1>4, <1>5, <1>6 DEF Going, Write

LEMMA GoingUnlinked ==
  ASSUME TInv, AllUnlinked, InvoicingApart, NEW r \in Requests, Alone(r), Going(r)
  PROVE  AllUnlinked' /\ InvoiceStep
<1>1. ASSUME NEW q \in Requests, q # r PROVE Unlinked(request[q])'
  <2> SUFFICES ASSUME request[q].at = "generateInvoice"
               PROVE  ~booking'[request[q].booking].invoiced
    BY <1>1 DEF Alone, Unlinked
  <2>1. request[q].booking \in Bookings /\ ~booking[request[q].booking].invoiced
    BY DEF AllUnlinked, Unlinked, TInv, RequestsComplete, RequestComplete
  <2>2. ~(request[r].at = "linkInvoice" /\ request[r].booking = request[q].booking)
    BY <1>1 DEF InvoicingApart, Invoicing
  <2> QED BY <2>1, <2>2, LinksOnly
<1>2. AllUnlinked'
  BY <1>1, TurnsUnlinked DEF AllUnlinked
<1>3. CASE /\ request[r].at = "generateInvoice"
           /\ invoices' = [invoices EXCEPT ![request[r].booking] = @ + 1]
  <2>1. ~booking[request[r].booking].invoiced
    BY <1>3 DEF AllUnlinked, Unlinked
  <2> QED BY <1>2, <1>3, <2>1 DEF InvoiceStep, TInv, TypeOK
<1>4. CASE UNCHANGED invoices
  BY <1>2, <1>4 DEF InvoiceStep
<1> QED BY <1>3, <1>4 DEF Going, Write

LEMMA NextUnlinked ==
  TInv /\ AllUnlinked /\ InvoicingApart /\ [Next]_vars => AllUnlinked' /\ InvoiceStep
<1> SUFFICES ASSUME TInv, AllUnlinked, InvoicingApart, [Next]_vars
             PROVE  AllUnlinked' /\ InvoiceStep
  OBVIOUS
<1>1. ASSUME NEW r \in Requests, Arrived(r) PROVE AllUnlinked' /\ InvoiceStep
  BY <1>1 DEF Arrived, AllUnlinked, Unlinked, InvoiceStep
<1>2. CASE Still
  <2>1. \A q \in Requests : request[q].at = "generateInvoice" =>
          request[q].booking \in Bookings /\ ~booking[request[q].booking].invoiced
    BY DEF AllUnlinked, Unlinked, TInv, RequestsComplete, RequestComplete
  <2>2. AllUnlinked'
    BY <1>2, <2>1, StillUnlinked DEF Still, AllUnlinked, Unlinked
  <2> QED BY <1>2, <2>2 DEF Still, InvoiceStep
<1> QED BY <1>1, <1>2, EveryStep, GoingUnlinked

\* A booking whose invoice is linked is not invoiced again, as long as no two
\* requests generate or link an invoice for one booking.
THEOREM InvoicesAreIssuedOnce == Spec /\ []InvoicingApart => InvoicedOnce
<1>1. Init => AllUnlinked
  BY DEF Init, AllUnlinked, Unlinked, Idle
<1> QED
  BY <1>1, InitTInv, NextTInv, NextUnlinked, PTL
  DEF Spec, InvoicedOnce, InvoiceStep

-----------------------------------------------------------------------------
(* Requests that come one at a time are apart in all of these ways. *)

OneAtATime == \A p, q \in Requests : p = q

\* The only request in flight moves with every step: a handler of one step, too,
\* needs a request slot that is idle.
LEMMA OnlyOneGoesOn ==
  ASSUME TInv, OneAtATime, Next, NEW r \in Requests, request[r] # Idle
  PROVE  request'[r] # request[r]
<1>1. ASSUME Going(r), request[r] # Idle, request'[r] = request[r] PROVE FALSE
  <2>1. request[r] \in RequestRow
    BY DEF TInv, TypeOK
  <2>2. ~Over(r) BY <1>1 DEF Over
  <2>3. ASSUME NEW at, request'[r] = [request[r] EXCEPT !.at = at]
        PROVE  request[r].at = at
    BY <1>1, <2>1, <2>3 DEF RequestRow
  <2>4. ~Creating(request[r])
    BY <1>1, NoneTurnsToCreate
  <2>5. ~Write(r)
    BY <1>1 DEF Write, At, Moving
  <2>6. ASSUME NEW b \in Bookings, At(r, "accept", "write"),
               request'[r] = [request[r] EXCEPT !.at = "generateInvoice", !.booking = b]
        PROVE  FALSE
    BY <1>1, <2>1, <2>6 DEF At, RequestRow
  <2> QED BY <1>1, <2>2, <2>3, <2>4, <2>5, <2>6 DEF Going, At
<1>2. ~Immediate
  BY DEF OneAtATime, Immediate
<1>3. ~Arrival(r)
  BY DEF Arrival, Create, Approve, Reject, Cancel, CheckIn, CheckOut, ConfirmPhone,
     PhoneUnreachable, MarkDocumentsPending, Finalize, AddDocument, Apply, Accept,
     Refuse, Review, Begin, Enter
<1>4. Continue(r) \/ Fail(r)
  BY <1>2, <1>3 DEF Next, OneAtATime
<1> QED BY <1>1, <1>4, ContinueGoes, FailGoes

LEMMA OneIsApart ==
  ASSUME OneAtATime
  PROVE  /\ MovesApart /\ InvoicingApart
         /\ TInv /\ [Next]_vars => [NotPatched]_vars /\ [SpaceKept]_vars
<1>1. MovesApart /\ InvoicingApart
  BY DEF OneAtATime, MovesApart, InvoicingApart
<1>2. ASSUME TInv, Next PROVE NotPatched
  <2>1. \A r \in Requests : Moving(request[r]) => request[r] # Idle
    BY DEF Moving, Idle
  <2> QED BY <1>2, <2>1, OnlyOneGoesOn DEF NotPatched, Update
<1>3. ASSUME TInv, Next PROVE SpaceKept
  <2>1. \A r \in Requests : Creating(request[r]) => request[r] # Idle
    BY DEF Creating, Idle
  <2> QED BY <1>3, <2>1, OnlyOneGoesOn DEF SpaceKept
<1> QED BY <1>1, <1>2, <1>3

\* All three hold, with no condition left on behaviours, of a server that runs one
\* request at a time.
COROLLARY OneAtATimeIsSafe ==
  ASSUME OneAtATime
  PROVE  /\ Spec => LifecycleFollowed
         /\ "PENDING_PHONE_CONFIRMATION" \notin FreeStatuses =>
              (Spec => CreatedOnFreeSlot)
         /\ Spec => InvoicedOnce
<1>1. Spec => []MovesApart
  BY OneIsApart, PTL
<1>2. Spec => []InvoicingApart
  BY OneIsApart, PTL
<1>3. TInv /\ [Next]_vars => [NotPatched]_vars /\ [SpaceKept]_vars
  BY OneIsApart
<1>4. Spec => [][NotPatched]_vars /\ [][SpaceKept]_vars
  BY <1>3, InitTInv, NextTInv, PTL DEF Spec
<1>5. (Spec => LifecycleFollowed) /\ (Spec => InvoicedOnce)
  BY <1>1, <1>2, <1>4, LifecycleIsFollowed, InvoicesAreIssuedOnce
<1>6. ASSUME "PENDING_PHONE_CONFIRMATION" \notin FreeStatuses
      PROVE  Spec => CreatedOnFreeSlot
  BY <1>4, <1>6, CreatesOnFreeSlots
<1> QED BY <1>5, <1>6
=============================================================================
