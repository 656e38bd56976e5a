------------------------- MODULE Maintenance_proofs -------------------------
(***************************************************************************)
(* Proofs about Maintenance.                                               *)
(*                                                                         *)
(* Every write of a ticket is made by one request, to the ticket it read.  *)
(* WriteMove says, for each of them, what the new row keeps of the old     *)
(* one; the invariants below use that fact and not the actions.            *)
(***************************************************************************)
EXTENDS Maintenance, TLAPS

\* What a write by request r leaves of a row.
Kept(r, row, new) ==
  /\ new \in Row
  /\ new.status # "none"
  /\ At(r, "assign") => /\ new.status = "ASSIGNED" /\ new.resolved = row.resolved
                        /\ new.assigned_to = request[r].to
  /\ At(r, "claim") => /\ new.status = row.status /\ new.resolved = row.resolved
                       /\ new.assigned_to = request[r].who
  /\ request[r].op \in {"start", "resolve", "close", "cancel", "status"} =>
       new.assigned_to = row.assigned_to
  /\ request[r].op \in {"start", "cancel"} => new.status \notin {"RESOLVED", "CLOSED"}
  /\ row.resolved => new.resolved \/ new.status = "deleted"
  /\ At(r, "resolve") => new.status = "RESOLVED" /\ new.resolved
  /\ At(r, "close") => new.status = "CLOSED"
  /\ At(r, "status") => /\ new.status \in Statuses
                        /\ new.status = "RESOLVED" => new.resolved
  /\ At(r, "edit") => \/ new.status = row.status
                      \/ new.status = request[r].body.status
  /\ At(r, "remove") => new.status = "deleted"

\* What every write has in common.
LEMMA WriteOne ==
  ASSUME TypeOK, NEW r \in Requests, NEW op, op # "idle", NEW new, Write(r, op, new)
  PROVE  /\ request[r] \in Request /\ request[r].ticket \in Tickets
         /\ request[r].op = op
         /\ RowOf(r) \in Row /\ RowOf(r).status \in TicketStatus
         /\ new.assigned_to \in Technicians \cup {None}
         /\ ticket' = [ticket EXCEPT ![request[r].ticket] = new]
         /\ request' = [request EXCEPT ![r] = Idle]
         /\ space' = space /\ staff' = staff
  <1>1. request[r].op = op /\ Exists(request[r].ticket)
    BY DEF Write, At
  <1>2. request[r] \in Request
    BY <1>1 DEF TypeOK, Idle
  <1>3. request[r].ticket \in Tickets
    BY <1>2 DEF Request
  <1>4. RowOf(r) \in Row /\ RowOf(r).status \in TicketStatus
    BY <1>1, <1>3 DEF TypeOK, RowOf, Exists
  <1>5. new.assigned_to \in Technicians \cup {None}
    BY <1>4 DEF Write, TypeOK, Row
  <1>6. /\ ticket' = [ticket EXCEPT ![request[r].ticket] = new]
        /\ request' = [request EXCEPT ![r] = Idle]
        /\ space' = space /\ staff' = staff
    BY DEF Write, Finish
  <1> QED
    BY <1>1, <1>2, <1>3, <1>4, <1>5, <1>6

Moved(r, new) ==
  /\ request[r] \in Request /\ request[r].ticket \in Tickets
  /\ request[r].op \in {"assign", "claim", "start", "resolve", "close", "cancel",
                        "status", "edit", "remove"}
  /\ RowOf(r) \in Row /\ RowOf(r).status \in TicketStatus
  /\ ticket' = [ticket EXCEPT ![request[r].ticket] = new]
  /\ request' = [request EXCEPT ![r] = Idle]
  /\ space' = space /\ staff' = staff
  /\ Kept(r, RowOf(r), new)

LEMMA WriteMove ==
  ASSUME TypeOK, NEW r \in Requests, Writes(r)
  PROVE  \E new : Moved(r, new)
  <1>1. CASE assignWrite(r)
    <2> DEFINE new == [RowOf(r) EXCEPT !.status = "ASSIGNED", !.assigned_to = request[r].to]
    <2>1. Write(r, "assign", new)
      BY <1>1 DEF assignWrite
    <2>2. /\ request[r] \in Request /\ request[r].op = "assign" /\ RowOf(r) \in Row
          /\ RowOf(r).status \in TicketStatus
          /\ new.assigned_to \in Technicians \cup {None}
      BY <2>1, WriteOne
    <2>3. Kept(r, RowOf(r), new)
      BY <2>2 DEF Kept, Row, TicketStatus, At
    <2> HIDE DEF new
    <2> QED
      BY <2>1, <2>3, WriteOne DEF Moved
  <1>2. CASE acceptWrite(r)
    <2> DEFINE new == [RowOf(r) EXCEPT !.assigned_to = request[r].who]
    <2>1. Write(r, "claim", new)
      BY <1>2 DEF acceptWrite
    <2>2. /\ request[r] \in Request /\ request[r].op = "claim" /\ RowOf(r) \in Row
          /\ RowOf(r).status \in TicketStatus
          /\ new.assigned_to \in Technicians \cup {None}
      BY <2>1, WriteOne
    <2>3. Kept(r, RowOf(r), new)
      BY <2>2 DEF Kept, Row, TicketStatus, At
    <2> HIDE DEF new
    <2> QED
      BY <2>1, <2>3, WriteOne DEF Moved
  <1>3. CASE startProgressWrite(r)
    <2> DEFINE new == [RowOf(r) EXCEPT !.status = "IN_PROGRESS"]
    <2>1. Write(r, "start", new)
      BY <1>3 DEF startProgressWrite
    <2>2. /\ request[r] \in Request /\ request[r].op = "start" /\ RowOf(r) \in Row
          /\ RowOf(r).status \in TicketStatus
          /\ new.assigned_to \in Technicians \cup {None}
      BY <2>1, WriteOne
    <2>3. Kept(r, RowOf(r), new)
      BY <2>2 DEF Kept, Row, TicketStatus, At
    <2> HIDE DEF new
    <2> QED
      BY <2>1, <2>3, WriteOne DEF Moved
  <1>4. CASE resolveWrite(r)
    <2> DEFINE new == [RowOf(r) EXCEPT !.status = "RESOLVED", !.resolved = TRUE]
    <2>1. Write(r, "resolve", new)
      BY <1>4 DEF resolveWrite
    <2>2. /\ request[r] \in Request /\ request[r].op = "resolve" /\ RowOf(r) \in Row
          /\ RowOf(r).status \in TicketStatus
          /\ new.assigned_to \in Technicians \cup {None}
      BY <2>1, WriteOne
    <2>3. Kept(r, RowOf(r), new)
      BY <2>2 DEF Kept, Row, TicketStatus, At
    <2> HIDE DEF new
    <2> QED
      BY <2>1, <2>3, WriteOne DEF Moved
  <1>5. CASE closeWrite(r)
    <2> DEFINE new == [RowOf(r) EXCEPT !.status = "CLOSED"]
    <2>1. Write(r, "close", new)
      BY <1>5 DEF closeWrite
    <2>2. /\ request[r] \in Request /\ request[r].op = "close" /\ RowOf(r) \in Row
          /\ RowOf(r).status \in TicketStatus
          /\ new.assigned_to \in Technicians \cup {None}
      BY <2>1, WriteOne
    <2>3. Kept(r, RowOf(r), new)
      BY <2>2 DEF Kept, Row, TicketStatus, At
    <2> HIDE DEF new
    <2> QED
      BY <2>1, <2>3, WriteOne DEF Moved
  <1>6. CASE cancelWrite(r)
    <2> DEFINE new == [RowOf(r) EXCEPT !.status = "CANCELLED"]
    <2>1. Write(r, "cancel", new)
      BY <1>6 DEF cancelWrite
    <2>2. /\ request[r] \in Request /\ request[r].op = "cancel" /\ RowOf(r) \in Row
          /\ RowOf(r).status \in TicketStatus
          /\ new.assigned_to \in Technicians \cup {None}
      BY <2>1, WriteOne
    <2>3. Kept(r, RowOf(r), new)
      BY <2>2 DEF Kept, Row, TicketStatus, At
    <2> HIDE DEF new
    <2> QED
      BY <2>1, <2>3, WriteOne DEF Moved
  <1>7. CASE updateStatusWrite(r)
    <2> DEFINE new == [RowOf(r) EXCEPT !.status = request[r].status,
                               !.resolved = @ \/ request[r].status = "RESOLVED"]
    <2>1. Write(r, "status", new)
      BY <1>7 DEF updateStatusWrite
    <2>2. /\ request[r] \in Request /\ request[r].op = "status" /\ RowOf(r) \in Row
          /\ RowOf(r).status \in TicketStatus
          /\ new.assigned_to \in Technicians \cup {None}
      BY <2>1, WriteOne
    <2>3. Kept(r, RowOf(r), new)
      BY <2>2, EditsValidated DEF Kept, Row, TicketStatus, At, Request
    <2> HIDE DEF new
    <2> QED
      BY <2>1, <2>3, WriteOne DEF Moved
  <1>8. CASE updateWrite(r)
    <2> DEFINE new == [RowOf(r) EXCEPT !.status = Given(request[r].body.status, @),
                               !.assigned_to = Given(request[r].body.assigned_to, @)]
    <2>1. Write(r, "edit", new)
      BY <1>8 DEF updateWrite
    <2>2. /\ request[r] \in Request /\ request[r].op = "edit" /\ RowOf(r) \in Row
          /\ RowOf(r).status \in TicketStatus
          /\ new.assigned_to \in Technicians \cup {None}
      BY <2>1, WriteOne
    <2>4. request[r].body \in Edit
      BY <2>2, EditsValidated DEF Request
    <2>5. new.status \in {RowOf(r).status, request[r].body.status} \cap TicketStatus
      BY <2>2, <2>4 DEF Given, Edit, Row
    <2>6. new.resolved = RowOf(r).resolved /\ new \in Row
      BY <2>2, <2>5 DEF Row
    <2>3. Kept(r, RowOf(r), new)
      BY <2>2, <2>5, <2>6 DEF Kept, At, TicketStatus
    <2> HIDE DEF new
    <2> QED
      BY <2>1, <2>3, WriteOne DEF Moved
  <1>9. CASE removeWrite(r)
    <2> DEFINE new == [NoTicket EXCEPT !.status = "deleted"]
    <2>1. Write(r, "remove", new)
      BY <1>9 DEF removeWrite
    <2>2. /\ request[r] \in Request /\ request[r].op = "remove" /\ RowOf(r) \in Row
          /\ RowOf(r).status \in TicketStatus
          /\ new.assigned_to \in Technicians \cup {None}
      BY <2>1, WriteOne
    <2>3. Kept(r, RowOf(r), new)
      BY <2>2 DEF Kept, Row, TicketStatus, At, NoTicket
    <2> HIDE DEF new
    <2> QED
      BY <2>1, <2>3, WriteOne DEF Moved
  <1> QED
    BY <1>1, <1>2, <1>3, <1>4, <1>5, <1>6, <1>7, <1>8, <1>9 DEF Writes

\* What a request read, as far as its write relies on it.
Truth(m) ==
  /\ Exists(m.ticket)
  /\ m.op \in {"start", "resolve", "close"} =>
       m.who = Staff \/ m.who = ticket[m.ticket].assigned_to
  /\ m.op \in {"cancel", "status", "edit", "remove", "block"} => m.who = Staff
  /\ m.op = "assign" => /\ ticket[m.ticket].assigned_to \in {None, m.to}
                        /\ m.who \in {Staff, m.to}
  /\ m.op \in {"accept", "claim"} => ticket[m.ticket].assigned_to = None
  /\ m.op \in {"assign", "accept", "claim", "start", "resolve", "close", "cancel"} =>
       ticket[m.ticket].status \notin {"CLOSED", "CANCELLED"}
  /\ m.op = "close" => ticket[m.ticket].status = "RESOLVED"

\* A request reads and goes on.
Read(r, m) ==
  /\ m \in Request /\ Truth(m)
  /\ request' = [request EXCEPT ![r] = m]
  /\ UNCHANGED tables

Ended(r) ==
  /\ request' = [request EXCEPT ![r] = Idle]
  /\ ticket' = ticket /\ staff' = staff /\ space' \subseteq Spaces

Born(r, t) ==
  \E to \in staff \cup {None} :
    /\ ticket[t] = NoTicket
    /\ ticket' = [ticket EXCEPT ![t] =
         [status |-> IF to = None THEN "OPEN" ELSE "ASSIGNED", assigned_to |-> to,
          resolved |-> FALSE]]
    /\ \/ request' = request
       \/ \E s \in Spaces :
            request' = [request EXCEPT
              ![r] = [op |-> "block", ticket |-> t, who |-> Staff, space |-> s]]
    /\ UNCHANGED <<space, staff>>

LEMMA StartsMove ==
  ASSUME TypeOK, NEW r \in Requests, NEW t \in Tickets, Starts(r, t)
  PROVE  Born(r, t) \/ \E m : Read(r, m)
  <1>1. ASSUME NEW to \in Technicians \cup {None}, NEW urgent \in BOOLEAN,
               NEW s \in Spaces, create(r, t, to, urgent, s)
        PROVE  Born(r, t)
    BY <1>1 DEF create, Begin, Born
  <1>2. ASSUME NEW w \in Technicians, assign(r, t, w) PROVE \E m : Read(r, m)
    <2> DEFINE m == [op |-> "assign", ticket |-> t, who |-> Staff, to |-> w]
    <2>1. m \in Request
      BY DEF Request, Who
    <2>2. Truth(m)
      BY <1>2 DEF assign, Assignable, Truth
    <2> QED
      BY <1>2, <2>1, <2>2 DEF assign, Begin, Read
  <1>3. ASSUME NEW w \in Technicians, accept(r, t, w) PROVE \E m : Read(r, m)
    <2> DEFINE m == [op |-> IF ticket[t].status = "OPEN" THEN "accept" ELSE "claim",
                     ticket |-> t, who |-> w]
    <2>1. m \in Request
      BY DEF Request, Who
    <2>2. Truth(m)
      BY <1>3 DEF accept, Truth
    <2> QED
      BY <1>3, <2>1, <2>2 DEF accept, Begin, Read
  <1>4. ASSUME NEW w \in Who, NEW op \in {"start", "resolve", "close", "cancel"},
               NEW statuses, Step(r, t, w, op, statuses),
               statuses \cap {"CLOSED", "CANCELLED"} = {},
               op = "close" => statuses = {"RESOLVED"}, op = "cancel" => w = Staff
        PROVE  \E m : Read(r, m)
    <2> DEFINE m == [op |-> op, ticket |-> t, who |-> w]
    <2>1. m \in Request
      BY DEF Request
    <2>2. Truth(m)
      BY <1>4 DEF Step, assertTicketActor, Truth
    <2> QED
      BY <1>4, <2>1, <2>2 DEF Step, Begin, Read
  <1>5. ASSUME NEW w \in Who, startProgress(r, t, w) \/ resolve(r, t, w) \/ close(r, t, w)
        PROVE  \E m : Read(r, m)
    BY <1>4, <1>5 DEF startProgress, resolve, close
  <1>6. ASSUME cancel(r, t) PROVE \E m : Read(r, m)
    BY <1>4, <1>6 DEF cancel, Who
  <1>7. ASSUME remove(r, t) PROVE \E m : Read(r, m)
    <2> DEFINE m == [op |-> "remove", ticket |-> t, who |-> Staff]
    <2>1. m \in Request
      BY DEF Request, Who
    <2>2. Truth(m)
      BY <1>7 DEF remove, Truth
    <2> QED
      BY <1>7, <2>1, <2>2 DEF remove, Begin, Read
  <1>8. ASSUME NEW status \in Statuses, updateStatus(r, t, status) PROVE \E m : Read(r, m)
    <2> DEFINE m == [op |-> "status", ticket |-> t, who |-> Staff, status |-> status]
    <2>1. m \in Request
      BY DEF Request, Who
    <2>2. Truth(m)
      BY <1>8 DEF updateStatus, Truth
    <2> QED
      BY <1>8, <2>1, <2>2 DEF updateStatus, Begin, Read
  <1>9. ASSUME NEW body \in Edits, update(r, t, body) PROVE \E m : Read(r, m)
    <2> DEFINE m == [op |-> "edit", ticket |-> t, who |-> Staff, body |-> body]
    <2>1. m \in Request
      BY DEF Request, Who
    <2>2. Truth(m)
      BY <1>9 DEF update, Truth
    <2> QED
      BY <1>9, <2>1, <2>2 DEF update, Begin, Read
  <1> QED
    BY <1>1, <1>2, <1>3, <1>5, <1>6, <1>7, <1>8, <1>9 DEF Starts

\* The kinds of steps there are.
LEMMA NextMove ==
  ASSUME TypeOK, Next
  PROVE  \/ \E r \in Requests : \E new : Moved(r, new)
         \/ \E r \in Requests : \E m : Read(r, m)
         \/ \E r \in Requests : Ended(r)
         \/ \E r \in Requests, t \in Tickets : Born(r, t)
         \/ \E w \in Technicians : removeUser(w)
         \/ \E s \in Spaces : reopenSpace(s)
  <1>1. ASSUME NEW r \in Requests, Goes(r)
        PROVE  Ended(r) \/ (\E m : Read(r, m)) \/ (\E new : Moved(r, new))
    <2>1. CASE acceptAssign(r)
      <3> DEFINE m == [op |-> "assign", ticket |-> request[r].ticket,
                       who |-> request[r].who, to |-> request[r].who]
      <3>1. request[r] \in Request /\ request[r].op = "accept"
        BY <2>1 DEF acceptAssign, At, TypeOK, Idle
      <3>2. /\ request[r].ticket \in Tickets /\ request[r].who \in Who
            /\ request[r].who \in Technicians
        BY <3>1 DEF Request, Who
      <3>3. m \in Request
        BY <3>2 DEF Request
      <3>4. Truth(m)
        BY <2>1, <3>2 DEF acceptAssign, Assignable, Truth
      <3> QED
        BY <2>1, <3>3, <3>4 DEF acceptAssign, Read
    <2>2. CASE createBlock(r)
      <3>1. request[r] \in Request /\ request[r].op = "block"
        BY <2>2 DEF createBlock, At, TypeOK, Idle
      <3>2. request[r].space \in Spaces
        BY <3>1 DEF Request
      <3> QED
        BY <2>2, <3>2 DEF createBlock, Finish, Ended, TypeOK
    <2>3. CASE Fail(r)
      BY <2>3 DEF Fail, Finish, Ended, tables, TypeOK
    <2> QED
      BY <1>1, <2>1, <2>2, <2>3, WriteMove DEF Goes
  <1> QED
    BY <1>1, StartsMove DEF Next

-----------------------------------------------------------------------------
LEMMA TypeStep == TypeOK /\ [Next]_vars => TypeOK'
  <1> SUFFICES ASSUME TypeOK, [Next]_vars PROVE TypeOK'
    OBVIOUS
  <1>1. CASE Next
    <2>1. stale' \in [Requests -> BOOLEAN] /\ forced' \subseteq Tickets
      BY <1>1 DEF Next, History
    <2>2. ASSUME NEW r \in Requests, NEW new, Moved(r, new) PROVE TypeOK'
      BY <2>1, <2>2 DEF Moved, Kept, TypeOK
    <2>3. ASSUME NEW r \in Requests, NEW m, Read(r, m) PROVE TypeOK'
      BY <2>1, <2>3 DEF Read, tables, TypeOK
    <2>4. ASSUME NEW r \in Requests, Ended(r) PROVE TypeOK'
      BY <2>1, <2>4 DEF Ended, TypeOK
    <2>5. ASSUME NEW r \in Requests, NEW t \in Tickets, Born(r, t) PROVE TypeOK'
      <3>1. PICK to \in staff \cup {None} :
              ticket' = [ticket EXCEPT ![t] =
                [status |-> IF to = None THEN "OPEN" ELSE "ASSIGNED",
                 assigned_to |-> to, resolved |-> FALSE]]
        BY <2>5 DEF Born
      <3>2. to \in Technicians \cup {None}
        BY DEF TypeOK
      <3>3. ticket' \in [Tickets -> Row]
        BY <3>1, <3>2 DEF TypeOK, Row, TicketStatus
      <3>4. \A s \in Spaces :
              [op |-> "block", ticket |-> t, who |-> Staff, space |-> s] \in Request
        BY DEF Request, Who
      <3>5. request' \in [Requests -> Request \cup {Idle}]
        BY <2>5, <3>4 DEF Born, TypeOK
      <3> QED
        BY <2>1, <2>5, <3>3, <3>5 DEF Born, TypeOK
    <2>6. ASSUME NEW w \in Technicians, removeUser(w) PROVE TypeOK'
      <3>1. ticket' \in [Tickets -> Row]
        BY <2>6 DEF removeUser, TypeOK, Row
      <3> QED
        BY <2>1, <2>6, <3>1 DEF removeUser, TypeOK
    <2>7. ASSUME NEW s \in Spaces, reopenSpace(s) PROVE TypeOK'
      BY <2>1, <2>7 DEF reopenSpace, TypeOK
    <2> QED
      BY <1>1, <2>2, <2>3, <2>4, <2>5, <2>6, <2>7, NextMove
  <1>2. CASE UNCHANGED vars
    BY <1>2 DEF vars, TypeOK
  <1> QED
    BY <1>1, <1>2

\* Every reachable state of tickets, requests and accounts is typed: a PATCH
\* writes an assignee or a status only if its body carries one.
THEOREM TypeCorrect == Spec => []TypeOK
  <1>1. Init => TypeOK
    BY DEF Init, TypeOK, Row, NoTicket
  <1> QED
    BY <1>1, TypeStep, PTL DEF Spec

-----------------------------------------------------------------------------
\* A ticket that was closed, or that somebody is about to close, was resolved
\* or forced.
Resolved(t) == ticket[t].status = "deleted" \/ ticket[t].resolved \/ t \in forced

ResolvedInv ==
  /\ \A t \in Tickets : ticket[t].status \in {"RESOLVED", "CLOSED"} =>
       ticket[t].resolved \/ t \in forced
  /\ \A r \in Requests : At(r, "close") => Resolved(request[r].ticket)

\* What was forced stays so until it is resolved.
LEMMA ForcedStays ==
  ASSUME History
  PROVE  \A t \in Tickets : t \in forced \/ Forces(t) => ticket'[t].resolved \/ t \in forced'
  BY DEF History

\* Steps that forget no resolution.
LEMMA ResolvedKeep ==
  ASSUME TypeOK, ResolvedInv,
         \A t \in Tickets :
           /\ ticket'[t].status \in {"RESOLVED", "CLOSED"} =>
                ticket'[t].resolved \/ t \in forced'
           /\ Resolved(t) => Resolved(t)',
         \A r \in Requests :
           \/ request'[r] = request[r]
           \/ request'[r].op # "close"
           \/ Resolved(request[r].ticket)'
  PROVE  ResolvedInv'
  <1> SUFFICES ASSUME NEW r \in Requests, request'[r].op = "close"
               PROVE  Resolved(request[r].ticket)'
    BY DEF ResolvedInv, At
  <1>1. CASE request'[r] = request[r]
    <2>1. request[r].op = "close"
      BY <1>1
    <2>2. request[r].ticket \in Tickets
      BY <2>1 DEF TypeOK, Request, Idle
    <2>3. Resolved(request[r].ticket)
      BY <2>1 DEF ResolvedInv, At
    <2> QED
      BY <1>1, <2>2, <2>3 DEF Resolved
  <1> QED
    BY <1>1 DEF Resolved

LEMMA IdleOnly ==
  ASSUME TypeOK, NEW r \in Requests, request' = [request EXCEPT ![r] = Idle]
  PROVE  \A q \in Requests : request'[q] = request[q] \/ request'[q].op = "idle"
  BY DEF TypeOK, Idle

LEMMA ResolvedStep == TypeOK /\ ResolvedInv /\ [Next]_vars => ResolvedInv'
  <1> SUFFICES ASSUME TypeOK, ResolvedInv, [Next]_vars PROVE ResolvedInv'
    OBVIOUS
  <1>0. CASE UNCHANGED vars
    BY <1>0, ResolvedKeep DEF vars, ResolvedInv, Resolved
  <1> SUFFICES ASSUME History, Next PROVE ResolvedInv'
    BY <1>0 DEF Next
  <1>1. ASSUME NEW r \in Requests, NEW new, Moved(r, new) PROVE ResolvedInv'
    <2> DEFINE t == request[r].ticket
    <2>1. /\ t \in Tickets /\ ticket'[t] = new /\ request[r].op # "idle"
          /\ \A u \in Tickets \ {t} : ticket'[u] = ticket[u]
      BY <1>1 DEF Moved, TypeOK
    <2>2. /\ ticket[t].resolved => new.resolved \/ new.status = "deleted"
          /\ ticket[t].status # "deleted"
      BY <1>1 DEF Moved, Kept, RowOf, TicketStatus
    <2>3. new.status \in {"RESOLVED", "CLOSED"} => new.resolved \/ t \in forced'
      <3> SUFFICES ASSUME new.status \in {"RESOLVED", "CLOSED"}
                   PROVE  new.resolved \/ t \in forced'
        OBVIOUS
      <3>1. CASE request[r].op \in {"assign", "start", "cancel", "remove", "resolve"}
        BY <1>1, <3>1 DEF Moved, Kept, At
      <3>2. CASE new.status = ticket[t].status
        BY <2>1, <2>2, <3>2, ForcedStays DEF ResolvedInv
      <3>3. CASE request[r].op = "claim"
        BY <1>1, <3>2, <3>3 DEF Moved, Kept, At, RowOf
      <3>4. CASE request[r].op = "close"
        <4>1. Resolved(t)
          BY <3>4 DEF ResolvedInv, At
        <4> QED
          BY <2>1, <2>2, <4>1, ForcedStays DEF Resolved
      <3>5. CASE request[r].op \in {"status", "edit"} /\ new.status # ticket[t].status
        <4>1. request'[r] # request[r] /\ request[r] # Idle
          BY <1>1, <2>1 DEF Moved, TypeOK, Idle
        <4>2. Forces(t)
          BY <2>1, <3>5, <4>1 DEF Forces
        <4> QED
          BY <2>1, <4>2, ForcedStays
      <3> QED
        BY <1>1, <3>1, <3>2, <3>3, <3>4, <3>5 DEF Moved
    <2>4. \A u \in Tickets :
            /\ ticket'[u].status \in {"RESOLVED", "CLOSED"} =>
                 ticket'[u].resolved \/ u \in forced'
            /\ Resolved(u) => Resolved(u)'
      <3> SUFFICES ASSUME NEW u \in Tickets
                   PROVE  /\ ticket'[u].status \in {"RESOLVED", "CLOSED"} =>
                               ticket'[u].resolved \/ u \in forced'
                          /\ Resolved(u) => Resolved(u)'
        OBVIOUS
      <3>1. CASE u # t
        BY <2>1, <3>1, ForcedStays DEF ResolvedInv, Resolved
      <3>2. CASE u = t
        BY <2>1, <2>2, <2>3, <3>2, ForcedStays DEF Resolved
      <3> QED
        BY <3>1, <3>2
    <2> QED
      BY <1>1, <2>4, IdleOnly, ResolvedKeep DEF Moved
  <1>8. ASSUME \A t \in Tickets : /\ ticket'[t].status = ticket[t].status
                                  /\ ticket'[t].resolved = ticket[t].resolved
        PROVE  \A t \in Tickets :
                 /\ ticket'[t].status \in {"RESOLVED", "CLOSED"} =>
                      ticket'[t].resolved \/ t \in forced'
                 /\ Resolved(t) => Resolved(t)'
    BY <1>8, ForcedStays DEF ResolvedInv, Resolved
  <1>2. ASSUME NEW r \in Requests, NEW m, Read(r, m) PROVE ResolvedInv'
    <2>1. m.ticket \in Tickets /\ ticket' = ticket
      BY <1>2 DEF Read, Request, tables
    <2>2. m.op = "close" => Resolved(m.ticket)
      BY <1>2, <2>1 DEF Read, Truth, ResolvedInv, Resolved
    <2>3. request'[r] = m /\ \A q \in Requests \ {r} : request'[q] = request[q]
      BY <1>2 DEF Read, TypeOK
    <2>4. \A t \in Tickets :
            /\ ticket'[t].status \in {"RESOLVED", "CLOSED"} =>
                 ticket'[t].resolved \/ t \in forced'
            /\ Resolved(t) => Resolved(t)'
      BY <1>8, <2>1
    <2>5. m.op = "close" => Resolved(request[r].ticket)'
      BY <2>1, <2>2, <2>3, <2>4 DEF Resolved
    <2> QED
      BY <2>3, <2>4, <2>5, ResolvedKeep
  <1>3. ASSUME NEW r \in Requests, Ended(r) PROVE ResolvedInv'
    BY <1>3, <1>8, IdleOnly, ResolvedKeep DEF Ended
  <1>4. ASSUME NEW r \in Requests, NEW t \in Tickets, Born(r, t) PROVE ResolvedInv'
    <2>1. /\ ticket[t] = NoTicket /\ ticket'[t].status \in {"OPEN", "ASSIGNED"}
          /\ \A u \in Tickets \ {t} : ticket'[u] = ticket[u]
      BY <1>4 DEF Born, TypeOK
    <2>2. Resolved(t) => Resolved(t)'
      BY <2>1, ForcedStays DEF Resolved, NoTicket
    <2>3. \A u \in Tickets :
            /\ ticket'[u].status \in {"RESOLVED", "CLOSED"} =>
                 ticket'[u].resolved \/ u \in forced'
            /\ Resolved(u) => Resolved(u)'
      BY <2>1, <2>2, ForcedStays DEF ResolvedInv, Resolved
    <2>4. \A q \in Requests : request'[q] = request[q] \/ request'[q].op # "close"
      BY <1>4 DEF Born, TypeOK
    <2> QED
      BY <2>3, <2>4, ResolvedKeep
  <1>5. ASSUME NEW w \in Technicians, removeUser(w) PROVE ResolvedInv'
    <2>1. \A t \in Tickets : /\ ticket'[t].status = ticket[t].status
                             /\ ticket'[t].resolved = ticket[t].resolved
      BY <1>5 DEF removeUser, TypeOK, Row
    <2> QED
      BY <1>5, <1>8, <2>1, ResolvedKeep DEF removeUser
  <1>6. ASSUME NEW s \in Spaces, reopenSpace(s) PROVE ResolvedInv'
    BY <1>6, <1>8, ResolvedKeep DEF reopenSpace
  <1> QED
    BY <1>1, <1>2, <1>3, <1>4, <1>5, <1>6, NextMove

\* Whatever overlaps, a closed ticket was resolved and says when, unless it
\* was not resolved since a PATCH made it RESOLVED or CLOSED by itself.
THEOREM ClosedTicketsWereResolved == Spec => []ClosedWasResolved
  <1>1. Init => ResolvedInv
    BY DEF Init, ResolvedInv, NoTicket, Idle, At
  <1>2. ResolvedInv => ClosedWasResolved
    BY DEF ResolvedInv, ClosedWasResolved
  <1> QED
    BY <1>1, <1>2, ResolvedStep, TypeCorrect, PTL DEF Spec

-----------------------------------------------------------------------------
\* A request that was not overtaken still knows what it read.
Fresh == \A r \in Requests : request[r] # Idle /\ ~stale[r] => Truth(request[r])

\* Steps after which whoever moved knows the tables.
LEMMA FreshKeep ==
  ASSUME TypeOK, Fresh, History,
         \A r \in Requests : request'[r] \in {request[r], Idle} \/ Truth(request[r])'
  PROVE  Fresh'
  <1> SUFFICES ASSUME NEW r \in Requests, request'[r] = request[r], request[r] # Idle,
                      ~stale'[r]
               PROVE  Truth(request[r])'
    BY DEF Fresh
  <1>1. ~stale[r] /\ ticket'[request[r].ticket] = ticket[request[r].ticket]
    BY DEF History
  <1>2. Truth(request[r])
    BY <1>1 DEF Fresh
  <1> QED
    BY <1>1, <1>2 DEF Truth, Exists

LEMMA FreshStep == TypeOK /\ Fresh /\ [Next]_vars => Fresh'
  <1> SUFFICES ASSUME TypeOK, Fresh, [Next]_vars PROVE Fresh'
    OBVIOUS
  <1>1. CASE Next
    <2>1. History
      BY <1>1 DEF Next
    <2>2. ASSUME NEW r \in Requests, request' = [request EXCEPT ![r] = Idle] PROVE Fresh'
      BY <2>1, <2>2, FreshKeep DEF TypeOK
    <2>3. ASSUME NEW r \in Requests, NEW m, Read(r, m) PROVE Fresh'
      <3>1. request'[r] = m /\ \A q \in Requests \ {r} : request'[q] = request[q]
        BY <2>3 DEF Read, TypeOK
      <3>2. Truth(request[r])'
        BY <2>3, <3>1 DEF Read, Truth, Exists, tables
      <3> QED
        BY <2>1, <3>1, <3>2, FreshKeep
    <2>4. ASSUME NEW r \in Requests, NEW t \in Tickets, Born(r, t) PROVE Fresh'
      <3>1. Exists(t)'
        BY <2>4 DEF Born, Exists, TypeOK, TicketStatus
      <3>2. CASE request' = request
        BY <2>1, <3>2, FreshKeep
      <3>3. ASSUME NEW s \in Spaces,
                   request' = [request EXCEPT
                     ![r] = [op |-> "block", ticket |-> t, who |-> Staff, space |-> s]]
            PROVE  Fresh'
        <4>1. /\ request'[r] = [op |-> "block", ticket |-> t, who |-> Staff, space |-> s]
              /\ \A q \in Requests \ {r} : request'[q] = request[q]
          BY <3>3 DEF TypeOK
        <4>2. Truth(request[r])'
          BY <3>1, <4>1 DEF Truth, Exists
        <4> QED
          BY <2>1, <4>1, <4>2, FreshKeep
      <3> QED
        BY <2>4, <3>2, <3>3 DEF Born
    <2>5. CASE request' = request
      BY <2>1, <2>5, FreshKeep
    <2> QED
      BY <1>1, <2>2, <2>3, <2>4, <2>5, NextMove DEF Moved, Ended, removeUser, reopenSpace
  <1>2. CASE UNCHANGED vars
    BY <1>2 DEF vars, Fresh, Truth, Exists
  <1> QED
    BY <1>1, <1>2

FreshSpec == TypeOK /\ Fresh

LEMMA FreshAlways == Spec => []FreshSpec
  <1>1. Init => FreshSpec
    BY DEF Init, TypeOK, Row, NoTicket, Fresh, FreshSpec
  <1>2. FreshSpec /\ [Next]_vars => FreshSpec'
    BY TypeStep, FreshStep DEF FreshSpec
  <1> QED
    BY <1>1, <1>2, PTL DEF Spec

\* The step of a request that changes a ticket is its write of the ticket it
\* read, or the creation of a ticket.
LEMMA Mover ==
  ASSUME FreshSpec, [Next]_vars, NEW r \in Requests, NEW t \in Tickets,
         request'[r] # request[r], ticket'[t] # ticket[t], ticket[t] # NoTicket,
         request[r] # Idle, ~stale[r]
  PROVE  \E new : /\ Moved(r, new) /\ t = request[r].ticket /\ ticket'[t] = new
                  /\ RowOf(r) = ticket[t] /\ Truth(request[r])
  <1>1. Next
    BY DEF vars
  <1>2. ASSUME NEW q \in Requests, NEW m, Read(q, m) PROVE FALSE
    BY <1>2 DEF Read, tables
  <1>3. ASSUME NEW q \in Requests, Ended(q) PROVE FALSE
    BY <1>3 DEF Ended
  <1>4. ASSUME NEW q \in Requests, NEW u \in Tickets, Born(q, u) PROVE FALSE
    BY <1>4 DEF Born, FreshSpec, TypeOK
  <1>5. PICK q \in Requests : \E new : Moved(q, new)
    BY <1>1, <1>2, <1>3, <1>4, NextMove DEF removeUser, reopenSpace, FreshSpec
  <1>6. PICK new : Moved(q, new)
    BY <1>5
  <1>7. q = r
    BY <1>6 DEF Moved, FreshSpec, TypeOK
  <1>8. t = request[r].ticket /\ ticket'[t] = new
    BY <1>6, <1>7 DEF Moved, FreshSpec, TypeOK
  <1>9. Truth(request[r])
    BY DEF FreshSpec, Fresh
  <1> QED
    BY <1>6, <1>7, <1>8, <1>9 DEF RowOf

\* A request that is not overtaken takes no ticket from its technician, and
\* by a technician changes only a ticket that is his or nobody's.
THEOREM HoldersAreRespected == Spec => HolderRespected
  <1>1. FreshSpec /\ [Next]_vars =>
          [\A r \in Requests, t \in Tickets :
             (/\ request'[r] # request[r] /\ ~stale[r] /\ request[r] # Idle
              /\ request[r].op \notin {"edit", "remove"}
              /\ ticket'[t] # ticket[t] /\ ticket[t].assigned_to # None)
             => /\ ticket'[t].assigned_to = ticket[t].assigned_to
                /\ request[r].who \in {Staff, ticket[t].assigned_to}]_vars
    <2> SUFFICES ASSUME FreshSpec, [Next]_vars, NEW r \in Requests, NEW t \in Tickets,
                        request'[r] # request[r], ~stale[r], request[r] # Idle,
                        request[r].op \notin {"edit", "remove"},
                        ticket'[t] # ticket[t], ticket[t].assigned_to # None
                 PROVE  /\ ticket'[t].assigned_to = ticket[t].assigned_to
                        /\ request[r].who \in {Staff, ticket[t].assigned_to}
      OBVIOUS
    <2>1. ticket[t] # NoTicket
      BY DEF NoTicket
    <2>2. PICK new : /\ Moved(r, new) /\ t = request[r].ticket /\ ticket'[t] = new
                     /\ RowOf(r) = ticket[t] /\ Truth(request[r])
      BY <2>1, Mover
    <2> QED
      BY <2>2 DEF Moved, Kept, Truth, At
  <1> QED
    BY <1>1, FreshAlways, PTL DEF Spec, HolderRespected

\* CLOSED and CANCELLED are left only by a PATCH, a deletion or a request
\* that was overtaken.
THEOREM EndedTicketsStayEnded == Spec => EndedStaysEnded
  <1>1. FreshSpec /\ [Next]_vars =>
          [\A r \in Requests, t \in Tickets :
             (/\ request'[r] # request[r] /\ ~stale[r] /\ request[r] # Idle
              /\ request[r].op \notin {"edit", "status", "remove"}
              /\ ticket[t].status \in {"CLOSED", "CANCELLED"})
             => ticket'[t].status = ticket[t].status]_vars
    <2> SUFFICES ASSUME FreshSpec, [Next]_vars, NEW r \in Requests, NEW t \in Tickets,
                        request'[r] # request[r], ~stale[r], request[r] # Idle,
                        request[r].op \notin {"edit", "status", "remove"},
                        ticket[t].status \in {"CLOSED", "CANCELLED"},
                        ticket'[t] # ticket[t]
                 PROVE  FALSE
      OBVIOUS
    <2>1. ticket[t] # NoTicket
      BY DEF NoTicket
    <2>2. PICK new : /\ Moved(r, new) /\ t = request[r].ticket /\ ticket'[t] = new
                     /\ RowOf(r) = ticket[t] /\ Truth(request[r])
      BY <2>1, Mover
    <2> QED
      BY <2>2 DEF Moved, Truth
  <1> QED
    BY <1>1, FreshAlways, PTL DEF Spec, EndedStaysEnded
=============================================================================
