---------------------------- MODULE Maintenance ----------------------------
(***************************************************************************)
(* Maintenance tickets: backend/src/maintenance/maintenance.service.ts.    *)
(*                                                                         *)
(* Every handler reads the ticket in one await, tests it, and writes it by *)
(* its id in a later one.  `request` is what it remembers in between;      *)
(* `who` is the technician who sent it; Staff stands for managers, renters *)
(* and, where the code does not ask who the caller is, for anybody.        *)
(***************************************************************************)
EXTENDS Integers, FiniteSets

CONSTANTS
  Tickets,         \* identifiers of tickets, each used once
  Technicians,     \* users of the role MAINTENANCE
  Requests,        \* how many requests are in flight at once
  Spaces,
  Edits,           \* bodies of PATCH /maintenance/:id
  Statuses,        \* statuses sent to PATCH /maintenance/:id/status
  Staff,           \* a caller of another role
  None, Same

TicketStatus == {"OPEN", "ASSIGNED", "IN_PROGRESS", "RESOLVED", "CLOSED", "CANCELLED"}
Edit == [status : TicketStatus \cup {Same}, assigned_to : Technicians \cup {None, Same}]

ASSUME EditsValidated == Edits \subseteq Edit /\ Statuses \subseteq TicketStatus
ASSUME MarkersDiffer ==
  /\ None # Same /\ {None, Staff, Same} \cap Technicians = {}
  /\ Same \notin TicketStatus

VARIABLES
  ticket,          \* the maintenance_tickets table; resolved: resolved_at is set
  space,           \* spaces whose status is MAINTENANCE
  staff,           \* technicians who still have an account
  request,         \* the requests in flight
  stale,           \* history: somebody wrote the ticket since a request read it
  forced           \* history: tickets a PATCH made RESOLVED or CLOSED, unresolved since

vars == <<ticket, space, staff, request, stale, forced>>
tables == <<ticket, space, staff>>

-----------------------------------------------------------------------------
Row == [status : TicketStatus \cup {"none", "deleted"},
        assigned_to : Technicians \cup {None}, resolved : BOOLEAN]
NoTicket == [status |-> "none", assigned_to |-> None, resolved |-> FALSE]
Idle == [op |-> "idle"]

Who == Technicians \cup {Staff}
Request ==
  [op : {"start", "resolve", "close", "cancel", "remove"}, ticket : Tickets, who : Who]
  \cup [op : {"accept", "claim"}, ticket : Tickets, who : Technicians]
  \cup [op : {"assign"}, ticket : Tickets, who : Who, to : Technicians]
  \cup [op : {"status"}, ticket : Tickets, who : Who, status : Statuses]
  \cup [op : {"edit"}, ticket : Tickets, who : Who, body : Edits]
  \cup [op : {"block"}, ticket : Tickets, who : Who, space : Spaces]

TypeOK ==
  /\ ticket \in [Tickets -> Row]
  /\ space \subseteq Spaces
  /\ staff \subseteq Technicians
  /\ request \in [Requests -> Request \cup {Idle}]
  /\ stale \in [Requests -> BOOLEAN]
  /\ forced \subseteq Tickets

Init ==
  /\ ticket = [t \in Tickets |-> NoTicket]
  /\ space = {}
  /\ staff = Technicians
  /\ request = [r \in Requests |-> Idle]
  /\ stale = [r \in Requests |-> FALSE]
  /\ forced = {}

Exists(t) == ticket[t].status \in TicketStatus
Given(new, old) == IF new = Same THEN old ELSE new

Begin(r, memory) == request[r] = Idle /\ request' = [request EXCEPT ![r] = memory]
Finish(r) == request' = [request EXCEPT ![r] = Idle]
At(r, op) == request[r].op = op

\* The row that request r is about.
RowOf(r) == ticket[request[r].ticket]

\* The update of one row by its id; assigned_to is a foreign key.
Write(r, op, new) ==
  /\ At(r, op)
  /\ Exists(request[r].ticket)
  /\ new.assigned_to \in staff \cup {None, RowOf(r).assigned_to}
  /\ ticket' = [ticket EXCEPT ![request[r].ticket] = new]
  /\ Finish(r)
  /\ UNCHANGED <<space, staff>>

-----------------------------------------------------------------------------
\* An assignee given makes it ASSIGNED; urgent ones block the space afterwards.
create(r, t, to, urgent, s) ==
  /\ ticket[t] = NoTicket
  /\ to \in staff \cup {None}
  /\ ticket' = [ticket EXCEPT ![t] =
       [status |-> IF to = None THEN "OPEN" ELSE "ASSIGNED", assigned_to |-> to,
        resolved |-> FALSE]]
  /\ IF urgent THEN Begin(r, [op |-> "block", ticket |-> t, who |-> Staff, space |-> s])
     ELSE UNCHANGED request
  /\ UNCHANGED <<space, staff>>

createBlock(r) ==
  /\ At(r, "block")
  /\ space' = space \cup {request[r].space}
  /\ Finish(r)
  /\ UNCHANGED <<ticket, staff>>

\* Mutant: whoever holds the ticket loses it.
AssignableAlways(t, to) == Exists(t) /\ ticket[t].status \notin {"CLOSED", "CANCELLED"}

Assignable(t, to) ==
  /\ Exists(t)
  /\ ticket[t].status \notin {"CLOSED", "CANCELLED"}
  /\ ticket[t].assigned_to \in {None, to}

assign(r, t, to) ==
  /\ Assignable(t, to)
  /\ Begin(r, [op |-> "assign", ticket |-> t, who |-> Staff, to |-> to])
  /\ UNCHANGED tables

assignWrite(r) == Write(r, "assign",
  [RowOf(r) EXCEPT !.status = "ASSIGNED", !.assigned_to = request[r].to])

\* A technician who holds the ticket already gets it back as it is.
accept(r, t, w) ==
  /\ w \in staff
  /\ Exists(t)
  /\ ticket[t].status \notin {"CLOSED", "CANCELLED", "RESOLVED"}
  /\ ticket[t].assigned_to = None
  /\ Begin(r, [op |-> IF ticket[t].status = "OPEN" THEN "accept" ELSE "claim",
               ticket |-> t, who |-> w])
  /\ UNCHANGED tables

\* accept calls assign, which reads the ticket again.
acceptAssign(r) ==
  /\ At(r, "accept")
  /\ LET t == request[r].ticket  w == request[r].who IN
       /\ Assignable(t, w)
       /\ request' = [request EXCEPT
            ![r] = [op |-> "assign", ticket |-> t, who |-> w, to |-> w]]
  /\ UNCHANGED tables

\* A ticket that progressed without an assignee keeps its status.
acceptWrite(r) == Write(r, "claim",
  [RowOf(r) EXCEPT !.assigned_to = request[r].who])

-----------------------------------------------------------------------------
assertTicketActor(w, t) == w = Staff \/ w = ticket[t].assigned_to

\* A handler that reads the ticket and goes on if its status is one of these.
Step(r, t, w, op, statuses) ==
  /\ w \in staff \cup {Staff}
  /\ Exists(t)
  /\ assertTicketActor(w, t)
  /\ ticket[t].status \in statuses
  /\ Begin(r, [op |-> op, ticket |-> t, who |-> w])
  /\ UNCHANGED tables

\* Mutant: work under way is closed.
closeEarly(r, t, w) == Step(r, t, w, "close", {"RESOLVED", "IN_PROGRESS"})

startProgress(r, t, w) == Step(r, t, w, "start", {"ASSIGNED"})
resolve(r, t, w) == Step(r, t, w, "resolve", {"OPEN", "ASSIGNED", "IN_PROGRESS"})
close(r, t, w) == Step(r, t, w, "close", {"RESOLVED"})

\* Mutant: a closed ticket is cancelled.
cancelClosed(r, t) == Step(r, t, Staff, "cancel", TicketStatus \ {"CANCELLED"})

\* Its role check leaves technicians out.
cancel(r, t) ==
  Step(r, t, Staff, "cancel", {"OPEN", "ASSIGNED", "IN_PROGRESS", "RESOLVED"})

startProgressWrite(r) ==
  Write(r, "start", [RowOf(r) EXCEPT !.status = "IN_PROGRESS"])
resolveWrite(r) ==
  Write(r, "resolve", [RowOf(r) EXCEPT !.status = "RESOLVED", !.resolved = TRUE])
closeWrite(r) == Write(r, "close", [RowOf(r) EXCEPT !.status = "CLOSED"])
cancelWrite(r) == Write(r, "cancel", [RowOf(r) EXCEPT !.status = "CANCELLED"])

-----------------------------------------------------------------------------
\* Any status, by any user who can read the ticket.
updateStatus(r, t, status) ==
  /\ Exists(t)
  /\ Begin(r, [op |-> "status", ticket |-> t, who |-> Staff, status |-> status])
  /\ UNCHANGED tables

updateStatusWrite(r) == Write(r, "status",
  [RowOf(r) EXCEPT !.status = request[r].status,
                    !.resolved = @ \/ request[r].status = "RESOLVED"])

update(r, t, body) ==
  /\ Exists(t)
  /\ Begin(r, [op |-> "edit", ticket |-> t, who |-> Staff, body |-> body])
  /\ UNCHANGED tables

updateWrite(r) == Write(r, "edit",
  [RowOf(r) EXCEPT !.status = Given(request[r].body.status, @),
                    !.assigned_to = Given(request[r].body.assigned_to, @)])

remove(r, t) ==
  /\ Exists(t)
  /\ Begin(r, [op |-> "remove", ticket |-> t, who |-> Staff])
  /\ UNCHANGED tables

removeWrite(r) == Write(r, "remove", [NoTicket EXCEPT !.status = "deleted"])

\* Deleting an account empties assigned_to of its tickets.
removeUser(w) ==
  /\ w \in staff
  /\ staff' = staff \ {w}
  /\ ticket' = [t \in Tickets |->
       IF ticket[t].assigned_to = w THEN [ticket[t] EXCEPT !.assigned_to = None]
       ELSE ticket[t]]
  /\ UNCHANGED <<space, request>>

\* The status of a space is edited; closing tickets does not do it.
reopenSpace(s) ==
  /\ s \in space
  /\ space' = space \ {s}
  /\ UNCHANGED <<ticket, staff, request>>

\* An await rejects, a row or a user is gone, or the process stops.
Fail(r) ==
  /\ request[r] # Idle
  /\ Finish(r)
  /\ UNCHANGED tables

-----------------------------------------------------------------------------
Starts(r, t) ==
  \/ \E to \in Technicians \cup {None}, urgent \in BOOLEAN, s \in Spaces :
       create(r, t, to, urgent, s)
  \/ \E w \in Technicians : assign(r, t, w) \/ accept(r, t, w)
  \/ \E w \in Who : startProgress(r, t, w) \/ resolve(r, t, w) \/ close(r, t, w)
  \/ cancel(r, t) \/ remove(r, t)
  \/ \E status \in Statuses : updateStatus(r, t, status)
  \/ \E body \in Edits : update(r, t, body)

Writes(r) ==
  \/ assignWrite(r) \/ acceptWrite(r)
  \/ startProgressWrite(r) \/ resolveWrite(r) \/ closeWrite(r) \/ cancelWrite(r)
  \/ updateStatusWrite(r) \/ updateWrite(r) \/ removeWrite(r)

Goes(r) == Writes(r) \/ acceptAssign(r) \/ createBlock(r) \/ Fail(r)

\* A PATCH ends a ticket over the head of resolve and close.
Forces(t) ==
  /\ ticket'[t].status # ticket[t].status /\ ticket'[t].status \in {"RESOLVED", "CLOSED"}
  /\ \E r \in Requests : /\ request'[r] # request[r] /\ request[r] # Idle
                        /\ request[r].op \in {"status", "edit"}
                        /\ request[r].ticket = t

History ==
  /\ stale' = [r \in Requests |->
       /\ request'[r] = request[r] /\ request[r] # Idle
       /\ stale[r] \/ ticket'[request[r].ticket] # ticket[request[r].ticket]]
  /\ forced' = {t \in Tickets : ~ticket'[t].resolved /\ (t \in forced \/ Forces(t))}

Next ==
  /\ \/ \E r \in Requests : Goes(r) \/ \E t \in Tickets : Starts(r, t)
     \/ \E w \in Technicians : removeUser(w)
     \/ \E s \in Spaces : reopenSpace(s)
  /\ History

Spec == Init /\ [][Next]_vars

-----------------------------------------------------------------------------
\* "Le ticket doit etre RESOLVED pour etre cloture": whatever overlaps, a
\* closed ticket was resolved at some time, and says when.  Both PATCHes break
\* it: any user who can read a ticket may write CLOSED, and the PATCH of the
\* whole ticket writes RESOLVED without the time.  Nothing else does.
ClosedWasResolved ==
  \A t \in Tickets : ticket[t].status = "CLOSED" => ticket[t].resolved \/ t \in forced

\* "This ticket is already assigned to another technician", "You can only
\* update tickets assigned to you": a request that is not overtaken takes no
\* ticket from its technician, and one that the code ties to a technician
\* changes only his own tickets or nobody's.  PATCH and deletion may do both.
HolderRespected ==
  [][\A r \in Requests, t \in Tickets :
       (/\ request'[r] # request[r] /\ ~stale[r] /\ request[r] # Idle
        /\ request[r].op \notin {"edit", "remove"}
        /\ ticket'[t] # ticket[t] /\ ticket[t].assigned_to # None)
       => /\ ticket'[t].assigned_to = ticket[t].assigned_to
          /\ request[r].who \in {Staff, ticket[t].assigned_to}]_vars

\* CLOSED and CANCELLED are left only by a PATCH, a deletion, or a request
\* that was overtaken by the one that ended the ticket.
EndedStaysEnded ==
  [][\A r \in Requests, t \in Tickets :
       (/\ request'[r] # request[r] /\ ~stale[r] /\ request[r] # Idle
        /\ request[r].op \notin {"edit", "status", "remove"}
        /\ ticket[t].status \in {"CLOSED", "CANCELLED"})
       => ticket'[t].status = ticket[t].status]_vars
=============================================================================
