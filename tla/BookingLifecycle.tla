-------------------------- MODULE BookingLifecycle --------------------------
(***************************************************************************)
(* What the booking endpoints promise as long as they do not overlap on a  *)
(* booking: its status moves forward, unless staff write it.  This is what *)
(* the code does and not what docs/WORKFLOW.md:22 says, where COMPLETED is *)
(* terminal: CancelCompleted is the difference, and the only one.          *)
(***************************************************************************)
EXTENDS BookingStatuses

CONSTANTS Bookings,
          Entry,         \* statuses a booking can be created with
          Written        \* statuses staff write by hand, whatever it had

VARIABLE status

Init == status = [b \in Bookings |-> "unborn"]

Born(b) ==
  /\ status[b] = "unborn"
  /\ \E s \in Entry : status' = [status EXCEPT ![b] = s]

Move(b) ==
  \E s \in BookingStatus : /\ status[b] \in BookingStatus
                           /\ <<status[b], s>> \in Forward \/ s \in Written
                           /\ status' = [status EXCEPT ![b] = s]

CancelCompleted(b) ==
  /\ status[b] = "COMPLETED"
  /\ status' = [status EXCEPT ![b] = "CANCELLED"]

Delete(b) ==
  /\ status[b] \in BookingStatus
  /\ status' = [status EXCEPT ![b] = "deleted"]

Next == \E b \in Bookings : Born(b) \/ Move(b) \/ CancelCompleted(b) \/ Delete(b)

Spec == Init /\ [][Next]_status
=============================================================================
