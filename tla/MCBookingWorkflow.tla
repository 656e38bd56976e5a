-------------------------- MODULE MCBookingWorkflow --------------------------
(* Instances of BookingWorkflow for TLC. *)
EXTENDS BookingWorkflow, TLC

\* Two periods that touch on day 2.
TouchingSlots == {<<1, 2>>, <<2, 3>>}
OneSlot == {<<1, 2>>}

Desk == {"create", "update", "approve", "reject", "cancel", "checkIn",
         "checkOut", "remove"}
Reviewed == {"create", "approve", "cancel", "apply", "accept", "refuse", "remove",
             "confirmPhone", "phoneUnreachable"}

Interchangeable ==
  Permutations(Requests) \cup Permutations(Bookings) \cup Permutations(Applications)
=============================================================================
