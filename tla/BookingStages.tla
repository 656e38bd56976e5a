--------------------------- MODULE BookingStages ---------------------------
(***************************************************************************)
(* What the booking endpoints promise when requests overlap: the status    *)
(* itself may jump back (a stale handler writes over a newer status), yet  *)
(* a booking never reaches a stage without having been at the one before.  *)
(***************************************************************************)
EXTENDS BookingStatuses

CONSTANTS Bookings,
          Entry          \* statuses written without reading the old one

VARIABLE held            \* the statuses each booking has had

Init == held = [b \in Bookings |-> {}]

Reach(b, s) ==
  /\ s \in Entry \/ \E p \in held[b] : <<p, s>> \in Steps
  /\ held' = [held EXCEPT ![b] = @ \cup {s}]

Forget(b) == held' = [held EXCEPT ![b] = {}]

Next == \E b \in Bookings : Forget(b) \/ \E s \in BookingStatus : Reach(b, s)

Spec == Init /\ [][Next]_held

-----------------------------------------------------------------------------
\* A booking is ACTIVE only if reception called, received and documented it;
\* it is COMPLETED only if it was confirmed and checked in.
StagesInOrder ==
  \A b \in Bookings :
    /\ "ACTIVE" \in held[b] =>
         {"PENDING_PHONE_CONFIRMATION", "AWAITING_PHYSICAL_VISIT",
          "DOCUMENTS_PENDING_UPLOAD"} \subseteq held[b]
    /\ "COMPLETED" \in held[b] => {"CONFIRMED", "CHECKED_IN"} \subseteq held[b]
=============================================================================
