-------------------------- MODULE BookingStatuses --------------------------
(* The values of bookings.status and the steps a booking is meant to take. *)

BookingStatus == {"DRAFT", "PENDING_APPROVAL", "PENDING_PHONE_CONFIRMATION",
  "AWAITING_PHYSICAL_VISIT", "DOCUMENTS_PENDING_UPLOAD", "ACTIVE", "CONFIRMED",
  "CHECKED_IN", "COMPLETED", "CANCELLED", "REFUSED", "NO_SHOW"}

\* The status each handler tests and the one it writes, but for the one step
\* that leaves a status docs/WORKFLOW.md calls terminal.
Forward ==
  {<<"PENDING_APPROVAL", "CONFIRMED">>,
   <<"CONFIRMED", "CHECKED_IN">>, <<"CHECKED_IN", "COMPLETED">>,
   <<"PENDING_PHONE_CONFIRMATION", "AWAITING_PHYSICAL_VISIT">>,
   <<"PENDING_PHONE_CONFIRMATION", "REFUSED">>,
   <<"AWAITING_PHYSICAL_VISIT", "DOCUMENTS_PENDING_UPLOAD">>,
   <<"DOCUMENTS_PENDING_UPLOAD", "ACTIVE">>}
  \cup {<<s, "CANCELLED">> : s \in BookingStatus \ {"CANCELLED", "COMPLETED"}}

\* cancel refuses a CANCELLED booking only: it takes a COMPLETED one as well.
Steps == Forward \cup {<<"COMPLETED", "CANCELLED">>}
=============================================================================
