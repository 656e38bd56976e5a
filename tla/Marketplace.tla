----------------------------- MODULE Marketplace -----------------------------
(***************************************************************************)
(* The listings of spaces on two marketplaces and the inquiries that come  *)
(* back: backend/src/marketplace/marketplace-{sync,adapters,webhook}.      *)
(*                                                                         *)
(* `sync` is the run of the job that cron starts every 15 minutes (one     *)
(* that takes longer and meets the next is left out) and `delivery` holds  *)
(* the webhook handlers in flight.  `listing` is the marketplaces' own     *)
(* state: a call may be refused, or be carried out and its answer lost.    *)
(* Bookings count here only as far as they hold their period.              *)
(***************************************************************************)
EXTENDS Integers, FiniteSets

CONSTANTS
  Spaces, Bookings,
  MaxListing,      \* bound: how many ids each marketplace has to give
  Hours,           \* the hours of the calendar: h is the slot from h to h + 1
  Periods,         \* pairs <<start, end>> that are booked
  Inquiries,       \* bodies that the marketplaces send, as often as they like
  Deliveries,      \* how many webhook handlers are in flight at once
  MaxFaults,       \* bound: calls refused or lost, and runs stopped
  None

Listings == 1..MaxListing

Platforms == {"coworker", "liquidspace"}
First == "coworker"
Second == "liquidspace"

ASSUME PeriodsRun == \A p \in Periods : p[1] \in Int /\ p[2] \in Int /\ p[1] < p[2]
ASSUME HoursAreNumbers == Hours \subseteq Int /\ MaxFaults \in Nat /\ MaxListing \in Nat
ASSUME InquiriesNameASpace == \A i \in Inquiries :
  /\ i.id # None /\ i.platform \in Platforms /\ i.period \in Periods
  /\ i.space \in Spaces \cup {None} /\ i.listing \in Listings \cup {None}
ASSUME NoneIsNothing == None \notin Spaces \cup Listings

VARIABLES
  space,           \* the spaces table
  booking,         \* the bookings table
  listing,         \* what each marketplace shows
  sync,            \* syncMarketplaceListings in flight
  delivery,        \* handleInquiry in flight
  faults,          \* how many calls failed, or runs stopped
  adrift,          \* history: listings whose id was lost, or kept for too long
  booked,          \* history: inquiries that were booked
  excused          \* history: those of which two deliveries were in flight
                   \* together, or a booking has lost its notes

inquired == <<booked, excused>>
history == <<adrift, inquired>>
vars == <<space, booking, listing, sync, delivery, faults, history>>

-----------------------------------------------------------------------------
Ids == [Platforms -> Listings \cup {None}]
NoIds == [p \in Platforms |-> None]
\* What the notes of a booking keep of an inquiry.
Markers == {i.id : i \in Inquiries}
\* `open` is is_listed with the status AVAILABLE.
Space == [exists : BOOLEAN, open : BOOLEAN, ids : Ids]
\* `holds` is a status other than CANCELLED and NO_SHOW.
Booking == [holds : BOOLEAN, space : Spaces, period : Periods, inquiry : Markers \cup {None}]
ASSUME NoneIsNoBooking == None \notin Booking
Listing == [state : {"new", "up", "gone"}, offers : SUBSET Hours]
New == [state |-> "new", offers |-> {}]
Gone == [state |-> "gone", offers |-> {}]

Idle == [op |-> "idle"]
\* `rows` are the ids read of the spaces that the run has not come to.  Of the
\* space at hand, `was` are the ids read and `ids` those that the platforms,
\* called in turn, have answered.
Rows == UNION {[todo -> Ids] : todo \in SUBSET Spaces}
Loop == [op : {"list", "unlist"}, rows : Rows]
AtHand ==
  [op : {"push", "store", "delete", "clear"}, rows : Rows, space : Spaces, was : Ids,
   ids : Ids, platform : Platforms, offers : SUBSET Hours]

Reading == [op : {"resolve"}, inquiry : Inquiries]
Resolved == [op : {"conflict", "create"}, inquiry : Inquiries, space : Spaces]

TypeOK ==
  /\ space \in [Spaces -> Space]
  /\ booking \in [Bookings -> Booking \cup {None}]
  /\ listing \in [Platforms -> [Listings -> Listing]]
  /\ sync = Idle \/ sync \in Loop \/ sync \in AtHand
  /\ \A d \in Deliveries :
       delivery[d] = Idle \/ delivery[d] \in Reading \/ delivery[d] \in Resolved
  /\ faults \in 0..MaxFaults
  /\ adrift \subseteq Platforms \X Listings
  /\ booked \subseteq Markers /\ excused \subseteq Markers

Init ==
  /\ space = [s \in Spaces |-> [exists |-> TRUE, open |-> TRUE, ids |-> NoIds]]
  /\ booking = [b \in Bookings |-> None]
  /\ listing = [p \in Platforms |-> [l \in Listings |-> New]]
  /\ sync = Idle
  /\ delivery = [d \in Deliveries |-> Idle]
  /\ faults = 0
  /\ adrift = {}
  /\ booked = {}
  /\ excused = {}

-----------------------------------------------------------------------------
(* What the bookings leave free. *)

Held(s) == {b \in Bookings : booking[b] # None /\ booking[b].holds /\ booking[b].space = s}
Overlap(b, start, end) == booking[b].period[1] < end /\ booking[b].period[2] > start
Free(s) == {h \in Hours : \A b \in Held(s) : ~Overlap(b, h, h + 1)}

\* A fresh booking of the workflow, on the period its own checks let through.
Book(b, s, p) ==
  /\ booking[b] = None /\ space[s].exists
  /\ booking' = [booking EXCEPT ![b] =
       [holds |-> TRUE, space |-> s, period |-> p, inquiry |-> None]]
  /\ UNCHANGED <<space, listing, sync, delivery, faults, history>>

\* Cancelled or a no-show, or approved again after that: the notes stay.
Settle(b) ==
  /\ booking[b] # None
  /\ booking' = [booking EXCEPT ![b].holds = ~@]
  /\ UNCHANGED <<space, listing, sync, delivery, faults, history>>

\* The notes of these bookings are lost.
Erase(bookings) ==
  /\ excused' = excused \cup ({booking[b].inquiry : b \in bookings} \ {None})
  /\ UNCHANGED booked

\* Rejected, or refused as nobody answers the phone, which keeps the period:
\* both write over the notes.
Refuse(b, holds) ==
  /\ booking[b] # None /\ booking[b].holds
  /\ booking' = [booking EXCEPT ![b].holds = holds, ![b].inquiry = None]
  /\ Erase({b})
  /\ UNCHANGED <<space, listing, sync, delivery, faults, adrift>>

RemoveBooking(b) ==
  /\ booking[b] # None
  /\ booking' = [booking EXCEPT ![b] = None]
  /\ Erase({b})
  /\ UNCHANGED <<space, listing, sync, delivery, faults, adrift>>

\* A manager's edit of is_listed or of the status.
update(s, open) ==
  /\ space[s].exists /\ space[s].open # open
  /\ space' = [space EXCEPT ![s].open = open]
  /\ UNCHANGED <<booking, listing, sync, delivery, faults, history>>

Pairs(ids) == {<<p, ids[p]>> : p \in {q \in Platforms : ids[q] # None}}
Stored(s) == Pairs(space[s].ids)

\* The row goes, with its bookings and with the ids of its listings: nothing
\* takes the listings down.
remove(s) ==
  /\ space[s].exists
  /\ space' = [space EXCEPT ![s] = [exists |-> FALSE, open |-> FALSE, ids |-> NoIds]]
  /\ LET lost == {b \in Bookings : booking[b] # None /\ booking[b].space = s} IN
       /\ booking' = [b \in Bookings |-> IF b \in lost THEN None ELSE booking[b]]
       /\ Erase(lost)
  /\ adrift' = adrift \cup Stored(s)
  /\ UNCHANGED <<listing, sync, delivery, faults>>

-----------------------------------------------------------------------------
(* The job. *)

\* Mutant: only spaces that are not listed yet are pushed.
ToPublishOnce == {s \in Spaces : space[s].open /\ Stored(s) = {}}
ToPublish == {s \in Spaces : space[s].open}
\* Mutant: spaces that both platforms list.
ToUnpublishBoth == {s \in Spaces : Cardinality(Stored(s)) = 2 /\ ~space[s].open}
ToUnpublish == {s \in Spaces : Stored(s) # {} /\ ~space[s].open}

Go(run) == sync' = run
At(op) == sync.op = op
Todo == DOMAIN sync.rows
\* The space at hand is done with.
Loops(op) == Go([op |-> op, rows |-> sync.rows])

Read(op, spaces) ==
  /\ Go([op |-> op, rows |-> [s \in spaces |-> space[s].ids]])
  /\ UNCHANGED <<space, booking, listing, delivery, faults, history>>

Start == sync = Idle /\ Read("list", ToPublish)
\* The rows are read afresh before anything is taken down.
Unlist == At("list") /\ Todo = {} /\ Read("unlist", ToUnpublish)

End ==
  /\ At("unlist") /\ Todo = {} /\ Go(Idle)
  /\ UNCHANGED <<space, booking, listing, delivery, faults, history>>

\* The loop takes up one space, in no particular order: its calendar is read,
\* or its first listing is about to be deleted.
TakeUp(s, op, offers) ==
  /\ s \in Todo
  /\ Go([op |-> op, rows |-> [u \in Todo \ {s} |-> sync.rows[u]], space |-> s,
            was |-> sync.rows[s], ids |-> sync.rows[s], platform |-> First,
            offers |-> offers])
  /\ UNCHANGED <<space, booking, listing, delivery, faults, history>>

buildAvailabilityCalendar(s) == At("list") /\ TakeUp(s, "push", Free(s))
Unpublish(s) == At("unlist") /\ TakeUp(s, "delete", {})

Id == sync.ids[sync.platform]
Shown == listing[sync.platform][Id].state = "up"
NextId(p) == 1 + Cardinality({l \in Listings : listing[p][l] # New})
NoneLeft == NextId(sync.platform) \notin Listings
Remote(l, shown) == listing' = [listing EXCEPT ![sync.platform][l] = shown]

\* The run goes on to the second platform, and after it to the update.
Answered(id, last) ==
  LET run == [sync EXCEPT !.ids[sync.platform] = id] IN
  Go(IF run.platform = First THEN [run EXCEPT !.platform = Second]
        ELSE [run EXCEPT !.op = last, !.platform = First, !.offers = {}])

\* The marketplace updates a listing it is given the id of, and puts up one
\* that has none yet.
Show(l) ==
  /\ IF Id = None THEN l = NextId(sync.platform)
     ELSE l = Id /\ Shown
  /\ Remote(l, [state |-> "up", offers |-> sync.offers])

upsert(l) ==
  /\ At("push") /\ Show(l)
  /\ Answered(l, "store")
  /\ UNCHANGED <<space, booking, delivery, faults, history>>

Fault == faults < MaxFaults /\ faults' = faults + 1

\* The answer is ok and cannot be read, or gives no id: the run goes on with
\* the id it has, and with none for a listing just put up.
upsertUnread(l) ==
  /\ At("push") /\ Fault /\ Show(l)
  /\ Answered(Id, "store")
  /\ adrift' = adrift \cup (IF Id = None THEN {<<sync.platform, l>>} ELSE {})
  /\ UNCHANGED <<space, booking, delivery, inquired>>

\* Mutant: an answer that is not ok forgets the id.
upsertForgets ==
  /\ At("push")
  /\ \/ Fault
     \/ UNCHANGED faults /\ IF Id = None THEN NoneLeft ELSE ~Shown
  /\ Answered(None, "store")
  /\ UNCHANGED <<space, booking, listing, delivery, history>>

\* An answer that is not ok keeps the id, also when it says that there is no
\* such listing any more.
upsertRefused ==
  /\ At("push")
  /\ \/ Fault
     \/ UNCHANGED faults /\ IF Id = None THEN NoneLeft ELSE ~Shown
  /\ Answered(Id, "store")
  /\ UNCHANGED <<space, booking, listing, delivery, history>>

\* What is forgotten with the space at hand: ids that the row does not have
\* yet, and that the row keeps ids of listings taken down.
Dropped ==
  CASE sync.op \in {"push", "store"} -> Pairs(sync.ids) \ Pairs(sync.was)
    [] sync.op \in {"delete", "clear"} ->
         {m \in Pairs(sync.ids) : listing'[m[1]][m[2]].state # "up"}
    [] OTHER -> {}
Forget == adrift' = adrift \cup Dropped

\* The call throws: the loop goes on with the next space, without the update.
\* The listing may be up all the same.
upsertLost ==
  /\ At("push") /\ Fault
  /\ \/ UNCHANGED listing /\ Forget
     \/ \E l \in Listings :
          /\ Show(l)
          /\ adrift' = adrift \cup Dropped \cup ({<<sync.platform, l>>} \ Pairs(sync.was))
  /\ Loops("list")
  /\ UNCHANGED <<space, booking, delivery, inquired>>

\* The update throws when the space was deleted since.
Writes(ids) ==
  /\ UNCHANGED <<booking, listing, delivery, faults, inquired>>
  /\ IF space[sync.space].exists
     THEN space' = [space EXCEPT ![sync.space].ids = ids] /\ UNCHANGED adrift
     ELSE Forget /\ UNCHANGED space

Store == At("store") /\ Writes(sync.ids) /\ Loops("list")

\* A listing that is not there any more counts as deleted.
delete ==
  /\ At("delete")
  /\ IF Id = None THEN UNCHANGED listing ELSE Remote(Id, Gone)
  /\ Answered(Id, "clear")
  /\ UNCHANGED <<space, booking, delivery, faults, history>>

\* A DELETE that is not ok is logged, and the run goes on as if it were.
deleteRefused ==
  /\ At("delete") /\ Id # None /\ Shown /\ Fault
  /\ adrift' = adrift \cup {<<sync.platform, Id>>}
  /\ Answered(Id, "clear")
  /\ UNCHANGED <<space, booking, listing, delivery, inquired>>

deleteLost ==
  /\ At("delete") /\ Id # None /\ Fault
  /\ UNCHANGED listing \/ Remote(Id, Gone)
  /\ Forget /\ Loops("unlist")
  /\ UNCHANGED <<space, booking, delivery, inquired>>

\* Mutant: the id of one platform is cleared.
ClearFirst ==
  At("clear") /\ Writes([sync.ids EXCEPT ![First] = None]) /\ Loops("unlist")

Clear == At("clear") /\ Writes(NoIds) /\ Loops("unlist")

\* The process stops, with the run.
Stop ==
  /\ sync # Idle /\ Fault
  /\ UNCHANGED listing /\ Forget /\ Go(Idle)
  /\ UNCHANGED <<space, booking, delivery, inquired>>

-----------------------------------------------------------------------------
(* The webhook. *)

Turn(d, memory) == delivery' = [delivery EXCEPT ![d] = memory]
Waits(d, op) == delivery[d].op = op

\* Mutant: bookings that were cancelled are not looked at.
MarkedHeld(i) ==
  \E b \in Bookings : booking[b] # None /\ booking[b].holds /\ booking[b].inquiry = i.id

\* The marker is looked for in the notes of every booking, whatever its status
\* and whatever platform it came from.
Marked(i) == \E b \in Bookings : booking[b] # None /\ booking[b].inquiry = i.id

\* The inquiry arrives, for the first time or again.
Receive(d, i) ==
  /\ delivery[d] = Idle /\ ~Marked(i)
  /\ Turn(d, [op |-> "resolve", inquiry |-> i])
  /\ excused' = excused \cup
       ({i.id} \cap {delivery[e].inquiry.id : e \in {f \in Deliveries : delivery[f] # Idle}})
  /\ UNCHANGED <<space, booking, listing, sync, faults, adrift, booked>>

Named(i) ==
  IF i.space # None /\ space[i.space].exists THEN {i.space}
  ELSE {s \in Spaces : i.listing # None /\ space[s].ids[i.platform] = i.listing}

resolveSpace(d, s) ==
  /\ Waits(d, "resolve") /\ s \in Named(delivery[d].inquiry)
  /\ Turn(d, [op |-> "conflict", inquiry |-> delivery[d].inquiry, space |-> s])
  /\ UNCHANGED <<space, booking, listing, sync, faults, history>>

FindConflict(d) ==
  /\ Waits(d, "conflict")
  /\ LET period == delivery[d].inquiry.period IN
     \A b \in Held(delivery[d].space) : ~Overlap(b, period[1], period[2])
  /\ Turn(d, [delivery[d] EXCEPT !.op = "create"])
  /\ UNCHANGED <<space, booking, listing, sync, faults, history>>

Create(d, b) ==
  /\ Waits(d, "create") /\ booking[b] = None /\ space[delivery[d].space].exists
  /\ booking' = [booking EXCEPT ![b] =
       [holds |-> TRUE, space |-> delivery[d].space,
        period |-> delivery[d].inquiry.period, inquiry |-> delivery[d].inquiry.id]]
  /\ Turn(d, Idle)
  /\ booked' = booked \cup {delivery[d].inquiry.id}
  /\ UNCHANGED <<space, listing, sync, faults, adrift, excused>>

\* No space, a conflict, or a failure: nothing was written yet.
Reject(d) ==
  /\ delivery[d] # Idle /\ Turn(d, Idle)
  /\ UNCHANGED <<space, booking, listing, sync, faults, history>>

-----------------------------------------------------------------------------
Staff ==
  \/ \E b \in Bookings : Settle(b) \/ RemoveBooking(b)
                        \/ \E holds \in BOOLEAN : Refuse(b, holds)
                        \/ \E s \in Spaces, p \in Periods : Book(b, s, p)
  \/ \E s \in Spaces : remove(s) \/ \E open \in BOOLEAN : update(s, open)

\* What the job does as long as it is answered.
Working ==
  \/ Start \/ Unlist \/ End \/ upsertRefused \/ Store \/ delete \/ Clear
  \/ \E s \in Spaces : buildAvailabilityCalendar(s) \/ Unpublish(s)
  \/ \E l \in Listings : upsert(l)

Failing ==
  \/ upsertLost \/ (\E l \in Listings : upsertUnread(l))
  \/ deleteRefused \/ deleteLost \/ Stop

Webhook(d) ==
  \/ \E i \in Inquiries : Receive(d, i)
  \/ \E s \in Spaces : resolveSpace(d, s)
  \/ FindConflict(d)
  \/ \E b \in Bookings : Create(d, b)
  \/ Reject(d)

Next == Staff \/ Working \/ Failing \/ \E d \in Deliveries : Webhook(d)

Spec == Init /\ [][Next]_vars

\* Cron starts the job again and again, and its awaits come back.
FairSpec == Spec /\ WF_vars(Working)

-----------------------------------------------------------------------------
(* Properties. *)

\* No listing is left standing that the service does not know: one that is up
\* is stored at a space or at hand in the run, unless a call for it was refused,
\* lost or answered without its id, its run stopped or its space was deleted.
NoStrayListing ==
  \A p \in Platforms, l \in Listings :
    listing[p][l].state = "up" /\ <<p, l>> \notin adrift
    => \/ \E s \in Spaces : space[s].ids[p] = l
       \/ sync.op \in {"push", "store"} /\ sync.ids[p] = l

\* A stored id is that of a listing that is up, unless a run took the listing
\* down and then failed; a run keeps the ids of a space until it has dealt with
\* both platforms.
StoredIsUp ==
  \A s \in Spaces, p \in Platforms :
    LET l == space[s].ids[p] IN
    l # None /\ <<p, l>> \notin adrift
    => \/ listing[p][l].state = "up"
       \/ sync.op \in {"delete", "clear"} /\ sync.ids[p] = l

\* An inquiry that was booked is booked again only if two deliveries of it
\* overlapped, or if the notes that tell are gone: deleted with a booking, or
\* written over when it was rejected or refused.  Cancelling leaves them.
InquiryBookedOnce ==
  [][\A b \in Bookings :
       /\ booking[b] = None /\ booking'[b] # None /\ booking'[b].inquiry \in booked
       => booking'[b].inquiry \in excused]_vars

\* The listings of a space cease to offer an hour that is booked, whatever
\* calendar the run in flight has read before the booking.
Taken(s, h) == space[s].open /\ \E b \in Held(s) : Overlap(b, h, h + 1)
Offered(s, h) == \E m \in Stored(s) : h \in listing[m[1]][m[2]].offers
CalendarCatchesUp ==
  \A s \in Spaces, h \in Hours : []<>(~Taken(s, h) \/ ~Offered(s, h))

\* A space that stays delisted or not AVAILABLE loses its ids in the end,
\* whatever failed in between.
DelistedComesDown ==
  \A s \in Spaces : []<>(space[s].open \/ Stored(s) = {})
=============================================================================
