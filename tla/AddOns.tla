------------------------------- MODULE AddOns -------------------------------
(***************************************************************************)
(* Add-on services from the landlord's catalogue to the invoice: offered   *)
(* with a space, chosen in an application or a booking, quoted, billed,    *)
(* and deleted at any time: backend/src/addon-service/, the add-ons of     *)
(* space.service, booking.service and booking-application.service.         *)
(*                                                                         *)
(* `call` holds the handlers in flight and what each has read; each await  *)
(* is a step, a transaction is one step.  A foreign key makes an insertion *)
(* throw when a row it names is gone, and a deletion cascades.  Of spaces  *)
(* only the landlord of their floor is kept; how bookings, applications    *)
(* and invoices race otherwise is the subject of BookingWorkflow.          *)
(***************************************************************************)
EXTENDS FiniteSets, Naturals

CONSTANTS
  Services, Spaces, Landlords, Applications,
  Bookings,        \* rows; each is inserted once
  Calls,           \* how many calls are in flight at once
  Edits,           \* PATCH bodies of a service: [tenant, active]
  Floors,          \* landlords to whose floor a PATCH moves a space
  Selections,      \* sets of services that a PATCH chooses for a space
  Baskets,         \* and that a booking or an application asks for
  ByHand,          \* services that staff add to a booking
  Same,            \* a field that a body does not have
  None

ASSUME NothingIsNobody == {Same, None} \cap Landlords = {}
ASSUME EditsAreBodies ==
  Edits \subseteq [tenant : Landlords \cup {Same}, active : BOOLEAN \cup {Same}]
ASSUME FloorsAreOwned == Floors \subseteq Landlords /\ ByHand \subseteq Services
ASSUME ChoicesAreServices == Selections \cup Baskets \subseteq SUBSET Services

VARIABLES
  service,         \* the add_on_services table
  landlord,        \* of each space; None when there is no such space
  offered,         \* the space_addon_services table
  application,     \* the booking_applications table, and its add-ons
  booking,         \* the bookings table, its add-ons, and what was invoiced
  call,            \* the handlers in flight
  strayed,         \* history: <<space, service>> of which a PATCH (of the
                   \*   service, the space or its floor) gave one to another
                   \*   landlord
  apart,           \* history: <<space, service>> that a PATCH took apart, that
                   \*   a failure kept apart, or of which the space came after
                   \*   the service, and that nobody linked since
  quoted,          \* history: the add-ons that a booking's total counts, until
                   \*   an invoice lists them or staff change them (then None)
  late             \* history: <<call, booking>> of which the call deletes a
                   \*   service that the booking came to use since it looked

tables == <<service, landlord, offered, application, booking>>
history == <<strayed, apart, quoted>>
vars == <<tables, call, history, late>>

-----------------------------------------------------------------------------
ServiceRow == [state : {"unborn", "live", "gone"},
               tenant : Landlords \cup {None}, active : BOOLEAN]
NoService == [state |-> "unborn", tenant |-> None, active |-> FALSE]

\* Statuses that remove() asks for, and those of getUsageStats's activeBookings.
Protected == {"CONFIRMED", "CHECKED_IN", "COMPLETED"}
ActiveNow == {"CONFIRMED", "CHECKED_IN"}
Status == Protected \cup {"PENDING_APPROVAL", "PENDING_PHONE_CONFIRMATION",
                          "ACTIVE", "CANCELLED"}

BookingRow == [status : Status \cup {"unborn", "deleted"}, space : Spaces \cup {None},
               addons : SUBSET Services, billed : (SUBSET Services) \cup {None}]
NoBooking == [status |-> "unborn", space |-> None, addons |-> {}, billed |-> None]
Deleted == [NoBooking EXCEPT !.status = "deleted"]
ApplicationRow == [status : {"unborn", "PENDING", "ACCEPTED", "deleted"},
                   space : Spaces \cup {None}, addons : SUBSET Services]
NoApplication == [status |-> "unborn", space |-> None, addons |-> {}]

Edit == [tenant : Landlords \cup {Same}, active : BOOLEAN \cup {Same}]
Idle == [op |-> "idle"]
Catalogue ==
  [op : {"write"}, service : Services, edit : Edit, owner : Landlords \cup {None}]
  \cup [op : {"spaces"}, service : Services, tenant : Landlords]
  \cup [op : {"link"}, service : Services, spaces : SUBSET Spaces]
  \cup [op : {"delete"}, service : Services]
Offering ==
  [op : {"patch"}, space : Spaces, floor : Landlords \cup {Same}, current : Landlords,
   chosen : (SUBSET Services) \cup {Same}]
  \cup [op : {"check"}, space : Spaces, landlord : Landlords, chosen : SUBSET Services]
  \cup [op : {"clear", "choose"}, space : Spaces, chosen : SUBSET Services]
Choosing ==
  [op : {"offer"}, space : Spaces, landlord : Landlords, chosen : SUBSET Services]
  \cup [op : {"insert", "submit"}, space : Spaces, chosen : SUBSET Services]
  \cup [op : {"lookup"}, space : Spaces, landlord : Landlords, chosen : SUBSET Services,
        found : SUBSET Services]
  \cup [op : {"accept"}, application : Applications, addons : SUBSET Services]
  \cup [op : {"bill"}, booking : Bookings]

TypeOK ==
  /\ service \in [Services -> ServiceRow]
  /\ landlord \in [Spaces -> Landlords \cup {None}]
  /\ offered \subseteq Spaces \X Services
  /\ application \in [Applications -> ApplicationRow]
  /\ booking \in [Bookings -> BookingRow]
  /\ call \in [Calls -> Catalogue \cup Offering \cup Choosing \cup {Idle}]
  /\ strayed \cup apart \subseteq Spaces \X Services
  /\ quoted \in [Bookings -> (SUBSET Services) \cup {None}]
  /\ late \subseteq Calls \X Bookings

Init ==
  /\ service = [x \in Services |-> NoService]
  /\ landlord \in [Spaces -> Landlords \cup {None}]
  /\ offered = {}
  /\ application = [a \in Applications |-> NoApplication]
  /\ booking = [b \in Bookings |-> NoBooking]
  /\ call = [k \in Calls |-> Idle]
  /\ strayed = {} /\ apart = {} /\ late = {}
  /\ quoted = [b \in Bookings |-> None]

At(k, op) == call[k].op = op
Begin(k, memory) == call[k] = Idle /\ call' = [call EXCEPT ![k] = memory]
Go(k, memory) == call' = [call EXCEPT ![k] = memory]
Finish(k) == Go(k, Idle)

Live(x) == service[x].state = "live"
Active(l) == {x \in Services : Live(x) /\ service[x].active /\ service[x].tenant = l}
\* (A pair of which one is gone is not worth a memory.)
Pairs(x) == {s \in Spaces : landlord[s] # None} \X {y \in {x} : Live(y)}
Carrying(b, x) == booking[b].status \in Status /\ x \in booking[b].addons
InUse(b, x) == Carrying(b, x) /\ booking[b].status \in ActiveNow

\* Bound: where a service or a space may change hands nobody books, and the
\* other way round: no property relates the two.
Choosers == {"offer", "insert", "lookup", "submit"}
NobodyBooks ==
  /\ \A b \in Bookings : booking[b] = NoBooking
  /\ \A a \in Applications : application[a] = NoApplication
  /\ \A k \in Calls : call[k].op \notin Choosers
HandsOver(m) == \/ m.op = "write" /\ m.edit.tenant # Same
                \/ m.op = "patch" /\ m.floor # Same
NothingMoves == strayed = {} /\ \A k \in Calls : ~HandsOver(call[k])

\* The id of a new space is one that no call knows.  (A row serves again.)
Unknown(s) ==
  \A k \in Calls :
    /\ call[k].op \in {"patch", "check", "clear", "choose"} \cup Choosers => call[k].space # s
    /\ At(k, "link") => s \notin call[k].spaces

-----------------------------------------------------------------------------
(* The catalogue: addon-service.service. *)

create(k, x, l, active) ==
  /\ service[x] = NoService
  /\ service' = [service EXCEPT ![x] = [state |-> "live", tenant |-> l, active |-> active]]
  /\ IF active THEN Begin(k, [op |-> "spaces", service |-> x, tenant |-> l])
     ELSE call[k] = Idle /\ UNCHANGED call
  /\ UNCHANGED <<landlord, offered, application, booking, history>>

\* findOne.  `owner` is what activate keeps of the row it read.
Write(k, x, edit, owner) ==
  /\ Live(x)
  /\ Begin(k, [op |-> "write", service |-> x, edit |-> edit, owner |-> owner])
  /\ UNCHANGED <<tables, history>>

update(k, x) ==
  \E edit \in Edits : (edit.tenant = Same \/ NobodyBooks) /\ Write(k, x, edit, None)
activate(k, x) == Write(k, x, [tenant |-> Same, active |-> TRUE], service[x].tenant)
deactivate(k, x) == Write(k, x, [tenant |-> Same, active |-> FALSE], None)

Patched(row, edit) ==
  [row EXCEPT !.tenant = IF edit.tenant = Same THEN @ ELSE edit.tenant,
              !.active = IF edit.active = Same THEN @ ELSE edit.active]

\* Mutant: a service that is switched on is linked to no space.
LinksCreatedOnly(edit) == FALSE
Links(edit) == edit.active = TRUE

\* The write throws on a row that is gone.
writeService(k) ==
  /\ At(k, "write")
  /\ LET x == call[k].service  edit == call[k].edit  owner == call[k].owner IN
     IF ~Live(x) THEN Finish(k) /\ UNCHANGED <<service, strayed>>
     ELSE /\ service' = [service EXCEPT ![x] = Patched(@, edit)]
          /\ strayed' = IF service'[x].tenant # service[x].tenant
                        THEN strayed \cup (Spaces \X {x}) ELSE strayed
          /\ IF Links(edit)
             THEN Go(k, [op |-> "spaces", service |-> x,
                         tenant |-> IF owner # None THEN owner ELSE service'[x].tenant])
             ELSE Finish(k)
  /\ UNCHANGED <<landlord, offered, application, booking, apart, quoted>>

\* linkServiceToAllLandlordSpaces reads the spaces, and then links them all.
readSpaces(k) ==
  /\ At(k, "spaces")
  /\ Go(k, [op |-> "link", service |-> call[k].service,
            spaces |-> {s \in Spaces : landlord[s] = call[k].tenant}])
  /\ UNCHANGED <<tables, history>>

\* Links that are there already are skipped; one row that is gone fails all.
linkSpaces(k) ==
  /\ At(k, "link")
  /\ LET x == call[k].service  rows == call[k].spaces \X {x} IN
     IF rows = {} \/ (Live(x) /\ \A s \in call[k].spaces : landlord[s] # None)
     THEN offered' = offered \cup rows /\ apart' = apart \ rows
     ELSE apart' = apart \cup Pairs(x) /\ UNCHANGED offered
  /\ Finish(k)
  /\ UNCHANGED <<service, landlord, application, booking, strayed, quoted>>

\* Mutant: a guest who has arrived does not count.
UsedConfirmed(x) == \E b \in Bookings : Carrying(b, x) /\ booking[b].status = "CONFIRMED"
Used(x) == \E b \in Bookings : Carrying(b, x) /\ booking[b].status \in Protected

remove(k, x) ==
  /\ Live(x) /\ ~Used(x)
  /\ Begin(k, [op |-> "delete", service |-> x])
  /\ UNCHANGED <<tables, history>>

\* The links, and the add-ons of applications and bookings, go with it.
deleteService(k) ==
  /\ At(k, "delete")
  /\ LET x == call[k].service IN
     IF ~Live(x) THEN UNCHANGED <<tables, strayed, apart>>
     ELSE /\ service' = [service EXCEPT ![x] = [NoService EXCEPT !.state = "gone"]]
          /\ offered' = {o \in offered : o[2] # x}
          /\ application' = [a \in Applications |->
               [application[a] EXCEPT !.addons = @ \ {x}]]
          /\ booking' = [b \in Bookings |-> [booking[b] EXCEPT !.addons = @ \ {x}]]
          /\ strayed' = {o \in strayed : o[2] # x}
          /\ apart' = {o \in apart : o[2] # x}
          /\ UNCHANGED landlord
  /\ Finish(k)
  /\ UNCHANGED quoted

-----------------------------------------------------------------------------
(* What a space offers: POST, PATCH and DELETE /spaces, PATCH /floors/:id. *)

\* Nothing is linked to a new space but what its body chooses.
createSpace(k, s, l, chosen) ==
  /\ landlord[s] = None /\ Unknown(s)
  /\ landlord' = [landlord EXCEPT ![s] = l]
  /\ apart' = apart \cup ({s} \X {x \in Services : Live(x)})
  /\ IF chosen = Same THEN call[k] = Idle /\ UNCHANGED call
     ELSE Begin(k, [op |-> "check", space |-> s, landlord |-> l, chosen |-> chosen])
  /\ UNCHANGED <<service, offered, application, booking, strayed, quoted>>

\* A floor goes to a building of l with the spaces on it.  Bound: while no call
\* has yet to read the floor of the space it edits.
moveFloor(S, l) ==
  /\ NobodyBooks /\ \A k \in Calls : ~At(k, "patch") /\ ~At(k, "check")
  /\ \A s \in S : landlord[s] \notin {None, l}
  /\ landlord' = [s \in Spaces |-> IF s \in S THEN l ELSE landlord[s]]
  /\ strayed' = strayed \cup (S \X Services)
  /\ UNCHANGED <<service, offered, application, booking, call, apart, quoted>>

patchSpace(k, s, floor, chosen) ==
  /\ landlord[s] # None /\ (floor = Same \/ NobodyBooks)
  /\ Begin(k, [op |-> "patch", space |-> s, floor |-> floor, current |-> landlord[s],
               chosen |-> chosen])
  /\ UNCHANGED <<tables, history>>

\* syncAddons takes the floor of the body, or else the one that was read first.
writeSpace(k) ==
  /\ At(k, "patch")
  /\ LET s == call[k].space  floor == call[k].floor IN
     IF landlord[s] = None THEN Finish(k) /\ UNCHANGED <<landlord, strayed>>
     ELSE /\ landlord' = [landlord EXCEPT ![s] = IF floor = Same THEN @ ELSE floor]
          /\ strayed' = IF landlord'[s] # landlord[s]
                        THEN strayed \cup ({s} \X Services) ELSE strayed
          /\ IF call[k].chosen = Same THEN Finish(k)
             ELSE Go(k, [op |-> "check", space |-> s, chosen |-> call[k].chosen,
                         landlord |-> IF floor = Same THEN call[k].current ELSE floor])
  /\ UNCHANGED <<service, offered, application, booking, apart, quoted>>

\* Mutant: any active service will do.
ValidAnywhere(chosen, l) == chosen \subseteq UNION {Active(m) : m \in Landlords}
Valid(chosen, l) == chosen \subseteq Active(l)

checkServices(k) ==
  /\ At(k, "check")
  /\ IF Valid(call[k].chosen, call[k].landlord)
     THEN Go(k, [op |-> "clear", space |-> call[k].space, chosen |-> call[k].chosen])
     ELSE Finish(k)
  /\ UNCHANGED <<tables, history>>

clearLinks(k) ==
  /\ At(k, "clear")
  /\ LET s == call[k].space IN
     /\ offered' = {o \in offered : o[1] # s}
     /\ apart' = apart \cup {o \in UNION {Pairs(x) : x \in Services} : o[1] = s}
  /\ IF call[k].chosen = {} THEN Finish(k) ELSE Go(k, [call[k] EXCEPT !.op = "choose"])
  /\ UNCHANGED <<service, landlord, application, booking, strayed, quoted>>

\* One link that exists by now, or one row that is gone, fails the insertion.
chooseLinks(k) ==
  /\ At(k, "choose")
  /\ LET rows == {call[k].space} \X call[k].chosen IN
     IF /\ rows \cap offered = {} /\ landlord[call[k].space] # None
        /\ \A x \in call[k].chosen : Live(x)
     THEN offered' = offered \cup rows /\ apart' = apart \ rows
     ELSE UNCHANGED <<offered, apart>>
  /\ Finish(k)
  /\ UNCHANGED <<service, landlord, application, booking, strayed, quoted>>

\* Bookings, applications and links cascade.  The deletion of a floor or of a
\* building does the same for each space, in one transaction.
removeSpace(s) ==
  /\ landlord[s] # None
  /\ landlord' = [landlord EXCEPT ![s] = None]
  /\ offered' = {o \in offered : o[1] # s}
  /\ booking' = [b \in Bookings |-> IF booking[b].space = s THEN Deleted ELSE booking[b]]
  /\ application' = [a \in Applications |->
       IF application[a].space = s THEN [NoApplication EXCEPT !.status = "deleted"]
       ELSE application[a]]
  /\ apart' = {o \in apart : o[1] # s}
  /\ quoted' = [b \in Bookings |-> IF booking[b].space = s THEN None ELSE quoted[b]]
  /\ UNCHANGED <<service, call, strayed>>

-----------------------------------------------------------------------------
(* Choosing: POST /bookings and POST /booking-applications. *)

\* Bound: a call that will insert a booking has a row left for it.
Inserting == {k \in Calls : call[k].op \in {"offer", "insert", "accept"}}
BookingLeft ==
  Cardinality({b \in Bookings : booking[b] = NoBooking}) > Cardinality(Inserting)

book(k, s, chosen) ==
  /\ BookingLeft /\ NothingMoves /\ landlord[s] # None
  /\ Begin(k, [op |-> "offer", space |-> s, landlord |-> landlord[s], chosen |-> chosen])
  /\ UNCHANGED <<tables, history>>

LinkedActive(s) == {x \in Services : <<s, x>> \in offered /\ service[x].active}

\* The links of the space and, over them, all that its landlord has active.
resolveBookingAddons(k) ==
  /\ At(k, "offer")
  /\ IF call[k].chosen \subseteq LinkedActive(call[k].space) \cup Active(call[k].landlord)
     THEN Go(k, [op |-> "insert", space |-> call[k].space, chosen |-> call[k].chosen])
     ELSE Finish(k)
  /\ UNCHANGED <<tables, history>>

Insert(b, status, s, addons) ==
  /\ booking[b] = NoBooking
  /\ booking' = [booking EXCEPT ![b] =
       [status |-> status, space |-> s, addons |-> addons, billed |-> None]]
  /\ quoted' = [quoted EXCEPT ![b] = addons]

\* The add-ons are inserted with the booking.  Bound: staff ask for no other
\* status.
insertBooking(k) ==
  /\ At(k, "insert")
  /\ LET s == call[k].space  chosen == call[k].chosen IN
     IF landlord[s] # None /\ \A x \in chosen : Live(x)
     THEN \E b \in Bookings :
            \/ Insert(b, "PENDING_APPROVAL", s, chosen) /\ Finish(k)
            \/ Insert(b, "CONFIRMED", s, chosen) /\ Go(k, [op |-> "bill", booking |-> b])
     ELSE Finish(k) /\ UNCHANGED <<booking, quoted>>
  /\ UNCHANGED <<service, landlord, offered, application, strayed, apart>>

apply(k, s, chosen) ==
  /\ NothingMoves /\ landlord[s] # None
  /\ Begin(k, [op |-> "lookup", space |-> s, landlord |-> landlord[s], chosen |-> chosen,
               found |-> chosen \cap LinkedActive(s)])
  /\ UNCHANGED <<tables, history>>

\* What the links do not have is looked up among the landlord's, one by one.
resolveApplicationAddons(k) ==
  /\ At(k, "lookup")
  /\ IF call[k].chosen \subseteq call[k].found \cup Active(call[k].landlord)
     THEN Go(k, [op |-> "submit", space |-> call[k].space, chosen |-> call[k].chosen])
     ELSE Finish(k)
  /\ UNCHANGED <<tables, history>>

\* Bound: with no row left the call waits.
insertApplication(k) ==
  /\ At(k, "submit")
  /\ LET s == call[k].space  chosen == call[k].chosen IN
     IF landlord[s] # None /\ \A x \in chosen : Live(x)
     THEN \E a \in Applications :
            /\ application[a] = NoApplication
            /\ application' = [application EXCEPT ![a] =
                 [status |-> "PENDING", space |-> s, addons |-> chosen]]
     ELSE UNCHANGED application
  /\ Finish(k)
  /\ UNCHANGED <<service, landlord, offered, booking, history>>

\* The add-ons are read, and priced, before the transaction.
accept(k, a) ==
  /\ BookingLeft /\ application[a].status = "PENDING"
  /\ Begin(k, [op |-> "accept", application |-> a, addons |-> application[a].addons])
  /\ UNCHANGED <<tables, history>>

\* One add-on that is gone rolls the transaction back; so does the space.
acceptWrite(k) ==
  /\ At(k, "accept")
  /\ LET a == call[k].application IN
     IF application[a].status # "deleted" /\ \A x \in call[k].addons : Live(x)
     THEN \E b \in Bookings :
            /\ Insert(b, "PENDING_PHONE_CONFIRMATION", application[a].space, call[k].addons)
            /\ application' = [application EXCEPT ![a].status = "ACCEPTED"]
            /\ Go(k, [op |-> "bill", booking |-> b])
     ELSE Finish(k) /\ UNCHANGED <<application, booking, quoted>>
  /\ UNCHANGED <<service, landlord, offered, strayed, apart>>

-----------------------------------------------------------------------------
(* The life of a booking, as far as it counts for its add-ons. *)

approve(k, b) ==
  /\ booking[b].status = "PENDING_APPROVAL"
  /\ booking' = [booking EXCEPT ![b].status = "CONFIRMED"]
  /\ Begin(k, [op |-> "bill", booking |-> b])
  /\ UNCHANGED <<service, landlord, offered, application, history>>

\* Beside the rent: the add-ons that the booking has when it is read.  (The
\* insertion of the invoice, an await later, changes no add-on.)
\* Mutant: only those that can still be booked.
LinesOffered(b) == {x \in booking[b].addons : service[x].active}
Lines(b) == booking[b].addons

generateInvoiceFromBooking(k) ==
  /\ At(k, "bill")
  /\ LET b == call[k].booking IN
     IF booking[b].status \in Status
     THEN /\ booking' = [booking EXCEPT ![b].billed = Lines(b)]
          /\ quoted' = [quoted EXCEPT ![b] = None]
     ELSE UNCHANGED <<booking, quoted>>
  /\ Finish(k)
  /\ UNCHANGED <<service, landlord, offered, application, strayed, apart>>

\* Check-in, check-out, the reception's steps to ACTIVE, and cancellation.
Steps == {<<"CONFIRMED", "CHECKED_IN">>, <<"CHECKED_IN", "COMPLETED">>,
          <<"PENDING_PHONE_CONFIRMATION", "ACTIVE">>}
         \cup (Status \ {"CANCELLED"}) \X {"CANCELLED"}

proceed(b, status) ==
  /\ <<booking[b].status, status>> \in Steps
  /\ booking' = [booking EXCEPT ![b].status = status]
  /\ UNCHANGED <<service, landlord, offered, application, call, history>>

\* Bound: staff change the add-ons of a booking before its invoice, and have it
\* list a service once.  The total stays what it was.
Adjustable(b) == booking[b].billed = None /\ booking[b].status \in Status

addAddon(b, x) ==
  /\ Adjustable(b) /\ Live(x) /\ x \notin booking[b].addons
  /\ booking' = [booking EXCEPT ![b].addons = @ \cup {x}]
  /\ quoted' = [quoted EXCEPT ![b] = None]
  /\ UNCHANGED <<service, landlord, offered, application, call, strayed, apart>>

removeAddon(b, x) ==
  /\ Adjustable(b) /\ Carrying(b, x)
  /\ booking' = [booking EXCEPT ![b].addons = @ \ {x}]
  /\ quoted' = [quoted EXCEPT ![b] = None]
  /\ UNCHANGED <<service, landlord, offered, application, call, strayed, apart>>

-----------------------------------------------------------------------------
\* An await rejects, or the process stops.
Fail(k) ==
  /\ call[k] # Idle
  /\ Finish(k)
  /\ apart' = IF At(k, "spaces") \/ At(k, "link")
              THEN apart \cup Pairs(call[k].service) ELSE apart
  /\ UNCHANGED <<tables, strayed, quoted>>

CatalogueStep(k) ==
  \/ \E x \in Services :
       \/ \E l \in Landlords, active \in BOOLEAN : create(k, x, l, active)
       \/ update(k, x) \/ activate(k, x) \/ deactivate(k, x) \/ remove(k, x)
  \/ writeService(k) \/ readSpaces(k) \/ linkSpaces(k) \/ deleteService(k)

SpaceStep(k) ==
  \/ \E s \in Spaces, floor \in Floors \cup {Same}, chosen \in Selections \cup {Same} :
       patchSpace(k, s, floor, chosen)
  \/ \E s \in Spaces, l \in Landlords, chosen \in Selections \cup {Same} :
       createSpace(k, s, l, chosen)
  \/ writeSpace(k) \/ checkServices(k) \/ clearLinks(k) \/ chooseLinks(k)

BookingStep(k) ==
  \/ \E s \in Spaces, chosen \in Baskets : book(k, s, chosen) \/ apply(k, s, chosen)
  \/ resolveBookingAddons(k) \/ insertBooking(k)
  \/ resolveApplicationAddons(k) \/ insertApplication(k)
  \/ \E a \in Applications : accept(k, a)
  \/ acceptWrite(k)
  \/ \E b \in Bookings : approve(k, b)
  \/ generateInvoiceFromBooking(k)

Others ==
  \/ \E s \in Spaces : removeSpace(s)
  \/ \E S \in SUBSET Spaces, l \in Landlords : moveFloor(S, l)
  \/ \E b \in Bookings, status \in Status : proceed(b, status)
  \/ \E b \in Bookings, x \in ByHand : addAddon(b, x) \/ removeAddon(b, x)

Works ==
  \/ \E k \in Calls : CatalogueStep(k) \/ SpaceStep(k) \/ BookingStep(k) \/ Fail(k)
  \/ Others

Late(k, b) ==
  /\ call'[k] = call[k] /\ At(k, "delete")
  /\ \/ <<k, b>> \in late
     \/ InUse(b, call[k].service)' /\ ~InUse(b, call[k].service)
Records == late' = {m \in Calls \X Bookings : Late(m[1], m[2])}

Next == Works /\ Records

Spec == Init /\ [][Next]_vars

-----------------------------------------------------------------------------
(* Properties. *)

\* A space offers only what its landlord has in the catalogue, unless a PATCH
\* gave the service, the space, or its floor, to another landlord.
OffersOwn ==
  \A o \in offered \ strayed : service[o[2]].tenant = landlord[o[1]]

\* "Make a published service selectable on every space owned by the landlord":
\* an active service is linked to every space that was his when it was last
\* switched on, and to each later one for which it was chosen, unless a PATCH of
\* the space took it off, the linking failed or is under way, or one of the two
\* changed hands.  (A space that is created later is not linked by itself.)
SelectableEverywhere ==
  \A s \in Spaces, x \in Services :
    /\ Live(x) /\ service[x].active /\ service[x].tenant = landlord[s]
    /\ <<s, x>> \notin strayed \cup apart
    /\ \A k \in Calls : call[k].op \in {"spaces", "link"} => call[k].service # x
    => <<s, x>> \in offered

\* The invoice of a booking lists what the applicant was quoted, as far as it is
\* still in the catalogue then, unless staff changed the add-ons in between.
QuotedIsBilled ==
  [][\A b \in Bookings :
       quoted[b] # None /\ booking'[b].billed # None =>
         booking'[b].billed = {x \in quoted[b] : Live(x)}]_vars

\* A service is not deleted under a booking that its usage figures count as an
\* active one (CONFIRMED or CHECKED_IN), unless the booking was confirmed, or
\* given the service, after the deletion had looked.  Nothing is promised to an
\* application, or to a booking on its way to CONFIRMED or in status ACTIVE.
ActiveUsageKept ==
  [][\A b \in Bookings, x \in Services :
       InUse(b, x) /\ service'[x].state = "gone" =>
         \E k \in Calls : At(k, "delete") /\ call[k].service = x /\ <<k, b>> \in late]_vars
=============================================================================
