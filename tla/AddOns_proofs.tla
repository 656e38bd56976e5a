---------------------------- MODULE AddOns_proofs ----------------------------
(***************************************************************************)
(* Proofs about AddOns, for any catalogue and any number of calls in       *)
(* flight.                                                                 *)
(*                                                                         *)
(* Each call acts on what it read an await or two ago.  The invariants say *)
(* what of it still holds as long as neither the service nor the space     *)
(* changed hands: the landlord that a call keeps, and the spaces it is     *)
(* about to link, are those of the service (Provided) or of the space      *)
(* (Placed), and a deletion in flight is late for whoever uses the service *)
(* by now (Noticed).                                                       *)
(***************************************************************************)
EXTENDS AddOns, TLAPS

\* A service that exists is somebody's; what refers to a service or a space
\* refers to one that exists.
Rooted ==
  /\ \A x \in Services : Live(x) => service[x].tenant # None
  /\ \A o \in offered : Live(o[2]) /\ landlord[o[1]] # None
  /\ \A b \in Bookings : \A x \in booking[b].addons : Live(x)

TInv == TypeOK /\ Rooted

\* What a call is about has been in the catalogue.
Born ==
  \A k \in Calls :
    /\ call[k].op \in {"write", "spaces", "link", "delete"} =>
         service[call[k].service].state # "unborn"
    /\ call[k].op \in {"clear", "choose"} =>
         \A x \in call[k].chosen : service[x].state # "unborn"

\* The service exists, and neither it nor the space was given to another landlord.
Settled(s, x) == Live(x) /\ <<s, x>> \notin strayed

\* The landlord for whom a service is about to be linked is its own, and the
\* spaces that were read are those of its landlord, but for those that came, or
\* were taken off, since.
Provided ==
  \A k \in Calls, s \in Spaces :
    /\ At(k, "write") /\ call[k].owner # None /\ Settled(s, call[k].service) =>
         service[call[k].service].tenant = call[k].owner
    /\ At(k, "spaces") /\ Settled(s, call[k].service) =>
         service[call[k].service].tenant = call[k].tenant
    /\ At(k, "link") /\ Settled(s, call[k].service) /\ landlord[s] # None =>
         /\ s \in call[k].spaces => landlord[s] = service[call[k].service].tenant
         /\ landlord[s] = service[call[k].service].tenant =>
              s \in call[k].spaces \/ <<s, call[k].service>> \in apart \cup offered

\* The landlord for whom the links of a space are chosen is its own, and what
\* was found valid is his.
Placed ==
  \A k \in Calls, x \in Services :
    /\ At(k, "patch") /\ <<call[k].space, x>> \notin strayed
       /\ landlord[call[k].space] # None /\ service[x].state # "gone" =>
         landlord[call[k].space] = call[k].current
    /\ At(k, "check") /\ <<call[k].space, x>> \notin strayed
       /\ landlord[call[k].space] # None /\ service[x].state # "gone" =>
         landlord[call[k].space] = call[k].landlord
    /\ At(k, "clear") \/ At(k, "choose") =>
         (x \in call[k].chosen /\ Settled(call[k].space, x) /\ landlord[call[k].space] # None =>
            service[x].tenant = landlord[call[k].space])

\* A booking that was quoted for has what is left of it, and no invoice yet.
Quoted ==
  \A b \in Bookings : quoted[b] # None =>
    /\ booking[b].billed = None
    /\ booking[b].addons = {x \in quoted[b] : Live(x)}
    /\ \A x \in quoted[b] : service[x].state # "unborn"

\* A deletion in flight is late for every booking that uses its service.
Noticed ==
  \A k \in Calls, b \in Bookings :
    At(k, "delete") /\ InUse(b, call[k].service) => <<k, b>> \in late

-----------------------------------------------------------------------------
(* Types. *)

Memory == Catalogue \cup Offering \cup Choosing \cup {Idle}

\* What each kind of call remembers.
LEMMA Remembered ==
  ASSUME TypeOK, NEW k \in Calls
  PROVE  /\ call[k].op \in {"write", "spaces", "link", "delete", "patch", "check", "clear",
                            "choose", "offer", "insert", "submit", "lookup", "accept", "bill", "idle"}
         /\ At(k, "write") => call[k].service \in Services /\ call[k].edit \in Edit
                              /\ call[k].owner \in Landlords \cup {None}
         /\ At(k, "spaces") => call[k].service \in Services /\ call[k].tenant \in Landlords
         /\ At(k, "link") => call[k].service \in Services /\ call[k].spaces \subseteq Spaces
         /\ At(k, "delete") => call[k].service \in Services
         /\ At(k, "patch") => call[k].space \in Spaces /\ call[k].floor \in Landlords \cup {Same}
              /\ call[k].current \in Landlords /\ call[k].chosen \in (SUBSET Services) \cup {Same}
         /\ At(k, "check") => call[k].space \in Spaces /\ call[k].landlord \in Landlords
                              /\ call[k].chosen \subseteq Services
         /\ call[k].op \in {"clear", "choose", "insert", "submit"} =>
              call[k].space \in Spaces /\ call[k].chosen \subseteq Services
         /\ call[k].op \in {"offer", "lookup"} =>
              /\ call[k].space \in Spaces /\ call[k].landlord \in Landlords
              /\ call[k].chosen \subseteq Services
         /\ At(k, "accept") => call[k].application \in Applications /\ call[k].addons \subseteq Services
         /\ At(k, "bill") => call[k].booking \in Bookings
<1>1. call[k] \in Memory BY DEF TypeOK, Memory
<1>2. CASE call[k] \in Catalogue
  BY <1>2 DEF Catalogue, At
<1>3. CASE call[k] \in Offering
  BY <1>3 DEF Offering, At
<1>4. CASE call[k] \in Choosing
  BY <1>4 DEF Choosing, At
<1>5. CASE call[k] = Idle
  BY <1>5 DEF Idle, At
<1> QED BY <1>1, <1>2, <1>3, <1>4, <1>5 DEF Memory

LEMMA Clearing ==
  ASSUME TypeOK, NEW k \in Calls, At(k, "clear")
  PROVE  [call[k] EXCEPT !.op = "choose"] =
           [op |-> "choose", space |-> call[k].space, chosen |-> call[k].chosen]
<1>1. call[k] \in [op : {"clear", "choose"}, space : Spaces, chosen : SUBSET Services]
  BY DEF TypeOK, Catalogue, Offering, Choosing, Idle, At
<1> QED BY <1>1

\* What clearing the links of a space leaves of the calls.
LEMMA Cleared ==
  ASSUME TypeOK, NEW k \in Calls, clearLinks(k)
  PROVE  /\ \/ call'[k] = Idle
            \/ /\ call'[k].op = "choose" /\ call'[k].space = call[k].space
               /\ call'[k].chosen = call[k].chosen
         /\ \A j \in Calls \ {k} : call'[j] = call[j]
<1> DEFINE m == [op |-> "choose", space |-> call[k].space, chosen |-> call[k].chosen]
<1>1. At(k, "clear")
  BY DEF clearLinks
<1>2. \/ call' = [call EXCEPT ![k] = Idle]
      \/ call' = [call EXCEPT ![k] = [call[k] EXCEPT !.op = "choose"]]
  BY DEF clearLinks, Go, Finish
<1>3. [call[k] EXCEPT !.op = "choose"] = m
  BY <1>1, Clearing
<1>4. m.op = "choose" /\ m.space = call[k].space /\ m.chosen = call[k].chosen
  OBVIOUS
<1> HIDE DEF m
<1>5. call' = [call EXCEPT ![k] = Idle] \/ call' = [call EXCEPT ![k] = m]
  BY <1>2, <1>3
<1>6. call'[k] \in {Idle, m} /\ \A j \in Calls \ {k} : call'[j] = call[j]
  BY <1>5 DEF TypeOK
<1> QED BY <1>4, <1>6

LEMMA Markers ==
  None \notin Landlords /\ Same \notin Landlords
  BY NothingIsNobody

\* What the creation of a space leaves.
LEMMA Built ==
  ASSUME TypeOK, NEW k \in Calls, NEW s \in Spaces, NEW l \in Landlords,
         NEW chosen \in Selections \cup {Same}, createSpace(k, s, l, chosen)
  PROVE  /\ landlord[s] = None /\ landlord'[s] = l
         /\ landlord' \in [Spaces -> Landlords \cup {None}]
         /\ \A u \in Spaces \ {s} : landlord'[u] = landlord[u]
         /\ apart \subseteq apart' /\ apart' \subseteq Spaces \X Services
         /\ \A x \in Services : Live(x) => <<s, x>> \in apart'
         /\ UNCHANGED <<service, offered, application, booking, strayed, quoted>>
         /\ \A j \in Calls \ {k} : call'[j] = call[j]
         /\ \/ call' = call
            \/ /\ call[k] = Idle /\ call'[k].op = "check" /\ call'[k].space = s
               /\ call'[k].landlord = l /\ call'[k].chosen = chosen
         /\ call' \in [Calls -> Memory]
<1>1. /\ landlord[s] = None /\ landlord' = [landlord EXCEPT ![s] = l]
      /\ apart' = apart \cup ({s} \X {x \in Services : Live(x)})
      /\ UNCHANGED <<service, offered, application, booking, strayed, quoted>>
  BY DEF createSpace
<1>2. /\ landlord'[s] = l /\ landlord' \in [Spaces -> Landlords \cup {None}]
      /\ \A u \in Spaces \ {s} : landlord'[u] = landlord[u]
  BY <1>1 DEF TypeOK
<1>3. /\ apart \subseteq apart' /\ apart' \subseteq Spaces \X Services
      /\ \A x \in Services : Live(x) => <<s, x>> \in apart'
  BY <1>1 DEF TypeOK
<1> DEFINE m == [op |-> "check", space |-> s, landlord |-> l, chosen |-> chosen]
<1>4. /\ m.op = "check" /\ m.space = s /\ m.landlord = l /\ m.chosen = chosen
      /\ chosen # Same => m \in Memory
  BY ChoicesAreServices DEF Memory, Offering
<1>5. call' = call \/ (chosen # Same /\ call[k] = Idle /\ call' = [call EXCEPT ![k] = m])
  BY DEF createSpace, Begin
<1> HIDE DEF m
<1>6. /\ \A j \in Calls \ {k} : call'[j] = call[j]
      /\ call' = call \/ (call[k] = Idle /\ call'[k] = m)
      /\ call' \in [Calls -> Memory]
  BY <1>4, <1>5 DEF TypeOK, Memory
<1> QED BY <1>1, <1>2, <1>3, <1>4, <1>6

\* What the move of a floor to another building leaves.
LEMMA Moved ==
  ASSUME TypeOK, NEW S \in SUBSET Spaces, NEW l \in Landlords, moveFloor(S, l)
  PROVE  /\ landlord' \in [Spaces -> Landlords \cup {None}]
         /\ \A s \in Spaces : landlord'[s] = None <=> landlord[s] = None
         /\ \A s \in Spaces, x \in Services :
              <<s, x>> \notin strayed' => landlord'[s] = landlord[s]
         /\ strayed \subseteq strayed' /\ strayed' \subseteq Spaces \X Services
         /\ UNCHANGED <<service, offered, application, booking, call, apart, quoted>>
<1>1. /\ landlord' = [s \in Spaces |-> IF s \in S THEN l ELSE landlord[s]]
      /\ strayed' = strayed \cup (S \X Services)
      /\ \A s \in S : landlord[s] # None
      /\ UNCHANGED <<service, offered, application, booking, call, apart, quoted>>
  BY DEF moveFloor
<1> QED BY <1>1, NothingIsNobody DEF TypeOK

\* Works, one action after the other.
LEMMA WorksCases ==
  ASSUME Works, NEW G,
         \A k \in Calls, x \in Services, l \in Landlords, active \in BOOLEAN :
           create(k, x, l, active) => G,
         \A k \in Calls, x \in Services :
           update(k, x) => G,
         \A k \in Calls, x \in Services :
           activate(k, x) => G,
         \A k \in Calls, x \in Services :
           deactivate(k, x) => G,
         \A k \in Calls, x \in Services :
           remove(k, x) => G,
         \A k \in Calls :
           writeService(k) => G,
         \A k \in Calls :
           readSpaces(k) => G,
         \A k \in Calls :
           linkSpaces(k) => G,
         \A k \in Calls :
           deleteService(k) => G,
         \A k \in Calls, s \in Spaces, floor \in Floors \cup {Same}, chosen \in Selections \cup {Same} :
           patchSpace(k, s, floor, chosen) => G,
         \A k \in Calls :
           writeSpace(k) => G,
         \A k \in Calls :
           checkServices(k) => G,
         \A k \in Calls :
           clearLinks(k) => G,
         \A k \in Calls :
           chooseLinks(k) => G,
         \A k \in Calls, s \in Spaces, chosen \in Baskets :
           book(k, s, chosen) => G,
         \A k \in Calls, s \in Spaces, chosen \in Baskets :
           apply(k, s, chosen) => G,
         \A k \in Calls :
           resolveBookingAddons(k) => G,
         \A k \in Calls :
           insertBooking(k) => G,
         \A k \in Calls :
           resolveApplicationAddons(k) => G,
         \A k \in Calls :
           insertApplication(k) => G,
         \A k \in Calls, a \in Applications :
           accept(k, a) => G,
         \A k \in Calls :
           acceptWrite(k) => G,
         \A k \in Calls, b \in Bookings :
           approve(k, b) => G,
         \A k \in Calls :
           generateInvoiceFromBooking(k) => G,
         \A k \in Calls :
           Fail(k) => G,
         \A s \in Spaces :
           removeSpace(s) => G,
         \A b \in Bookings, status \in Status :
           proceed(b, status) => G,
         \A b \in Bookings, x \in ByHand :
           addAddon(b, x) => G,
         \A b \in Bookings, x \in ByHand :
           removeAddon(b, x) => G,
         \A k \in Calls, s \in Spaces, l \in Landlords, chosen \in Selections \cup {Same} :
           createSpace(k, s, l, chosen) => G,
         \A S \in SUBSET Spaces, l \in Landlords :
           moveFloor(S, l) => G
  PROVE  G
  BY DEF Works, CatalogueStep, SpaceStep, BookingStep, Others

LEMMA CallTypes ==
  ASSUME TInv, Works
  PROVE  call' \in [Calls -> Memory]
<1> call \in [Calls -> Memory] BY DEF TInv, TypeOK, Memory
<1> TypeOK /\ Rooted BY DEF TInv
<1>1. ASSUME NEW k \in Calls, NEW x \in Services, NEW l \in Landlords,
             NEW active \in BOOLEAN, create(k, x, l, active)
      PROVE  call' \in [Calls -> Memory]
  BY <1>1, Remembered, EditsAreBodies
  DEF create, Begin, At, Memory, Catalogue, Edit, TypeOK, ServiceRow
<1>2. ASSUME NEW k \in Calls, NEW x \in Services, update(k, x)
      PROVE  call' \in [Calls -> Memory]
  BY <1>2, EditsAreBodies DEF update, Write, Begin, Memory, Catalogue, Edit
<1>3. ASSUME NEW k \in Calls, NEW x \in Services, activate(k, x)
      PROVE  call' \in [Calls -> Memory]
  BY <1>3 DEF activate, Write, Begin, Memory, Catalogue, Edit, TypeOK, ServiceRow
<1>4. ASSUME NEW k \in Calls, NEW x \in Services, deactivate(k, x)
      PROVE  call' \in [Calls -> Memory]
  BY <1>4 DEF deactivate, Write, Begin, Memory, Catalogue, Edit
<1>5. ASSUME NEW k \in Calls, NEW x \in Services, remove(k, x)
      PROVE  call' \in [Calls -> Memory]
  BY <1>5, Remembered, EditsAreBodies
  DEF remove, Begin, At, Memory, Catalogue, Edit, TypeOK, ServiceRow
<1>6. ASSUME NEW k \in Calls, writeService(k) PROVE call' \in [Calls -> Memory]
  <2> DEFINE x == call[k].service
             l == IF call[k].owner # None THEN call[k].owner ELSE service'[x].tenant
             m == [op |-> "spaces", service |-> x, tenant |-> l]
  <2>1. /\ x \in Services /\ call[k].edit.tenant \in Landlords \cup {Same}
        /\ call[k].owner \in Landlords \cup {None}
    BY <1>6, Remembered DEF writeService, Edit
  <2>2. CASE ~Live(x) \/ ~Links(call[k].edit)
    BY <1>6, <2>2 DEF writeService, Finish, Go, Memory
  <2>3. CASE Live(x) /\ Links(call[k].edit)
    <3>1. service' = [service EXCEPT ![x] = Patched(@, call[k].edit)] /\ call' = [call EXCEPT ![k] = m]
      BY <1>6, <2>3 DEF writeService, Go
    <3>2. service[x].tenant \in Landlords
      BY <2>1, <2>3 DEF Rooted, TypeOK, ServiceRow
    <3>3. service'[x].tenant \in Landlords
      <4>1. service'[x] = Patched(service[x], call[k].edit)
        BY <2>1, <3>1 DEF TypeOK
      <4>2. service[x] \in ServiceRow
        BY <2>1 DEF TypeOK
      <4> QED BY <2>1, <3>2, <4>1, <4>2 DEF Patched, ServiceRow
    <3>4. l \in Landlords
      BY <2>1, <3>3
    <3> HIDE DEF l
    <3>5. m \in Memory
      BY <2>1, <3>4 DEF Memory, Catalogue
    <3> HIDE DEF m
    <3> QED BY <3>1, <3>5
  <2> QED BY <2>2, <2>3
<1>7. ASSUME NEW k \in Calls, readSpaces(k) PROVE call' \in [Calls -> Memory]
  BY <1>7, Remembered, EditsAreBodies
  DEF readSpaces, Go, At, Memory, Catalogue, Edit, TypeOK, ServiceRow
<1>8. ASSUME NEW k \in Calls, linkSpaces(k) PROVE call' \in [Calls -> Memory]
  BY <1>8, Remembered
  DEF linkSpaces, Finish, Go, Memory, At
<1>9. ASSUME NEW k \in Calls, deleteService(k) PROVE call' \in [Calls -> Memory]
  BY <1>9, Remembered
  DEF deleteService, Finish, Go, Memory, At
<1>10. ASSUME NEW k \in Calls, NEW s \in Spaces, NEW floor \in Floors \cup {Same},
            NEW chosen \in Selections \cup {Same}, patchSpace(k, s, floor, chosen)
       PROVE  call' \in [Calls -> Memory]
  <2>1. landlord[s] \in Landlords
    BY <1>10 DEF patchSpace, TypeOK
  <2>2. floor \in Landlords \cup {Same}
    BY FloorsAreOwned
  <2>3. chosen \in (SUBSET Services) \cup {Same}
    BY ChoicesAreServices
  <2>4. [op |-> "patch", space |-> s, floor |-> floor, current |-> landlord[s], chosen |-> chosen]
          \in Memory
    BY <2>1, <2>2, <2>3 DEF Memory, Offering
  <2> QED BY <1>10, <2>4 DEF patchSpace, Begin
<1>11. ASSUME NEW k \in Calls, writeSpace(k) PROVE call' \in [Calls -> Memory]
  <2> DEFINE l == IF call[k].floor = Same THEN call[k].current ELSE call[k].floor
             m == [op |-> "check", space |-> call[k].space, chosen |-> call[k].chosen, landlord |-> l]
  <2>1. call[k].space \in Spaces /\ l \in Landlords /\ call[k].chosen \in (SUBSET Services) \cup {Same}
    BY <1>11, Remembered DEF writeSpace
  <2>2. ASSUME call[k].chosen # Same PROVE m \in Memory
    <3>1. call[k].chosen \in SUBSET Services BY <2>1, <2>2
    <3> HIDE DEF l
    <3> QED BY <2>1, <3>1 DEF Memory, Offering
  <2>3. CASE landlord[call[k].space] = None \/ call[k].chosen = Same
    BY <1>11, <2>3 DEF writeSpace, Finish, Go, Memory
  <2>4. CASE landlord[call[k].space] # None /\ call[k].chosen # Same
    <3>1. call' = [call EXCEPT ![k] = m]
      BY <1>11, <2>4 DEF writeSpace, Go
    <3> HIDE DEF m
    <3> QED BY <2>2, <2>4, <3>1
  <2> QED BY <2>3, <2>4
<1>12. ASSUME NEW k \in Calls, checkServices(k) PROVE call' \in [Calls -> Memory]
  BY <1>12, Remembered, FloorsAreOwned, ChoicesAreServices
  DEF checkServices, Go, Finish, At, Memory, Offering, TypeOK
<1>13. ASSUME NEW k \in Calls, clearLinks(k) PROVE call' \in [Calls -> Memory]
  <2>1. call[k].space \in Spaces /\ call[k].chosen \in SUBSET Services
    BY <1>13, Remembered DEF clearLinks, At
  <2>2. [op |-> "choose", space |-> call[k].space, chosen |-> call[k].chosen] \in Memory
    BY <2>1 DEF Memory, Offering
  <2> QED BY <1>13, <2>2, Clearing DEF clearLinks, Go, Finish, Memory
<1>14. ASSUME NEW k \in Calls, chooseLinks(k) PROVE call' \in [Calls -> Memory]
  BY <1>14, Remembered
  DEF chooseLinks, Go, Finish, Memory, At
<1>15. ASSUME NEW k \in Calls, NEW s \in Spaces, NEW chosen \in Baskets, book(k, s, chosen)
       PROVE  call' \in [Calls -> Memory]
  BY <1>15, Remembered, ChoicesAreServices
  DEF book, Begin, At, Memory, Choosing, TypeOK, ApplicationRow
<1>16. ASSUME NEW k \in Calls, NEW s \in Spaces, NEW chosen \in Baskets, apply(k, s, chosen)
       PROVE  call' \in [Calls -> Memory]
  BY <1>16, Remembered, ChoicesAreServices
  DEF apply, Begin, At, Memory, Choosing, TypeOK, ApplicationRow
<1>17. ASSUME NEW k \in Calls, resolveBookingAddons(k) PROVE call' \in [Calls -> Memory]
  BY <1>17, Remembered, ChoicesAreServices
  DEF resolveBookingAddons, Go, Finish, At, Memory, Choosing, TypeOK, ApplicationRow
<1>18. ASSUME NEW k \in Calls, insertBooking(k) PROVE call' \in [Calls -> Memory]
  <2>1. Idle \in Memory /\ \A b \in Bookings : [op |-> "bill", booking |-> b] \in Memory
    BY DEF Memory, Choosing
  <2>2. \/ call' = [call EXCEPT ![k] = Idle]
        \/ \E b \in Bookings : call' = [call EXCEPT ![k] = [op |-> "bill", booking |-> b]]
    BY <1>18 DEF insertBooking, Go, Finish
  <2> QED BY <2>1, <2>2 DEF TypeOK, Memory
<1>19. ASSUME NEW k \in Calls, resolveApplicationAddons(k)
       PROVE  call' \in [Calls -> Memory]
  BY <1>19, Remembered, ChoicesAreServices
  DEF resolveApplicationAddons, Go, Finish, At, Memory, Choosing, TypeOK, ApplicationRow
<1>20. ASSUME NEW k \in Calls, insertApplication(k) PROVE call' \in [Calls -> Memory]
  BY <1>20, Remembered, ChoicesAreServices
  DEF insertApplication, Go, Finish, At, Memory, Choosing, TypeOK, ApplicationRow
<1>21. ASSUME NEW k \in Calls, NEW a \in Applications, accept(k, a)
       PROVE  call' \in [Calls -> Memory]
  BY <1>21, Remembered, ChoicesAreServices
  DEF accept, Begin, At, Memory, Choosing, TypeOK, ApplicationRow
<1>22. ASSUME NEW k \in Calls, acceptWrite(k) PROVE call' \in [Calls -> Memory]
  BY <1>22, Remembered, ChoicesAreServices
  DEF acceptWrite, Insert, Go, Finish, At, Memory, Choosing, TypeOK, ApplicationRow
<1>23. ASSUME NEW k \in Calls, NEW b \in Bookings, approve(k, b)
       PROVE  call' \in [Calls -> Memory]
  BY <1>23, Remembered, ChoicesAreServices
  DEF approve, Begin, At, Memory, Choosing, TypeOK, ApplicationRow
<1>24. ASSUME NEW k \in Calls, generateInvoiceFromBooking(k)
       PROVE  call' \in [Calls -> Memory]
  BY <1>24, Remembered
  DEF generateInvoiceFromBooking, Go, Finish, Memory, At
<1>25. ASSUME NEW k \in Calls, Fail(k) PROVE call' \in [Calls -> Memory]
  BY <1>25, Remembered
  DEF Fail, Go, Finish, Memory, At
<1>26. ASSUME NEW s \in Spaces, removeSpace(s) PROVE call' \in [Calls -> Memory]
  BY <1>26, Remembered
  DEF removeSpace, Memory, At
<1>27. ASSUME NEW b \in Bookings, NEW status \in Status, proceed(b, status)
       PROVE  call' \in [Calls -> Memory]
  BY <1>27, Remembered
  DEF proceed, Memory, At
<1>28. ASSUME NEW b \in Bookings, NEW x \in ByHand, addAddon(b, x)
       PROVE  call' \in [Calls -> Memory]
  BY <1>28, Remembered
  DEF addAddon, Memory, At
<1>29. ASSUME NEW b \in Bookings, NEW x \in ByHand, removeAddon(b, x)
       PROVE  call' \in [Calls -> Memory]
  BY <1>29, Remembered
  DEF removeAddon, Memory, At
<1>30. ASSUME NEW k \in Calls, NEW s \in Spaces, NEW l \in Landlords,
             NEW chosen \in Selections \cup {Same}, createSpace(k, s, l, chosen)
      PROVE  call' \in [Calls -> Memory]
  BY <1>30, Built
<1>31. ASSUME NEW S \in SUBSET Spaces, NEW l \in Landlords, moveFloor(S, l)
      PROVE  call' \in [Calls -> Memory]
  BY <1>31 DEF moveFloor
<1> QED
  BY <1>1, <1>2, <1>3, <1>4, <1>5, <1>6, <1>7, <1>8, <1>9, <1>10, <1>11, <1>12, <1>13,
     <1>14, <1>15, <1>16, <1>17, <1>18, <1>19, <1>20, <1>21, <1>22, <1>23, <1>24,
     <1>25, <1>26, <1>27, <1>28, <1>29, <1>30, <1>31, WorksCases, Zenon

Typed ==
  /\ service \in [Services -> ServiceRow]
  /\ landlord \in [Spaces -> Landlords \cup {None}]
  /\ offered \subseteq Spaces \X Services
  /\ application \in [Applications -> ApplicationRow]
  /\ booking \in [Bookings -> BookingRow]
  /\ strayed \cup apart \subseteq Spaces \X Services
  /\ quoted \in [Bookings -> (SUBSET Services) \cup {None}]

LEMMA StatusIsKnown == {"CONFIRMED", "PENDING_APPROVAL", "PENDING_PHONE_CONFIRMATION"} \subseteq Status
  BY DEF Status, Protected

\* What a booking may become.
LEMMA BookingRows ==
  ASSUME NEW row \in BookingRow
  PROVE  /\ \A status \in Status : [row EXCEPT !.status = status] \in BookingRow
         /\ \A S \in SUBSET Services : [row EXCEPT !.addons = S] \in BookingRow
         /\ \A S \in SUBSET Services : [row EXCEPT !.billed = S] \in BookingRow
         /\ \A status \in Status, s \in Spaces \cup {None}, S \in SUBSET Services :
              [status |-> status, space |-> s, addons |-> S, billed |-> None] \in BookingRow
  BY DEF BookingRow

LEMMA TableTypes ==
  ASSUME TInv, Works
  PROVE  Typed'
<1> TypeOK /\ Rooted BY DEF TInv
<1> USE Markers
<1>1. ASSUME NEW k \in Calls, NEW x \in Services, NEW l \in Landlords,
             NEW active \in BOOLEAN, create(k, x, l, active)
      PROVE  Typed'
  BY <1>1, Remembered, FloorsAreOwned
  DEF create, Begin, Typed, TypeOK, tables, history, At, ServiceRow, ApplicationRow,
      BookingRow, NoApplication, NoService, Deleted, NoBooking, Pairs, Patched, Edit
<1>2. ASSUME NEW k \in Calls, NEW x \in Services, update(k, x) PROVE Typed'
  BY <1>2, Remembered, FloorsAreOwned
  DEF update, Write, Begin, Typed, TypeOK, tables, history, At, ServiceRow,
      ApplicationRow, BookingRow, NoApplication, NoService, Deleted, NoBooking, Pairs,
      Patched, Edit
<1>3. ASSUME NEW k \in Calls, NEW x \in Services, activate(k, x) PROVE Typed'
  BY <1>3, Remembered, FloorsAreOwned
  DEF activate, Write, Begin, Typed, TypeOK, tables, history, At, ServiceRow,
      ApplicationRow, BookingRow, NoApplication, NoService, Deleted, NoBooking, Pairs,
      Patched, Edit
<1>4. ASSUME NEW k \in Calls, NEW x \in Services, deactivate(k, x) PROVE Typed'
  BY <1>4, Remembered, FloorsAreOwned
  DEF deactivate, Write, Begin, Typed, TypeOK, tables, history, At, ServiceRow,
      ApplicationRow, BookingRow, NoApplication, NoService, Deleted, NoBooking, Pairs,
      Patched, Edit
<1>5. ASSUME NEW k \in Calls, NEW x \in Services, remove(k, x) PROVE Typed'
  BY <1>5, Remembered, FloorsAreOwned
  DEF remove, Begin, Typed, TypeOK, tables, history, At, ServiceRow, ApplicationRow,
      BookingRow, NoApplication, NoService, Deleted, NoBooking, Pairs, Patched, Edit
<1>6. ASSUME NEW k \in Calls, writeService(k) PROVE Typed'
  <2> DEFINE x == call[k].service
  <2>1. /\ x \in Services /\ call[k].edit.tenant \in Landlords \cup {Same}
        /\ call[k].edit.active \in BOOLEAN \cup {Same}
    BY <1>6, Remembered DEF writeService, Edit
  <2>2. CASE ~Live(x)
    BY <1>6, <2>2 DEF writeService, Typed, TypeOK
  <2>3. CASE Live(x)
    <3>1. service[x] \in ServiceRow BY <2>1 DEF TypeOK
    <3>2. Patched(service[x], call[k].edit) \in ServiceRow
      BY <2>1, <3>1 DEF Patched, ServiceRow
    <3>3. service' \in [Services -> ServiceRow]
      BY <1>6, <2>1, <2>3, <3>2 DEF writeService, TypeOK
    <3> QED BY <1>6, <2>1, <2>3, <3>3 DEF writeService, Typed, TypeOK
  <2> QED BY <2>2, <2>3
<1>7. ASSUME NEW k \in Calls, readSpaces(k) PROVE Typed'
  BY <1>7, Remembered, FloorsAreOwned
  DEF readSpaces, Go, Typed, TypeOK, tables, history, At, ServiceRow, ApplicationRow,
      BookingRow, NoApplication, NoService, Deleted, NoBooking, Pairs, Patched, Edit
<1>8. ASSUME NEW k \in Calls, linkSpaces(k) PROVE Typed'
  BY <1>8, Remembered, FloorsAreOwned
  DEF linkSpaces, Finish, Go, Typed, TypeOK, tables, history, At, ServiceRow,
      ApplicationRow, BookingRow, NoApplication, NoService, Deleted, NoBooking, Pairs,
      Patched, Edit
<1>9. ASSUME NEW k \in Calls, deleteService(k) PROVE Typed'
  <2>1. CASE ~Live(call[k].service)
    BY <1>9, <2>1 DEF deleteService, Typed, TypeOK, tables
  <2>2. CASE Live(call[k].service)
    <3> DEFINE x == call[k].service
    <3>1. x \in Services BY <1>9, Remembered DEF deleteService
    <3>2. service' \in [Services -> ServiceRow]
      <4>1. [NoService EXCEPT !.state = "gone"] \in ServiceRow
        BY DEF NoService, ServiceRow
      <4> QED BY <1>9, <2>2, <3>1, <4>1 DEF deleteService, TypeOK
    <3>3. application' \in [Applications -> ApplicationRow]
      <4>1. \A a \in Applications : [application[a] EXCEPT !.addons = @ \ {x}] \in ApplicationRow
        BY DEF TypeOK, ApplicationRow
      <4> QED BY <1>9, <2>2, <4>1 DEF deleteService
    <3>4. booking' \in [Bookings -> BookingRow]
      <4>1. \A b \in Bookings : [booking[b] EXCEPT !.addons = @ \ {x}] \in BookingRow
        BY DEF TypeOK, BookingRow
      <4> QED BY <1>9, <2>2, <4>1 DEF deleteService
    <3> QED BY <1>9, <2>2, <3>2, <3>3, <3>4 DEF deleteService, Typed, TypeOK
  <2> QED BY <2>1, <2>2
<1>10. ASSUME NEW k \in Calls, NEW s \in Spaces, NEW floor \in Floors \cup {Same},
            NEW chosen \in Selections \cup {Same}, patchSpace(k, s, floor, chosen)
       PROVE  Typed'
  BY <1>10, Remembered, FloorsAreOwned
  DEF patchSpace, Begin, Typed, TypeOK, tables, history, At, ServiceRow,
      ApplicationRow, BookingRow, NoApplication, NoService, Deleted, NoBooking, Pairs,
      Patched, Edit
<1>11. ASSUME NEW k \in Calls, writeSpace(k) PROVE Typed'
  BY <1>11, Remembered, FloorsAreOwned
  DEF writeSpace, Go, Finish, Typed, TypeOK, tables, history, At, ServiceRow,
      ApplicationRow, BookingRow, NoApplication, NoService, Deleted, NoBooking, Pairs,
      Patched, Edit
<1>12. ASSUME NEW k \in Calls, checkServices(k) PROVE Typed'
  BY <1>12, Remembered, FloorsAreOwned
  DEF checkServices, Go, Finish, Typed, TypeOK, tables, history, At, ServiceRow,
      ApplicationRow, BookingRow, NoApplication, NoService, Deleted, NoBooking, Pairs,
      Patched, Edit
<1>13. ASSUME NEW k \in Calls, clearLinks(k) PROVE Typed'
  BY <1>13, Remembered, FloorsAreOwned
  DEF clearLinks, Go, Finish, Typed, TypeOK, tables, history, At, ServiceRow,
      ApplicationRow, BookingRow, NoApplication, NoService, Deleted, NoBooking, Pairs,
      Patched, Edit
<1>14. ASSUME NEW k \in Calls, chooseLinks(k) PROVE Typed'
  BY <1>14, Remembered, FloorsAreOwned
  DEF chooseLinks, Go, Finish, Typed, TypeOK, tables, history, At, ServiceRow,
      ApplicationRow, BookingRow, NoApplication, NoService, Deleted, NoBooking, Pairs,
      Patched, Edit
<1>15. ASSUME NEW k \in Calls, NEW s \in Spaces, NEW chosen \in Baskets, book(k, s, chosen)
       PROVE  Typed'
  BY <1>15, Remembered, FloorsAreOwned
  DEF book, Begin, Typed, TypeOK, tables, history, At, ServiceRow, ApplicationRow,
      BookingRow, NoApplication, NoService, Deleted, NoBooking, Pairs, Patched, Edit
<1>16. ASSUME NEW k \in Calls, NEW s \in Spaces, NEW chosen \in Baskets, apply(k, s, chosen)
       PROVE  Typed'
  BY <1>16, Remembered, FloorsAreOwned
  DEF apply, Begin, Typed, TypeOK, tables, history, At, ServiceRow, ApplicationRow,
      BookingRow, NoApplication, NoService, Deleted, NoBooking, Pairs, Patched, Edit
<1>17. ASSUME NEW k \in Calls, resolveBookingAddons(k) PROVE Typed'
  BY <1>17, Remembered, FloorsAreOwned
  DEF resolveBookingAddons, Go, Finish, Typed, TypeOK, tables, history, At,
      ServiceRow, ApplicationRow, BookingRow, NoApplication, NoService, Deleted,
      NoBooking, Pairs, Patched, Edit
<1>18. ASSUME NEW k \in Calls, insertBooking(k) PROVE Typed'
  <2>1. call[k].space \in Spaces /\ call[k].chosen \in SUBSET Services
    BY <1>18, Remembered DEF insertBooking, At
  <2>2. ASSUME NEW b \in Bookings, NEW status \in Status,
               Insert(b, status, call[k].space, call[k].chosen)
        PROVE  /\ booking' \in [Bookings -> BookingRow]
               /\ quoted' \in [Bookings -> (SUBSET Services) \cup {None}]
    BY <2>1, <2>2, BookingRows DEF Insert, TypeOK
  <2>3. /\ booking' \in [Bookings -> BookingRow]
        /\ quoted' \in [Bookings -> (SUBSET Services) \cup {None}]
    BY <1>18, <2>2, StatusIsKnown DEF insertBooking, TypeOK
  <2> QED BY <1>18, <2>3 DEF insertBooking, Typed, TypeOK
<1>19. ASSUME NEW k \in Calls, resolveApplicationAddons(k) PROVE Typed'
  BY <1>19, Remembered, FloorsAreOwned
  DEF resolveApplicationAddons, Go, Finish, Typed, TypeOK, tables, history, At,
      ServiceRow, ApplicationRow, BookingRow, NoApplication, NoService, Deleted,
      NoBooking, Pairs, Patched, Edit
<1>20. ASSUME NEW k \in Calls, insertApplication(k) PROVE Typed'
  <2> DEFINE row == [status |-> "PENDING", space |-> call[k].space, addons |-> call[k].chosen]
  <2>1. call[k].space \in Spaces /\ call[k].chosen \in SUBSET Services
    BY <1>20, Remembered DEF insertApplication, At
  <2>2. row \in ApplicationRow
    BY <2>1 DEF ApplicationRow
  <2> HIDE DEF row
  <2>3. application' = application \/ \E a \in Applications : application' = [application EXCEPT ![a] = row]
    BY <1>20 DEF insertApplication, row
  <2>4. application' \in [Applications -> ApplicationRow]
    BY <2>2, <2>3 DEF TypeOK
  <2> QED BY <1>20, <2>4 DEF insertApplication, Typed, TypeOK, history
<1>21. ASSUME NEW k \in Calls, NEW a \in Applications, accept(k, a) PROVE Typed'
  BY <1>21, Remembered, FloorsAreOwned
  DEF accept, Begin, Typed, TypeOK, tables, history, At, ServiceRow, ApplicationRow,
      BookingRow, NoApplication, NoService, Deleted, NoBooking, Pairs, Patched, Edit
<1>22. ASSUME NEW k \in Calls, acceptWrite(k) PROVE Typed'
  <2> DEFINE a == call[k].application
  <2>1. a \in Applications /\ call[k].addons \in SUBSET Services
    BY <1>22, Remembered DEF acceptWrite
  <2>2. application[a] \in ApplicationRow /\ application[a].space \in Spaces \cup {None}
    BY <2>1 DEF TypeOK, ApplicationRow
  <2>3. [application[a] EXCEPT !.status = "ACCEPTED"] \in ApplicationRow
    BY <2>2 DEF ApplicationRow
  <2>4. application' \in [Applications -> ApplicationRow]
    BY <1>22, <2>1, <2>3 DEF acceptWrite, TypeOK
  <2>5. ASSUME NEW b \in Bookings,
               Insert(b, "PENDING_PHONE_CONFIRMATION", application[a].space, call[k].addons)
        PROVE  /\ booking' \in [Bookings -> BookingRow]
               /\ quoted' \in [Bookings -> (SUBSET Services) \cup {None}]
    BY <2>1, <2>2, <2>5, BookingRows, StatusIsKnown DEF Insert, TypeOK
  <2>6. /\ booking' \in [Bookings -> BookingRow]
        /\ quoted' \in [Bookings -> (SUBSET Services) \cup {None}]
    BY <1>22, <2>5 DEF acceptWrite, TypeOK
  <2> QED BY <1>22, <2>4, <2>6 DEF acceptWrite, Typed, TypeOK
<1>23. ASSUME NEW k \in Calls, NEW b \in Bookings, approve(k, b) PROVE Typed'
  <2>1. booking' \in [Bookings -> BookingRow]
    <3>1. booking[b] \in BookingRow BY DEF TypeOK
    <3>2. [booking[b] EXCEPT !.status = "CONFIRMED"] \in BookingRow
      BY <1>23, <3>1, BookingRows, StatusIsKnown, FloorsAreOwned DEF approve, BookingRow
    <3> QED BY <1>23, <3>2 DEF approve, TypeOK
  <2>2. quoted' \in [Bookings -> (SUBSET Services) \cup {None}]
    BY <1>23 DEF approve, TypeOK, history
  <2> QED BY <1>23, <2>1, <2>2 DEF approve, Typed, TypeOK, history
<1>24. ASSUME NEW k \in Calls, generateInvoiceFromBooking(k) PROVE Typed'
  <2> DEFINE b == call[k].booking
  <2>1. b \in Bookings BY <1>24, Remembered DEF generateInvoiceFromBooking
  <2>2. booking[b] \in BookingRow /\ booking[b].addons \in SUBSET Services
    BY <2>1 DEF TypeOK, BookingRow
  <2>3. [booking[b] EXCEPT !.billed = Lines(b)] \in BookingRow
    BY <2>2, BookingRows DEF Lines
  <2>4. booking' \in [Bookings -> BookingRow]
    BY <1>24, <2>1, <2>3 DEF generateInvoiceFromBooking, TypeOK
  <2> QED BY <1>24, <2>4 DEF generateInvoiceFromBooking, Typed, TypeOK
<1>25. ASSUME NEW k \in Calls, Fail(k) PROVE Typed'
  BY <1>25, Remembered, FloorsAreOwned
  DEF Fail, Go, Finish, Typed, TypeOK, tables, history, At, ServiceRow,
      ApplicationRow, BookingRow, NoApplication, NoService, Deleted, NoBooking, Pairs,
      Patched, Edit
<1>26. ASSUME NEW s \in Spaces, removeSpace(s) PROVE Typed'
  BY <1>26, Remembered, FloorsAreOwned
  DEF removeSpace, Typed, TypeOK, tables, history, At, ServiceRow, ApplicationRow,
      BookingRow, NoApplication, NoService, Deleted, NoBooking, Pairs, Patched, Edit
<1>27. ASSUME NEW b \in Bookings, NEW status \in Status, proceed(b, status) PROVE Typed'
  <2>1. booking' \in [Bookings -> BookingRow]
    <3>1. booking[b] \in BookingRow BY DEF TypeOK
    <3>2. [booking[b] EXCEPT !.status = status] \in BookingRow
      BY <1>27, <3>1, BookingRows, StatusIsKnown, FloorsAreOwned DEF proceed, BookingRow
    <3> QED BY <1>27, <3>2 DEF proceed, TypeOK
  <2>2. quoted' \in [Bookings -> (SUBSET Services) \cup {None}]
    BY <1>27 DEF proceed, TypeOK, history
  <2> QED BY <1>27, <2>1, <2>2 DEF proceed, Typed, TypeOK, history
<1>28. ASSUME NEW b \in Bookings, NEW x \in ByHand, addAddon(b, x) PROVE Typed'
  <2>1. booking' \in [Bookings -> BookingRow]
    <3>1. booking[b] \in BookingRow BY DEF TypeOK
    <3>2. [booking[b] EXCEPT !.addons = @ \cup {x}] \in BookingRow
      BY <1>28, <3>1, BookingRows, StatusIsKnown, FloorsAreOwned DEF addAddon, BookingRow
    <3> QED BY <1>28, <3>2 DEF addAddon, TypeOK
  <2>2. quoted' \in [Bookings -> (SUBSET Services) \cup {None}]
    BY <1>28 DEF addAddon, TypeOK, history
  <2> QED BY <1>28, <2>1, <2>2 DEF addAddon, Typed, TypeOK, history
<1>29. ASSUME NEW b \in Bookings, NEW x \in ByHand, removeAddon(b, x) PROVE Typed'
  <2>1. booking' \in [Bookings -> BookingRow]
    <3>1. booking[b] \in BookingRow BY DEF TypeOK
    <3>2. [booking[b] EXCEPT !.addons = @ \ {x}] \in BookingRow
      BY <1>29, <3>1, BookingRows, StatusIsKnown, FloorsAreOwned
      DEF removeAddon, BookingRow
    <3> QED BY <1>29, <3>2 DEF removeAddon, TypeOK
  <2>2. quoted' \in [Bookings -> (SUBSET Services) \cup {None}]
    BY <1>29 DEF removeAddon, TypeOK, history
  <2> QED BY <1>29, <2>1, <2>2 DEF removeAddon, Typed, TypeOK, history
<1>30. ASSUME NEW k \in Calls, NEW s \in Spaces, NEW l \in Landlords,
             NEW chosen \in Selections \cup {Same}, createSpace(k, s, l, chosen)
      PROVE  Typed'
  BY <1>30, Built DEF Typed, TypeOK
<1>31. ASSUME NEW S \in SUBSET Spaces, NEW l \in Landlords, moveFloor(S, l)
      PROVE  Typed'
  BY <1>31, Moved DEF Typed, TypeOK
<1> QED
  BY <1>1, <1>2, <1>3, <1>4, <1>5, <1>6, <1>7, <1>8, <1>9, <1>10, <1>11, <1>12, <1>13,
     <1>14, <1>15, <1>16, <1>17, <1>18, <1>19, <1>20, <1>21, <1>22, <1>23, <1>24,
     <1>25, <1>26, <1>27, <1>28, <1>29, <1>30, <1>31, WorksCases, Zenon

LEMMA TypeStep ==
  ASSUME TInv, Works, Records
  PROVE  TypeOK'
<1>1. call' \in [Calls -> Memory] BY CallTypes
<1>2. Typed' BY TableTypes
<1>3. late' \subseteq Calls \X Bookings BY DEF Records
<1> QED BY <1>1, <1>2, <1>3 DEF TypeOK, Typed, Memory

LEMMA RootedStep ==
  ASSUME TInv, Works
  PROVE  Rooted'
<1> TypeOK /\ Rooted BY DEF TInv
<1> Typed' BY TableTypes
<1> USE Markers
<1>1. ASSUME NEW k \in Calls, NEW x \in Services, NEW l \in Landlords,
             NEW active \in BOOLEAN, create(k, x, l, active)
      PROVE  Rooted'
  BY <1>1, Remembered, FloorsAreOwned
  DEF create, Begin, Rooted, Live, TypeOK, tables, history, At, Typed, Pairs
<1>2. ASSUME NEW k \in Calls, NEW x \in Services, update(k, x) PROVE Rooted'
  BY <1>2, Remembered, FloorsAreOwned
  DEF update, Write, Begin, Rooted, Live, TypeOK, tables, history, At, Typed, Pairs
<1>3. ASSUME NEW k \in Calls, NEW x \in Services, activate(k, x) PROVE Rooted'
  BY <1>3, Remembered, FloorsAreOwned
  DEF activate, Write, Begin, Rooted, Live, TypeOK, tables, history, At, Typed, Pairs
<1>4. ASSUME NEW k \in Calls, NEW x \in Services, deactivate(k, x) PROVE Rooted'
  BY <1>4, Remembered, FloorsAreOwned
  DEF deactivate, Write, Begin, Rooted, Live, TypeOK, tables, history, At, Typed,
      Pairs
<1>5. ASSUME NEW k \in Calls, NEW x \in Services, remove(k, x) PROVE Rooted'
  BY <1>5, Remembered, FloorsAreOwned
  DEF remove, Begin, Rooted, Live, TypeOK, tables, history, At, Typed, Pairs
<1>6. ASSUME NEW k \in Calls, writeService(k) PROVE Rooted'
  <2> DEFINE x == call[k].service
  <2>1. x \in Services /\ call[k].edit.tenant \in Landlords \cup {Same}
    BY <1>6, Remembered DEF writeService, Edit
  <2>2. CASE ~Live(x)
    BY <1>6, <2>2 DEF writeService, Rooted, Live
  <2>3. CASE Live(x)
    <3>1. service'[x] = Patched(service[x], call[k].edit) /\ service[x] \in ServiceRow
      BY <1>6, <2>1, <2>3 DEF writeService, TypeOK
    <3>2. service'[x].state = "live" /\ service'[x].tenant # None
      BY <2>1, <2>3, <3>1 DEF Patched, ServiceRow, Rooted, Live
    <3>3. \A y \in Services \ {x} : service'[y] = service[y]
      BY <1>6, <2>3 DEF writeService, TypeOK
    <3>4. \A b \in Bookings : booking[b].addons \subseteq Services
      BY DEF TypeOK, BookingRow
    <3> QED BY <1>6, <3>2, <3>3, <3>4 DEF writeService, Rooted, Live, TypeOK
  <2> QED BY <2>2, <2>3
<1>7. ASSUME NEW k \in Calls, readSpaces(k) PROVE Rooted'
  BY <1>7, Remembered, FloorsAreOwned
  DEF readSpaces, Go, Rooted, Live, TypeOK, tables, history, At, Typed, Pairs
<1>8. ASSUME NEW k \in Calls, linkSpaces(k) PROVE Rooted'
  BY <1>8, Remembered, FloorsAreOwned
  DEF linkSpaces, Finish, Go, Rooted, Live, TypeOK, tables, history, At, Typed, Pairs
<1>9. ASSUME NEW k \in Calls, deleteService(k) PROVE Rooted'
  <2>1. CASE ~Live(call[k].service)
    BY <1>9, <2>1 DEF deleteService, Rooted, Live, tables
  <2>2. CASE Live(call[k].service)
    <3> DEFINE x == call[k].service
    <3>1. \A y \in Services \ {x} : service'[y] = service[y]
      BY <1>9, <2>2 DEF deleteService, TypeOK
    <3>2. service'[x].state = "gone"
      BY <1>9, <2>2, Remembered DEF deleteService, TypeOK, NoService
    <3>3. \A b \in Bookings : booking'[b].addons = booking[b].addons \ {x}
      BY <1>9, <2>2 DEF deleteService, TypeOK, BookingRow
    <3>4. \A b \in Bookings : booking[b].addons \subseteq Services
      BY DEF TypeOK, BookingRow
    <3>5. offered' = {o \in offered : o[2] # x} /\ landlord' = landlord
      BY <1>9, <2>2 DEF deleteService
    <3> QED BY <3>1, <3>2, <3>3, <3>4, <3>5 DEF Rooted, Live, TypeOK
  <2> QED BY <2>1, <2>2
<1>10. ASSUME NEW k \in Calls, NEW s \in Spaces, NEW floor \in Floors \cup {Same},
            NEW chosen \in Selections \cup {Same}, patchSpace(k, s, floor, chosen)
       PROVE  Rooted'
  BY <1>10, Remembered, FloorsAreOwned
  DEF patchSpace, Begin, Rooted, Live, TypeOK, tables, history, At, Typed, Pairs
<1>11. ASSUME NEW k \in Calls, writeSpace(k) PROVE Rooted'
  BY <1>11, Remembered, FloorsAreOwned
  DEF writeSpace, Go, Finish, Rooted, Live, TypeOK, tables, history, At, Typed, Pairs
<1>12. ASSUME NEW k \in Calls, checkServices(k) PROVE Rooted'
  BY <1>12, Remembered, FloorsAreOwned
  DEF checkServices, Go, Finish, Rooted, Live, TypeOK, tables, history, At, Typed,
      Pairs
<1>13. ASSUME NEW k \in Calls, clearLinks(k) PROVE Rooted'
  BY <1>13, Remembered, FloorsAreOwned
  DEF clearLinks, Go, Finish, Rooted, Live, TypeOK, tables, history, At, Typed, Pairs
<1>14. ASSUME NEW k \in Calls, chooseLinks(k) PROVE Rooted'
  BY <1>14, Remembered, FloorsAreOwned
  DEF chooseLinks, Go, Finish, Rooted, Live, TypeOK, tables, history, At, Typed, Pairs
<1>15. ASSUME NEW k \in Calls, NEW s \in Spaces, NEW chosen \in Baskets, book(k, s, chosen)
       PROVE  Rooted'
  BY <1>15, Remembered, FloorsAreOwned
  DEF book, Begin, Rooted, Live, TypeOK, tables, history, At, Typed, Pairs
<1>16. ASSUME NEW k \in Calls, NEW s \in Spaces, NEW chosen \in Baskets, apply(k, s, chosen)
       PROVE  Rooted'
  BY <1>16, Remembered, FloorsAreOwned
  DEF apply, Begin, Rooted, Live, TypeOK, tables, history, At, Typed, Pairs
<1>17. ASSUME NEW k \in Calls, resolveBookingAddons(k) PROVE Rooted'
  BY <1>17, Remembered, FloorsAreOwned
  DEF resolveBookingAddons, Go, Finish, Rooted, Live, TypeOK, tables, history, At,
      Typed, Pairs
<1>18. ASSUME NEW k \in Calls, insertBooking(k) PROVE Rooted'
  BY <1>18, Remembered, FloorsAreOwned
  DEF insertBooking, Insert, Go, Finish, Rooted, Live, TypeOK, tables, history, At,
      Typed, Pairs
<1>19. ASSUME NEW k \in Calls, resolveApplicationAddons(k) PROVE Rooted'
  BY <1>19, Remembered, FloorsAreOwned
  DEF resolveApplicationAddons, Go, Finish, Rooted, Live, TypeOK, tables, history, At,
      Typed, Pairs
<1>20. ASSUME NEW k \in Calls, insertApplication(k) PROVE Rooted'
  BY <1>20, Remembered, FloorsAreOwned
  DEF insertApplication, Go, Finish, Rooted, Live, TypeOK, tables, history, At, Typed,
      Pairs
<1>21. ASSUME NEW k \in Calls, NEW a \in Applications, accept(k, a) PROVE Rooted'
  BY <1>21, Remembered, FloorsAreOwned
  DEF accept, Begin, Rooted, Live, TypeOK, tables, history, At, Typed, Pairs
<1>22. ASSUME NEW k \in Calls, acceptWrite(k) PROVE Rooted'
  BY <1>22, Remembered, FloorsAreOwned
  DEF acceptWrite, Insert, Go, Finish, Rooted, Live, TypeOK, tables, history, At,
      Typed, Pairs
<1>23. ASSUME NEW k \in Calls, NEW b \in Bookings, approve(k, b) PROVE Rooted'
  BY <1>23, Remembered, FloorsAreOwned
  DEF approve, Begin, Rooted, Live, TypeOK, tables, history, At, Typed, Pairs
<1>24. ASSUME NEW k \in Calls, generateInvoiceFromBooking(k) PROVE Rooted'
  <2>1. \A b \in Bookings : booking'[b].addons = booking[b].addons
    BY <1>24, Remembered DEF generateInvoiceFromBooking, TypeOK, BookingRow
  <2> QED BY <1>24, <2>1 DEF generateInvoiceFromBooking, Rooted, Live, TypeOK
<1>25. ASSUME NEW k \in Calls, Fail(k) PROVE Rooted'
  BY <1>25, Remembered, FloorsAreOwned
  DEF Fail, Go, Finish, Rooted, Live, TypeOK, tables, history, At, Typed, Pairs
<1>26. ASSUME NEW s \in Spaces, removeSpace(s) PROVE Rooted'
  <2>1. \A b \in Bookings : booking'[b].addons \subseteq booking[b].addons
    BY <1>26 DEF removeSpace, Deleted, NoBooking
  <2> QED BY <1>26, <2>1 DEF removeSpace, Rooted, Live, TypeOK
<1>27. ASSUME NEW b \in Bookings, NEW status \in Status, proceed(b, status)
       PROVE  Rooted'
  BY <1>27, Remembered, FloorsAreOwned
  DEF proceed, Rooted, Live, TypeOK, tables, history, At, Typed, Pairs
<1>28. ASSUME NEW b \in Bookings, NEW x \in ByHand, addAddon(b, x) PROVE Rooted'
  BY <1>28, Remembered, FloorsAreOwned
  DEF addAddon, Rooted, Live, TypeOK, tables, history, At, Typed, Pairs
<1>29. ASSUME NEW b \in Bookings, NEW x \in ByHand, removeAddon(b, x) PROVE Rooted'
  BY <1>29, Remembered, FloorsAreOwned
  DEF removeAddon, Rooted, Live, TypeOK, tables, history, At, Typed, Pairs
<1>30. ASSUME NEW k \in Calls, NEW s \in Spaces, NEW l \in Landlords,
             NEW chosen \in Selections \cup {Same}, createSpace(k, s, l, chosen)
      PROVE  Rooted'
  BY <1>30, Built DEF Rooted, Live, TypeOK, BookingRow
<1>31. ASSUME NEW S \in SUBSET Spaces, NEW l \in Landlords, moveFloor(S, l)
      PROVE  Rooted'
  <2>1. \A o \in offered : o[1] \in Spaces
    BY DEF TypeOK
  <2> QED BY <1>31, <2>1, Moved DEF Rooted, Live
<1> QED
  BY <1>1, <1>2, <1>3, <1>4, <1>5, <1>6, <1>7, <1>8, <1>9, <1>10, <1>11, <1>12, <1>13,
     <1>14, <1>15, <1>16, <1>17, <1>18, <1>19, <1>20, <1>21, <1>22, <1>23, <1>24,
     <1>25, <1>26, <1>27, <1>28, <1>29, <1>30, <1>31, WorksCases, Zenon

\* A step of a booking or of an application, and one that finds its row gone,
\* leaves the catalogue and what is offered alone.
Quiet ==
  /\ UNCHANGED <<service, landlord, offered, strayed, apart>>
  /\ \A k \in Calls :
       \/ call'[k] = call[k]
       \/ /\ call'[k].op \in {"idle", "offer", "insert", "submit", "lookup", "accept", "bill"}
          /\ call[k].op \notin {"spaces", "link"}
       \/ call'[k].op = "delete" /\ call[k] = Idle /\ Live(call'[k].service)

LEMMA CatalogueCases ==
  ASSUME TypeOK, Works, NEW G, Quiet => G,
         \A k \in Calls, x \in Services, l \in Landlords, active \in BOOLEAN :
           create(k, x, l, active) => G,
         \A k \in Calls, x \in Services :
           update(k, x) => G,
         \A k \in Calls, x \in Services :
           activate(k, x) => G,
         \A k \in Calls, x \in Services :
           deactivate(k, x) => G,
         \A k \in Calls :
           writeService(k) => G,
         \A k \in Calls :
           readSpaces(k) => G,
         \A k \in Calls :
           linkSpaces(k) => G,
         \A k \in Calls :
           deleteService(k) => G,
         \A k \in Calls, s \in Spaces, floor \in Floors \cup {Same}, chosen \in Selections \cup {Same} :
           patchSpace(k, s, floor, chosen) => G,
         \A k \in Calls :
           writeSpace(k) => G,
         \A k \in Calls :
           checkServices(k) => G,
         \A k \in Calls :
           clearLinks(k) => G,
         \A k \in Calls :
           chooseLinks(k) => G,
         \A k \in Calls :
           Fail(k) => G,
         \A s \in Spaces :
           removeSpace(s) => G,
         \A k \in Calls, s \in Spaces, l \in Landlords, chosen \in Selections \cup {Same} :
           createSpace(k, s, l, chosen) => G,
         \A S \in SUBSET Spaces, l \in Landlords :
           moveFloor(S, l) => G
  PROVE  G
<1>1. ASSUME NEW k \in Calls, NEW x \in Services, remove(k, x) PROVE Quiet
  BY <1>1, Remembered DEF Quiet, remove, Begin, TypeOK, At, Idle, tables, history, Live
<1>2. ASSUME NEW k \in Calls, NEW s \in Spaces, NEW chosen \in Baskets, book(k, s, chosen)
      PROVE  Quiet
  BY <1>2, Remembered DEF Quiet, book, Begin, TypeOK, At, Idle, tables, history, Live
<1>3. ASSUME NEW k \in Calls, NEW s \in Spaces, NEW chosen \in Baskets, apply(k, s, chosen)
      PROVE  Quiet
  BY <1>3, Remembered DEF Quiet, apply, Begin, TypeOK, At, Idle, tables, history, Live
<1>4. ASSUME NEW k \in Calls, resolveBookingAddons(k) PROVE Quiet
  BY <1>4, Remembered
  DEF Quiet, resolveBookingAddons, Go, Finish, TypeOK, At, Idle, tables, history, Live
<1>5. ASSUME NEW k \in Calls, insertBooking(k) PROVE Quiet
  BY <1>5, Remembered
  DEF Quiet, insertBooking, Insert, Go, Finish, TypeOK, At, Idle, tables, history, Live
<1>6. ASSUME NEW k \in Calls, resolveApplicationAddons(k) PROVE Quiet
  BY <1>6, Remembered
  DEF Quiet, resolveApplicationAddons, Go, Finish, TypeOK, At, Idle, tables, history, Live
<1>7. ASSUME NEW k \in Calls, insertApplication(k) PROVE Quiet
  BY <1>7, Remembered
  DEF Quiet, insertApplication, Go, Finish, TypeOK, At, Idle, tables, history, Live
<1>8. ASSUME NEW k \in Calls, NEW a \in Applications, accept(k, a) PROVE Quiet
  BY <1>8, Remembered DEF Quiet, accept, Begin, TypeOK, At, Idle, tables, history, Live
<1>9. ASSUME NEW k \in Calls, acceptWrite(k) PROVE Quiet
  BY <1>9, Remembered
  DEF Quiet, acceptWrite, Insert, Go, Finish, TypeOK, At, Idle, tables, history, Live
<1>10. ASSUME NEW k \in Calls, NEW b \in Bookings, approve(k, b) PROVE Quiet
  BY <1>10, Remembered DEF Quiet, approve, Begin, TypeOK, At, Idle, tables, history, Live
<1>11. ASSUME NEW k \in Calls, generateInvoiceFromBooking(k) PROVE Quiet
  BY <1>11, Remembered
  DEF Quiet, generateInvoiceFromBooking, Go, Finish, TypeOK, At, Idle, tables, history,
      Live
<1>12. ASSUME NEW b \in Bookings, NEW status \in Status, proceed(b, status) PROVE Quiet
  BY <1>12, Remembered DEF Quiet, proceed, TypeOK, At, Idle, tables, history, Live
<1>13. ASSUME NEW b \in Bookings, NEW x \in ByHand, addAddon(b, x) PROVE Quiet
  BY <1>13, Remembered DEF Quiet, addAddon, TypeOK, At, Idle, tables, history, Live
<1>14. ASSUME NEW b \in Bookings, NEW x \in ByHand, removeAddon(b, x) PROVE Quiet
  BY <1>14, Remembered DEF Quiet, removeAddon, TypeOK, At, Idle, tables, history, Live
<1> QED
  BY <1>1, <1>2, <1>3, <1>4, <1>5, <1>6, <1>7, <1>8, <1>9, <1>10, <1>11, <1>12, <1>13,
     <1>14, WorksCases, Zenon

LEMMA BornStep ==
  ASSUME TInv, Born, Works
  PROVE  Born'
<1> TypeOK BY DEF TInv
<1>1. ASSUME Quiet PROVE Born'
  BY <1>1, Remembered DEF Quiet, Born, TypeOK, At, Live
<1>2. ASSUME NEW k \in Calls, NEW x \in Services, NEW l \in Landlords,
             NEW active \in BOOLEAN, create(k, x, l, active)
      PROVE  Born'
  BY <1>2, Remembered
  DEF create, Begin, Born, TypeOK, At, Idle, tables, history, Live, Links, Patched,
      ServiceRow, Valid, Active
<1>3. ASSUME NEW k \in Calls, NEW x \in Services, update(k, x) PROVE Born'
  BY <1>3, Remembered
  DEF update, Write, Begin, Born, TypeOK, At, Idle, tables, history, Live, Links,
      Patched, ServiceRow, Valid, Active
<1>4. ASSUME NEW k \in Calls, NEW x \in Services, activate(k, x) PROVE Born'
  BY <1>4, Remembered
  DEF activate, Write, Begin, Born, TypeOK, At, Idle, tables, history, Live, Links,
      Patched, ServiceRow, Valid, Active
<1>5. ASSUME NEW k \in Calls, NEW x \in Services, deactivate(k, x) PROVE Born'
  BY <1>5, Remembered
  DEF deactivate, Write, Begin, Born, TypeOK, At, Idle, tables, history, Live, Links,
      Patched, ServiceRow, Valid, Active
<1>6. ASSUME NEW k \in Calls, writeService(k) PROVE Born'
  <2>1. \A y \in Services : service'[y].state = service[y].state
    <3>1. call[k].service \in Services BY <1>6, Remembered DEF writeService
    <3>2. service[call[k].service] \in ServiceRow BY <3>1 DEF TypeOK
    <3>3. Patched(service[call[k].service], call[k].edit).state = service[call[k].service].state
      BY <3>2 DEF Patched, ServiceRow
    <3> QED BY <1>6, <3>1, <3>3 DEF writeService, TypeOK
  <2>2. \/ call'[k] = Idle
        \/ call'[k].op = "spaces" /\ call'[k].service = call[k].service
    BY <1>6 DEF writeService, Go, Finish, TypeOK
  <2>3. \A j \in Calls \ {k} : call'[j] = call[j]
    BY <1>6 DEF writeService, Go, Finish, TypeOK
  <2> QED BY <1>6, <2>1, <2>2, <2>3, Remembered DEF writeService, Born, Idle, At
<1>7. ASSUME NEW k \in Calls, readSpaces(k) PROVE Born'
  BY <1>7, Remembered
  DEF readSpaces, Go, Born, TypeOK, At, Idle, tables, history, Live, Links, Patched,
      ServiceRow, Valid, Active
<1>8. ASSUME NEW k \in Calls, linkSpaces(k) PROVE Born'
  BY <1>8, Remembered
  DEF linkSpaces, Finish, Go, Born, TypeOK, At, Idle, tables, history, Live, Links,
      Patched, ServiceRow, Valid, Active
<1>9. ASSUME NEW k \in Calls, deleteService(k) PROVE Born'
  <2>1. \A y \in Services : service'[y].state \in {"gone", service[y].state}
    BY <1>9 DEF deleteService, TypeOK, NoService, tables
  <2>2. call'[k] = Idle /\ \A j \in Calls \ {k} : call'[j] = call[j]
    BY <1>9 DEF deleteService, Go, Finish, TypeOK
  <2> QED BY <2>1, <2>2, Remembered DEF Born, Idle, At
<1>10. ASSUME NEW k \in Calls, NEW s \in Spaces, NEW floor \in Floors \cup {Same},
            NEW chosen \in Selections \cup {Same}, patchSpace(k, s, floor, chosen)
       PROVE  Born'
  BY <1>10, Remembered
  DEF patchSpace, Begin, Born, TypeOK, At, Idle, tables, history, Live, Links,
      Patched, ServiceRow, Valid, Active
<1>11. ASSUME NEW k \in Calls, writeSpace(k) PROVE Born'
  BY <1>11, Remembered
  DEF writeSpace, Go, Finish, Born, TypeOK, At, Idle, tables, history, Live, Links,
      Patched, ServiceRow, Valid, Active
<1>12. ASSUME NEW k \in Calls, checkServices(k) PROVE Born'
  BY <1>12, Remembered
  DEF checkServices, Go, Finish, Born, TypeOK, At, Idle, tables, history, Live, Links,
      Patched, ServiceRow, Valid, Active
<1>13. ASSUME NEW k \in Calls, clearLinks(k) PROVE Born'
  <2>1. call'[k] = Idle \/ (call'[k].op = "choose" /\ call'[k].chosen = call[k].chosen)
    BY <1>13, Cleared
  <2>2. \A j \in Calls \ {k} : call'[j] = call[j]
    BY <1>13, Cleared
  <2> QED BY <1>13, <2>1, <2>2 DEF clearLinks, Born, Idle, At
<1>14. ASSUME NEW k \in Calls, chooseLinks(k) PROVE Born'
  BY <1>14, Remembered
  DEF chooseLinks, Go, Finish, Born, TypeOK, At, Idle, tables, history, Live, Links,
      Patched, ServiceRow, Valid, Active
<1>15. ASSUME NEW k \in Calls, Fail(k) PROVE Born'
  BY <1>15, Remembered
  DEF Fail, Go, Finish, Born, TypeOK, At, Idle, tables, history, Live, Links, Patched,
      ServiceRow, Valid, Active
<1>16. ASSUME NEW s \in Spaces, removeSpace(s) PROVE Born'
  BY <1>16, Remembered
  DEF removeSpace, Born, TypeOK, At, Idle, tables, history, Live, Links, Patched,
      ServiceRow, Valid, Active
<1>17. ASSUME NEW k \in Calls, NEW s \in Spaces, NEW l \in Landlords,
             NEW chosen \in Selections \cup {Same}, createSpace(k, s, l, chosen)
      PROVE  Born'
  BY <1>17, Built DEF Born, Idle
<1>18. ASSUME NEW S \in SUBSET Spaces, NEW l \in Landlords, moveFloor(S, l)
      PROVE  Born'
  BY <1>18, Moved DEF Born
<1> QED
  BY <1>1, <1>2, <1>3, <1>4, <1>5, <1>6, <1>7, <1>8, <1>9, <1>10, <1>11, <1>12, <1>13,
     <1>14, <1>15, <1>16, <1>17, <1>18, CatalogueCases, Zenon

\* What the creation of a service leaves.
LEMMA Created ==
  ASSUME TypeOK, NEW k \in Calls, NEW x \in Services, NEW l \in Landlords,
         NEW active \in BOOLEAN, create(k, x, l, active)
  PROVE  /\ service[x].state = "unborn"
         /\ service'[x].state = "live" /\ service'[x].tenant = l
         /\ service'[x].active = active
         /\ \A y \in Services \ {x} : service'[y] = service[y]
         /\ landlord' = landlord /\ offered' = offered
         /\ strayed' = strayed /\ apart' = apart
         /\ call[k] = Idle /\ \A j \in Calls \ {k} : call'[j] = call[j]
         /\ active => call'[k].op = "spaces" /\ call'[k].service = x /\ call'[k].tenant = l
         /\ ~active => call'[k] = Idle
<1>1. service[x].state = "unborn"
  BY DEF create, NoService
<1>2. service' = [service EXCEPT ![x] = [state |-> "live", tenant |-> l, active |-> active]]
  BY DEF create
<1>3. /\ service'[x].state = "live" /\ service'[x].tenant = l /\ service'[x].active = active
      /\ \A y \in Services \ {x} : service'[y] = service[y]
  BY <1>2 DEF TypeOK
<1>4. UNCHANGED <<landlord, offered, strayed, apart>>
  BY DEF create, history
<1>5. call[k] = Idle /\ \A j \in Calls \ {k} : call'[j] = call[j]
  BY DEF create, Begin, TypeOK
<1>6. /\ active => call' = [call EXCEPT ![k] = [op |-> "spaces", service |-> x, tenant |-> l]]
      /\ ~active => call' = call
  BY DEF create, Begin
<1>7. /\ active => call'[k].op = "spaces" /\ call'[k].service = x /\ call'[k].tenant = l
      /\ ~active => call'[k] = Idle
  BY <1>5, <1>6 DEF TypeOK
<1> QED BY <1>1, <1>3, <1>4, <1>5, <1>7

\* What the change of a service that is there leaves.
LEMMA Rewritten ==
  ASSUME TypeOK, NEW k \in Calls, writeService(k), Live(call[k].service)
  PROVE  LET x == call[k].service IN
         /\ x \in Services /\ At(k, "write") /\ service'[x].state = "live"
         /\ \A y \in Services \ {x} : service'[y] = service[y]
         /\ UNCHANGED <<landlord, offered, apart>> /\ strayed \subseteq strayed'
         /\ \A s \in Spaces :
              <<s, x>> \in strayed' \/ service'[x].tenant = service[x].tenant
         /\ \A j \in Calls \ {k} : call'[j] = call[j]
         /\ \/ call'[k] = Idle
            \/ /\ call'[k].op = "spaces" /\ call'[k].service = x
               /\ call'[k].tenant =
                    IF call[k].owner # None THEN call[k].owner ELSE service'[x].tenant
<1> DEFINE x == call[k].service
<1>1. x \in Services /\ At(k, "write")
  BY Remembered DEF writeService
<1>2. service' = [service EXCEPT ![x] = Patched(@, call[k].edit)]
  BY DEF writeService
<1>3. strayed' = IF service'[x].tenant # service[x].tenant
                 THEN strayed \cup (Spaces \X {x}) ELSE strayed
  BY DEF writeService
<1>4. \/ call' = [call EXCEPT ![k] = Idle]
      \/ call' = [call EXCEPT ![k] =
           [op |-> "spaces", service |-> x,
            tenant |-> IF call[k].owner # None THEN call[k].owner ELSE service'[x].tenant]]
  BY DEF writeService, Go, Finish
<1>5. UNCHANGED <<landlord, offered, apart>>
  BY DEF writeService
<1>6. service[x].state = "live"
  BY DEF Live
<1> HIDE DEF x
<1>7. service'[x] = Patched(service[x], call[k].edit) /\ service[x] \in ServiceRow
  BY <1>1, <1>2 DEF TypeOK
<1>8. service'[x].state = "live"
  BY <1>6, <1>7 DEF Patched, ServiceRow
<1>9. \A y \in Services \ {x} : service'[y] = service[y]
  BY <1>2 DEF TypeOK
<1>10. \A j \in Calls \ {k} : call'[j] = call[j]
  BY <1>4 DEF TypeOK
<1>11. \/ call'[k] = Idle
       \/ /\ call'[k].op = "spaces" /\ call'[k].service = x
          /\ call'[k].tenant =
               IF call[k].owner # None THEN call[k].owner ELSE service'[x].tenant
  BY <1>4 DEF TypeOK
<1>12. /\ strayed \subseteq strayed'
       /\ \A s \in Spaces :
            <<s, x>> \in strayed' \/ service'[x].tenant = service[x].tenant
  BY <1>3
<1> QED BY <1>1, <1>5, <1>8, <1>9, <1>10, <1>11, <1>12 DEF x

LEMMA ProvidedStep ==
  ASSUME TInv, Born, Provided, Works
  PROVE  Provided'
<1> TypeOK /\ Rooted BY DEF TInv
<1> USE Markers
<1>1. ASSUME Quiet PROVE Provided'
  BY <1>1, Remembered DEF Quiet, Provided, Settled, TypeOK, At, Live
<1>2. ASSUME NEW k \in Calls, NEW x \in Services, NEW l \in Landlords,
             NEW active \in BOOLEAN, create(k, x, l, active)
      PROVE  Provided'
  <2>1. \A j \in Calls : call[j].op \in {"write", "spaces", "link"} =>
          call[j].service \in Services \ {x}
    BY <1>2, Created, Remembered DEF Born, At
  <2>2. \A j \in Calls : call'[j].op \in {"write", "spaces", "link"} =>
          \/ call'[j] = call[j] /\ call[j].service \in Services \ {x}
          \/ call'[j].op = "spaces" /\ call'[j].service = x /\ call'[j].tenant = l
    BY <1>2, <2>1, Created DEF Idle
  <2> QED BY <1>2, <2>2, Created DEF Provided, Settled, At, Live
<1>3. ASSUME NEW k \in Calls, NEW x \in Services, update(k, x) PROVE Provided'
  BY <1>3, Remembered
  DEF update, Write, Begin, Provided, Settled, Born, TypeOK, Rooted, At, Idle, tables,
      history, Live, Links, NoService
<1>4. ASSUME NEW k \in Calls, NEW x \in Services, activate(k, x) PROVE Provided'
  BY <1>4, Remembered
  DEF activate, Write, Begin, Provided, Settled, Born, TypeOK, Rooted, At, Idle,
      tables, history, Live, Links, NoService
<1>5. ASSUME NEW k \in Calls, NEW x \in Services, deactivate(k, x) PROVE Provided'
  BY <1>5, Remembered
  DEF deactivate, Write, Begin, Provided, Settled, Born, TypeOK, Rooted, At, Idle,
      tables, history, Live, Links, NoService
<1>6. ASSUME NEW k \in Calls, writeService(k) PROVE Provided'
  <2>1. CASE ~Live(call[k].service)
    <3>1. UNCHANGED <<service, landlord, strayed, offered, apart>>
      BY <1>6, <2>1 DEF writeService
    <3>2. call'[k] = Idle /\ \A j \in Calls \ {k} : call'[j] = call[j]
      BY <1>6, <2>1 DEF writeService, Go, Finish, TypeOK
    <3> QED BY <3>1, <3>2 DEF Provided, Settled, At, Live, Idle
  <2>2. CASE Live(call[k].service)
    <3> DEFINE x == call[k].service
    <3>1. \A s \in Spaces, y \in Services : Settled(s, y)' =>
            Settled(s, y) /\ service'[y].tenant = service[y].tenant
      BY <1>6, <2>2, Rewritten DEF Settled, Live
    <3>2. \A j \in Calls : call'[j].op \in {"write", "spaces", "link"} =>
            \/ call'[j] = call[j] /\ call[j].service \in Services
            \/ j = k /\ call'[k].op = "spaces" /\ call'[k].service = x
      BY <1>6, <2>2, Remembered, Rewritten DEF Idle, At
    <3>3. \A j \in Calls, s \in Spaces : call'[j] = call[j] /\ call[j].service \in Services =>
            /\ At(j, "write")' /\ call'[j].owner # None /\ Settled(s, call[j].service)' =>
                 service'[call'[j].service].tenant = call'[j].owner
            /\ At(j, "spaces")' /\ Settled(s, call[j].service)' =>
                 service'[call'[j].service].tenant = call'[j].tenant
            /\ At(j, "link")' /\ Settled(s, call[j].service)' =>
                 (landlord'[s] # None =>
                    /\ s \in call'[j].spaces =>
                         landlord'[s] = service'[call'[j].service].tenant
                    /\ landlord'[s] = service'[call'[j].service].tenant =>
                         s \in call'[j].spaces
                         \/ <<s, call'[j].service>> \in apart' \cup offered')
      BY <1>6, <2>2, <3>1, Rewritten DEF Provided, At
    <3>4. ASSUME NEW s \in Spaces, call'[k].op = "spaces", call'[k].service = x, Settled(s, x)'
          PROVE  service'[x].tenant = call'[k].tenant
      <4>1. call[k].owner # None => service[x].tenant = call[k].owner
        BY <1>6, <2>2, <3>1, <3>4, Rewritten DEF Provided
      <4>2. service'[x].tenant = service[x].tenant
        BY <1>6, <2>2, <3>1, <3>4, Rewritten
      <4> QED BY <1>6, <2>2, <3>4, <4>1, <4>2, Rewritten DEF Idle
    <3>5. \A s \in Spaces : call'[k].op = "spaces" /\ call'[k].service = x =>
            /\ ~At(k, "write")' /\ ~At(k, "link")'
            /\ Settled(s, call[k].service)' =>
                 service'[call'[k].service].tenant = call'[k].tenant
      BY <3>4 DEF At
    <3>6. \A j \in Calls :
            \/ ~At(j, "write")' /\ ~At(j, "spaces")' /\ ~At(j, "link")'
            \/ call'[j] = call[j] /\ call[j].service \in Services
            \/ j = k /\ call'[k].op = "spaces" /\ call'[k].service = x
      BY <3>2 DEF At
    <3> HIDE DEF x
    <3> QED BY <3>3, <3>5, <3>6 DEF Provided
  <2> QED BY <2>1, <2>2
<1>7. ASSUME NEW k \in Calls, readSpaces(k) PROVE Provided'
  BY <1>7, Remembered
  DEF readSpaces, Go, Provided, Settled, Born, TypeOK, Rooted, At, Idle, tables,
      history, Live, Links, NoService
<1>8. ASSUME NEW k \in Calls, linkSpaces(k) PROVE Provided'
  BY <1>8, Remembered
  DEF linkSpaces, Finish, Go, Provided, Settled, Born, TypeOK, Rooted, At, Idle,
      tables, history, Live, Links, NoService
<1>9. ASSUME NEW k \in Calls, deleteService(k) PROVE Provided'
  BY <1>9, Remembered
  DEF deleteService, Finish, Go, Provided, Settled, Born, TypeOK, Rooted, At, Idle,
      tables, history, Live, Links, NoService
<1>10. ASSUME NEW k \in Calls, NEW s \in Spaces, NEW floor \in Floors \cup {Same},
            NEW chosen \in Selections \cup {Same}, patchSpace(k, s, floor, chosen)
       PROVE  Provided'
  BY <1>10, Remembered
  DEF patchSpace, Begin, Provided, Settled, Born, TypeOK, Rooted, At, Idle, tables,
      history, Live, Links, NoService
<1>11. ASSUME NEW k \in Calls, writeSpace(k) PROVE Provided'
  BY <1>11, Remembered
  DEF writeSpace, Go, Finish, Provided, Settled, Born, TypeOK, Rooted, At, Idle,
      tables, history, Live, Links, NoService
<1>12. ASSUME NEW k \in Calls, checkServices(k) PROVE Provided'
  BY <1>12, Remembered
  DEF checkServices, Go, Finish, Provided, Settled, Born, TypeOK, Rooted, At, Idle,
      tables, history, Live, Links, NoService
<1>13. ASSUME NEW k \in Calls, clearLinks(k) PROVE Provided'
  <2>1. \/ call'[k] = Idle
        \/ /\ call'[k].op = "choose" /\ call'[k].space = call[k].space
           /\ call'[k].chosen = call[k].chosen
    BY <1>13, Cleared
  <2>2. \A j \in Calls \ {k} : call'[j] = call[j]
    BY <1>13, Cleared
  <2>3. \A s \in Spaces, x \in Services :
          /\ Live(x) /\ landlord[s] # None
          /\ <<s, x>> \in apart \cup offered
          => <<s, x>> \in apart' \cup offered'
    BY <1>13 DEF clearLinks, Pairs
  <2>4. UNCHANGED <<service, landlord, strayed>>
    BY <1>13 DEF clearLinks
  <2> QED BY <2>1, <2>2, <2>3, <2>4, Remembered DEF Provided, Settled, Idle, At, Live
<1>14. ASSUME NEW k \in Calls, chooseLinks(k) PROVE Provided'
  BY <1>14, Remembered
  DEF chooseLinks, Go, Finish, Provided, Settled, Born, TypeOK, Rooted, At, Idle,
      tables, history, Live, Links, NoService
<1>15. ASSUME NEW k \in Calls, Fail(k) PROVE Provided'
  BY <1>15, Remembered
  DEF Fail, Go, Finish, Provided, Settled, Born, TypeOK, Rooted, At, Idle, tables,
      history, Live, Links, NoService
<1>16. ASSUME NEW s \in Spaces, removeSpace(s) PROVE Provided'
  BY <1>16, Remembered
  DEF removeSpace, Provided, Settled, Born, TypeOK, Rooted, At, Idle, tables, history,
      Live, Links, NoService
<1>17. ASSUME NEW k \in Calls, NEW s \in Spaces, NEW l \in Landlords,
             NEW chosen \in Selections \cup {Same}, createSpace(k, s, l, chosen)
      PROVE  Provided'
  <2>1. \A j \in Calls : call'[j].op \in {"write", "spaces", "link"} => call'[j] = call[j]
    <3>1. call'[k].op \in {"write", "spaces", "link"} => call'[k] = call[k]
      BY <1>17, Built
    <3>2. \A j \in Calls \ {k} : call'[j] = call[j]
      BY <1>17, Built
    <3> QED BY <3>1, <3>2
  <2>2. \A j \in Calls : call[j].op \in {"write", "spaces", "link"} => call[j].service \in Services
    BY Remembered DEF At
  <2>3. \A j \in Calls : At(j, "link") => s \notin call[j].spaces
    BY <1>17 DEF createSpace, Unknown
  <2> QED BY <1>17, <2>1, <2>2, <2>3, Built DEF Provided, Settled, At, Live
<1>18. ASSUME NEW S \in SUBSET Spaces, NEW l \in Landlords, moveFloor(S, l)
      PROVE  Provided'
  <2>1. UNCHANGED <<service, offered, call, apart>> /\ strayed \subseteq strayed'
    BY <1>18, Moved
  <2>2. \A j \in Calls : call[j].op \in {"write", "spaces", "link"} => call[j].service \in Services
    BY Remembered DEF At
  <2>3. \A u \in Spaces, x \in Services : Settled(u, x)' => landlord'[u] = landlord[u] /\ Settled(u, x)
    BY <1>18, <2>1, Moved DEF Settled, Live
  <2> QED BY <2>1, <2>2, <2>3 DEF Provided, At
<1> QED
  BY <1>1, <1>2, <1>3, <1>4, <1>5, <1>6, <1>7, <1>8, <1>9, <1>10, <1>11, <1>12, <1>13,
     <1>14, <1>15, <1>16, <1>17, <1>18, CatalogueCases, Zenon

LEMMA PlacedStep ==
  ASSUME TInv, Born, Placed, Works
  PROVE  Placed'
<1> TypeOK /\ Rooted BY DEF TInv
<1> USE Markers
<1>1. ASSUME Quiet PROVE Placed'
  BY <1>1, Remembered DEF Quiet, Placed, Settled, TypeOK, At, Live
<1>2. ASSUME NEW k \in Calls, NEW x \in Services, NEW l \in Landlords,
             NEW active \in BOOLEAN, create(k, x, l, active)
      PROVE  Placed'
  BY <1>2, Remembered
  DEF create, Begin, Placed, Settled, Born, TypeOK, Rooted, At, Idle, tables, history,
      Live, Links, NoService
<1>3. ASSUME NEW k \in Calls, NEW x \in Services, update(k, x) PROVE Placed'
  BY <1>3, Remembered
  DEF update, Write, Begin, Placed, Settled, Born, TypeOK, Rooted, At, Idle, tables,
      history, Live, Links, NoService
<1>4. ASSUME NEW k \in Calls, NEW x \in Services, activate(k, x) PROVE Placed'
  BY <1>4, Remembered
  DEF activate, Write, Begin, Placed, Settled, Born, TypeOK, Rooted, At, Idle, tables,
      history, Live, Links, NoService
<1>5. ASSUME NEW k \in Calls, NEW x \in Services, deactivate(k, x) PROVE Placed'
  BY <1>5, Remembered
  DEF deactivate, Write, Begin, Placed, Settled, Born, TypeOK, Rooted, At, Idle,
      tables, history, Live, Links, NoService
<1>6. ASSUME NEW k \in Calls, writeService(k) PROVE Placed'
  BY <1>6, Remembered
  DEF writeService, Go, Finish, Placed, Settled, Born, TypeOK, Rooted, At, Idle,
      tables, history, Live, Links, NoService
<1>7. ASSUME NEW k \in Calls, readSpaces(k) PROVE Placed'
  BY <1>7, Remembered
  DEF readSpaces, Go, Placed, Settled, Born, TypeOK, Rooted, At, Idle, tables,
      history, Live, Links, NoService
<1>8. ASSUME NEW k \in Calls, linkSpaces(k) PROVE Placed'
  BY <1>8, Remembered
  DEF linkSpaces, Finish, Go, Placed, Settled, Born, TypeOK, Rooted, At, Idle, tables,
      history, Live, Links, NoService
<1>9. ASSUME NEW k \in Calls, deleteService(k) PROVE Placed'
  BY <1>9, Remembered
  DEF deleteService, Finish, Go, Placed, Settled, Born, TypeOK, Rooted, At, Idle,
      tables, history, Live, Links, NoService
<1>10. ASSUME NEW k \in Calls, NEW s \in Spaces, NEW floor \in Floors \cup {Same},
            NEW chosen \in Selections \cup {Same}, patchSpace(k, s, floor, chosen)
       PROVE  Placed'
  BY <1>10, Remembered
  DEF patchSpace, Begin, Placed, Settled, Born, TypeOK, Rooted, At, Idle, tables,
      history, Live, Links, NoService
<1>11. ASSUME NEW k \in Calls, writeSpace(k) PROVE Placed'
  BY <1>11, Remembered
  DEF writeSpace, Go, Finish, Placed, Settled, Born, TypeOK, Rooted, At, Idle, tables,
      history, Live, Links, NoService
<1>12. ASSUME NEW k \in Calls, checkServices(k) PROVE Placed'
  <2>1. \/ call'[k] = Idle
        \/ /\ call'[k] = [op |-> "clear", space |-> call[k].space, chosen |-> call[k].chosen]
           /\ Valid(call[k].chosen, call[k].landlord)
    BY <1>12 DEF checkServices, Go, Finish, TypeOK
  <2>2. \A j \in Calls \ {k} : call'[j] = call[j]
    BY <1>12 DEF checkServices, Go, Finish, TypeOK
  <2>3. UNCHANGED <<service, landlord, strayed>>
    BY <1>12 DEF checkServices, tables, history
  <2>4. ASSUME NEW x \in call[k].chosen, Valid(call[k].chosen, call[k].landlord),
               Settled(call[k].space, x), landlord[call[k].space] # None
        PROVE  service[x].tenant = landlord[call[k].space]
    <3>1. x \in Services BY <1>12, Remembered DEF checkServices
    <3>2. service[x].tenant = call[k].landlord
      BY <2>4 DEF Valid, Active
    <3>3. landlord[call[k].space] = call[k].landlord
      BY <1>12, <2>4, <3>1 DEF checkServices, Placed, Settled, Live
    <3> QED BY <3>2, <3>3
  <2> QED BY <1>12, <2>1, <2>2, <2>3, <2>4, Remembered DEF Placed, Settled, Idle, At, Live
<1>13. ASSUME NEW k \in Calls, clearLinks(k) PROVE Placed'
  <2>1. \/ call'[k] = Idle
        \/ /\ call'[k].op = "choose" /\ call'[k].space = call[k].space
           /\ call'[k].chosen = call[k].chosen
    BY <1>13, Cleared
  <2>2. \A j \in Calls \ {k} : call'[j] = call[j]
    BY <1>13, Cleared
  <2> QED BY <1>13, <2>1, <2>2, Remembered DEF clearLinks, Placed, Settled, Idle, At, Live
<1>14. ASSUME NEW k \in Calls, chooseLinks(k) PROVE Placed'
  BY <1>14, Remembered
  DEF chooseLinks, Go, Finish, Placed, Settled, Born, TypeOK, Rooted, At, Idle,
      tables, history, Live, Links, NoService
<1>15. ASSUME NEW k \in Calls, Fail(k) PROVE Placed'
  BY <1>15, Remembered
  DEF Fail, Go, Finish, Placed, Settled, Born, TypeOK, Rooted, At, Idle, tables,
      history, Live, Links, NoService
<1>16. ASSUME NEW s \in Spaces, removeSpace(s) PROVE Placed'
  BY <1>16, Remembered
  DEF removeSpace, Placed, Settled, Born, TypeOK, Rooted, At, Idle, tables, history,
      Live, Links, NoService
<1>17. ASSUME NEW k \in Calls, NEW s \in Spaces, NEW l \in Landlords,
             NEW chosen \in Selections \cup {Same}, createSpace(k, s, l, chosen)
      PROVE  Placed'
  <2>1. \A j \in Calls : call'[j].op \in {"patch", "check", "clear", "choose"} =>
          \/ call'[j] = call[j] /\ call[j].space \in Spaces \ {s}
          \/ call'[j].op = "check" /\ call'[j].space = s /\ call'[j].landlord = l
    <3>1. \A j \in Calls : call[j].op \in {"patch", "check", "clear", "choose"} =>
            call[j].space \in Spaces \ {s}
      BY <1>17, Remembered DEF At, createSpace, Unknown
    <3>2. \A j \in Calls :
            \/ call'[j] = call[j]
            \/ call'[j].op = "check" /\ call'[j].space = s /\ call'[j].landlord = l
      <4>1. \/ call' = call
            \/ call'[k].op = "check" /\ call'[k].space = s /\ call'[k].landlord = l
        BY <1>17, Built
      <4>2. \A j \in Calls \ {k} : call'[j] = call[j]
        BY <1>17, Built
      <4> QED BY <4>1, <4>2
    <3> QED BY <3>1, <3>2
  <2> QED BY <1>17, <2>1, Built DEF Placed, Settled, At, Live
<1>18. ASSUME NEW S \in SUBSET Spaces, NEW l \in Landlords, moveFloor(S, l)
      PROVE  Placed'
  <2>1. \A j \in Calls : ~At(j, "patch") /\ ~At(j, "check")
    BY <1>18 DEF moveFloor
  <2>2. call' = call /\ service' = service /\ strayed \subseteq strayed'
    BY <1>18, Moved
  <2>3. ASSUME NEW j \in Calls, At(j, "clear") \/ At(j, "choose"), NEW x \in call[j].chosen,
               Settled(call[j].space, x)', landlord'[call[j].space] # None
        PROVE  service[x].tenant = landlord'[call[j].space]
    <3>1. call[j].space \in Spaces /\ x \in Services
      BY <2>3, Remembered DEF At
    <3>2. /\ landlord'[call[j].space] = landlord[call[j].space]
          /\ Settled(call[j].space, x)
      BY <1>18, <2>2, <2>3, <3>1, Moved DEF Settled, Live
    <3> QED BY <2>3, <3>1, <3>2 DEF Placed
  <2> QED BY <2>1, <2>2, <2>3 DEF Placed, At
<1> QED
  BY <1>1, <1>2, <1>3, <1>4, <1>5, <1>6, <1>7, <1>8, <1>9, <1>10, <1>11, <1>12, <1>13,
     <1>14, <1>15, <1>16, <1>17, <1>18, CatalogueCases, Zenon

LEMMA OffersStep ==
  ASSUME TInv, Born, Provided, Placed, OffersOwn, Works
  PROVE  OffersOwn'
<1> TypeOK /\ Rooted BY DEF TInv
<1> USE Markers
<1>1. ASSUME Quiet PROVE OffersOwn'
  BY <1>1 DEF Quiet, OffersOwn
<1>2. ASSUME NEW k \in Calls, NEW x \in Services, NEW l \in Landlords,
             NEW active \in BOOLEAN, create(k, x, l, active)
      PROVE  OffersOwn'
  BY <1>2, Remembered
  DEF create, Begin, OffersOwn, Placed, Provided, Settled, TypeOK, Rooted, At, Idle,
      tables, history, Live, Links, NoService
<1>3. ASSUME NEW k \in Calls, NEW x \in Services, update(k, x) PROVE OffersOwn'
  BY <1>3, Remembered
  DEF update, Write, Begin, OffersOwn, Placed, Provided, Settled, TypeOK, Rooted, At,
      Idle, tables, history, Live, Links, NoService
<1>4. ASSUME NEW k \in Calls, NEW x \in Services, activate(k, x) PROVE OffersOwn'
  BY <1>4, Remembered
  DEF activate, Write, Begin, OffersOwn, Placed, Provided, Settled, TypeOK, Rooted,
      At, Idle, tables, history, Live, Links, NoService
<1>5. ASSUME NEW k \in Calls, NEW x \in Services, deactivate(k, x) PROVE OffersOwn'
  BY <1>5, Remembered
  DEF deactivate, Write, Begin, OffersOwn, Placed, Provided, Settled, TypeOK, Rooted,
      At, Idle, tables, history, Live, Links, NoService
<1>6. ASSUME NEW k \in Calls, writeService(k) PROVE OffersOwn'
  BY <1>6, Remembered
  DEF writeService, Go, Finish, OffersOwn, Placed, Provided, Settled, TypeOK, Rooted,
      At, Idle, tables, history, Live, Links, NoService
<1>7. ASSUME NEW k \in Calls, readSpaces(k) PROVE OffersOwn'
  BY <1>7, Remembered
  DEF readSpaces, Go, OffersOwn, Placed, Provided, Settled, TypeOK, Rooted, At, Idle,
      tables, history, Live, Links, NoService
<1>8. ASSUME NEW k \in Calls, linkSpaces(k) PROVE OffersOwn'
  BY <1>8, Remembered
  DEF linkSpaces, Finish, Go, OffersOwn, Placed, Provided, Settled, TypeOK, Rooted,
      At, Idle, tables, history, Live, Links, NoService
<1>9. ASSUME NEW k \in Calls, deleteService(k) PROVE OffersOwn'
  BY <1>9, Remembered
  DEF deleteService, Finish, Go, OffersOwn, Placed, Provided, Settled, TypeOK, Rooted,
      At, Idle, tables, history, Live, Links, NoService
<1>10. ASSUME NEW k \in Calls, NEW s \in Spaces, NEW floor \in Floors \cup {Same},
            NEW chosen \in Selections \cup {Same}, patchSpace(k, s, floor, chosen)
       PROVE  OffersOwn'
  BY <1>10, Remembered
  DEF patchSpace, Begin, OffersOwn, Placed, Provided, Settled, TypeOK, Rooted, At,
      Idle, tables, history, Live, Links, NoService
<1>11. ASSUME NEW k \in Calls, writeSpace(k) PROVE OffersOwn'
  BY <1>11, Remembered
  DEF writeSpace, Go, Finish, OffersOwn, Placed, Provided, Settled, TypeOK, Rooted,
      At, Idle, tables, history, Live, Links, NoService
<1>12. ASSUME NEW k \in Calls, checkServices(k) PROVE OffersOwn'
  BY <1>12, Remembered
  DEF checkServices, Go, Finish, OffersOwn, Placed, Provided, Settled, TypeOK, Rooted,
      At, Idle, tables, history, Live, Links, NoService
<1>13. ASSUME NEW k \in Calls, clearLinks(k) PROVE OffersOwn'
  BY <1>13, Remembered
  DEF clearLinks, Go, Finish, OffersOwn, Placed, Provided, Settled, TypeOK, Rooted,
      At, Idle, tables, history, Live, Links, NoService
<1>14. ASSUME NEW k \in Calls, chooseLinks(k) PROVE OffersOwn'
  BY <1>14, Remembered
  DEF chooseLinks, Go, Finish, OffersOwn, Placed, Provided, Settled, TypeOK, Rooted,
      At, Idle, tables, history, Live, Links, NoService
<1>15. ASSUME NEW k \in Calls, Fail(k) PROVE OffersOwn'
  BY <1>15, Remembered
  DEF Fail, Go, Finish, OffersOwn, Placed, Provided, Settled, TypeOK, Rooted, At,
      Idle, tables, history, Live, Links, NoService
<1>16. ASSUME NEW s \in Spaces, removeSpace(s) PROVE OffersOwn'
  BY <1>16, Remembered
  DEF removeSpace, OffersOwn, Placed, Provided, Settled, TypeOK, Rooted, At, Idle,
      tables, history, Live, Links, NoService
<1>17. ASSUME NEW k \in Calls, NEW s \in Spaces, NEW l \in Landlords,
             NEW chosen \in Selections \cup {Same}, createSpace(k, s, l, chosen)
      PROVE  OffersOwn'
  <2>1. \A o \in offered : o[1] \in Spaces \ {s}
    BY <1>17, Built DEF Rooted, TypeOK
  <2> QED BY <1>17, <2>1, Built DEF OffersOwn
<1>18. ASSUME NEW S \in SUBSET Spaces, NEW l \in Landlords, moveFloor(S, l)
      PROVE  OffersOwn'
  <2>1. \A o \in offered : o \in Spaces \X Services /\ o = <<o[1], o[2]>>
    BY DEF TypeOK
  <2> QED BY <1>18, <2>1, Moved DEF OffersOwn
<1> QED
  BY <1>1, <1>2, <1>3, <1>4, <1>5, <1>6, <1>7, <1>8, <1>9, <1>10, <1>11, <1>12, <1>13,
     <1>14, <1>15, <1>16, <1>17, <1>18, CatalogueCases, Zenon

\* Nothing stops being selectable while the links of its service are under way.
LEMMA StillLinking ==
  ASSUME SelectableEverywhere, UNCHANGED <<service, landlord, offered, strayed, apart>>,
         \A k \in Calls : call[k].op \in {"spaces", "link"} =>
           call'[k].op \in {"spaces", "link"} /\ call'[k].service = call[k].service
  PROVE  SelectableEverywhere'
  BY DEF SelectableEverywhere, Live

LEMMA SelectableStep ==
  ASSUME TInv, Born, Provided, SelectableEverywhere, Works
  PROVE  SelectableEverywhere'
<1> TypeOK /\ Rooted BY DEF TInv
<1> USE Markers
<1>1. ASSUME Quiet PROVE SelectableEverywhere'
  BY <1>1, StillLinking DEF Quiet, Idle
<1>2. ASSUME NEW k \in Calls, NEW x \in Services, NEW l \in Landlords,
             NEW active \in BOOLEAN, create(k, x, l, active)
      PROVE  SelectableEverywhere'
  <2>1. \A j \in Calls \ {k} : call'[j] = call[j]
    BY <1>2, Created
  <2>2. call[k].op \notin {"spaces", "link"}
    BY <1>2, Created DEF Idle
  <2>3. active => call'[k].op = "spaces" /\ call'[k].service = x
    BY <1>2 DEF create, Begin, TypeOK
  <2>4. \A y \in Services :
          /\ service'[y].state = "live" /\ service'[y].active
          /\ \A j \in Calls : call'[j].op \in {"spaces", "link"} => call'[j].service # y
          => y # x
    BY <1>2, <2>3, Created
  <2> QED BY <1>2, <2>1, <2>2, <2>4, Created DEF SelectableEverywhere, Live
<1>3. ASSUME NEW k \in Calls, NEW x \in Services, update(k, x)
      PROVE  SelectableEverywhere'
  BY <1>3, StillLinking DEF update, Write, Begin, TypeOK, At, Idle, tables, history
<1>4. ASSUME NEW k \in Calls, NEW x \in Services, activate(k, x)
      PROVE  SelectableEverywhere'
  BY <1>4, StillLinking DEF activate, Write, Begin, TypeOK, At, Idle, tables, history
<1>5. ASSUME NEW k \in Calls, NEW x \in Services, deactivate(k, x)
      PROVE  SelectableEverywhere'
  BY <1>5, StillLinking DEF deactivate, Write, Begin, TypeOK, At, Idle, tables, history
<1>6. ASSUME NEW k \in Calls, writeService(k) PROVE SelectableEverywhere'
  <2> DEFINE x == call[k].service
  <2>1. x \in Services /\ call[k].edit.tenant \in Landlords \cup {Same}
    BY <1>6, Remembered DEF writeService, Edit
  <2>2. CASE ~Live(x)
    BY <1>6, <2>2, StillLinking DEF writeService, Finish, Go, TypeOK, At
  <2>3. CASE Live(x)
    <3>1. service'[x] = Patched(service[x], call[k].edit) /\ service[x] \in ServiceRow
      BY <1>6, <2>1, <2>3 DEF writeService, TypeOK
    <3>2. service'[x].state = service[x].state
      BY <2>1, <3>1 DEF Patched, ServiceRow
    <3>3. \A y \in Services \ {x} : service'[y] = service[y]
      BY <1>6, <2>3 DEF writeService, TypeOK
    <3>4. UNCHANGED <<landlord, offered, apart>>
      BY <1>6 DEF writeService
    <3>5. \A j \in Calls \ {k} : call'[j] = call[j]
      BY <1>6, <2>3 DEF writeService, Go, Finish, TypeOK
    <3>6. Links(call[k].edit) => call'[k].op = "spaces" /\ call'[k].service = x
      BY <1>6, <2>3 DEF writeService, Go, TypeOK
    <3>7. ~Links(call[k].edit) => service'[x].active \in {service[x].active, FALSE}
      BY <2>1, <1>6, Remembered, <3>1 DEF writeService, Edit, Links, Patched, ServiceRow
    <3>8. IF service'[x].tenant # service[x].tenant THEN strayed' = strayed \cup (Spaces \X {x})
          ELSE strayed' = strayed
      BY <1>6, <2>3 DEF writeService
    <3>9. CASE Links(call[k].edit)
      BY <1>6, <2>1, <3>3, <3>4, <3>5, <3>6, <3>8, <3>9
      DEF SelectableEverywhere, Live, writeService, At, TypeOK
    <3>10. CASE ~Links(call[k].edit)
      <4>1. service'[x].active => service[x].active
        BY <3>7, <3>10
      <4>2. service'[x].tenant = service[x].tenant \/ \A s \in Spaces : <<s, x>> \in strayed'
        BY <2>1, <3>8
      <4>3. strayed \subseteq strayed'
        BY <3>8
      <4> QED BY <1>6, <2>1, <3>2, <3>3, <3>4, <3>5, <4>1, <4>2, <4>3
          DEF SelectableEverywhere, Live, writeService, At
    <3> QED BY <3>9, <3>10
  <2> QED BY <2>2, <2>3
<1>7. ASSUME NEW k \in Calls, readSpaces(k) PROVE SelectableEverywhere'
  BY <1>7, Remembered
  DEF readSpaces, Go, SelectableEverywhere, Provided, Settled, TypeOK, Rooted, At,
      Idle, tables, history, Live, Links, NoService, Pairs
<1>8. ASSUME NEW k \in Calls, linkSpaces(k) PROVE SelectableEverywhere'
  <2> DEFINE x == call[k].service
             rows == call[k].spaces \X {x}
  <2>1. x \in Services /\ call[k].spaces \subseteq Spaces /\ At(k, "link")
    BY <1>8, Remembered DEF linkSpaces
  <2>2. UNCHANGED <<service, landlord, strayed>> /\ \A j \in Calls \ {k} : call'[j] = call[j]
    BY <1>8 DEF linkSpaces, Finish, Go, TypeOK
  <2>3. \/ offered' = offered \cup rows /\ apart' = apart \ rows
        \/ offered' = offered /\ apart' = apart \cup Pairs(x)
    BY <1>8 DEF linkSpaces
  <2>4. ASSUME NEW s \in Spaces, Live(x), service[x].tenant = landlord[s],
               <<s, x>> \notin strayed \cup apart'
        PROVE  <<s, x>> \in offered'
    <3>1. landlord[s] # None
      BY <2>1, <2>4 DEF Rooted
    <3>2. CASE offered' = offered \cup rows /\ apart' = apart \ rows
      <4>1. s \in call[k].spaces \/ <<s, x>> \in apart \cup offered
        BY <2>1, <2>4, <3>1 DEF Provided, Settled
      <4> QED BY <2>4, <3>2, <4>1
    <3>3. CASE apart' = apart \cup Pairs(x)
      BY <2>1, <2>4, <3>1, <3>3 DEF Pairs
    <3> QED BY <2>3, <3>2, <3>3
  <2>5. \A s \in Spaces, y \in Services \ {x} :
          /\ <<s, y>> \in offered => <<s, y>> \in offered'
          /\ <<s, y>> \in apart => <<s, y>> \in apart'
    BY <2>3
  <2> HIDE DEF x, rows
  <2> QED BY <2>1, <2>2, <2>4, <2>5 DEF SelectableEverywhere, Live, x
<1>9. ASSUME NEW k \in Calls, deleteService(k) PROVE SelectableEverywhere'
  <2>1. CASE ~Live(call[k].service)
    BY <1>9, <2>1, StillLinking DEF deleteService, Finish, Go, TypeOK, At, tables
  <2>2. CASE Live(call[k].service)
    <3> DEFINE x == call[k].service
    <3>1. \A y \in Services \ {x} : service'[y] = service[y]
      BY <1>9, <2>2 DEF deleteService, TypeOK
    <3>2. service'[x].state = "gone"
      BY <1>9, <2>2, Remembered DEF deleteService, TypeOK, NoService
    <3>3. /\ offered' = {o \in offered : o[2] # x} /\ strayed' = {o \in strayed : o[2] # x}
          /\ apart' = {o \in apart : o[2] # x} /\ landlord' = landlord
      BY <1>9, <2>2 DEF deleteService
    <3>4. \A j \in Calls \ {k} : call'[j] = call[j]
      BY <1>9 DEF deleteService, Go, Finish, TypeOK
    <3> QED BY <1>9, <3>1, <3>2, <3>3, <3>4
      DEF SelectableEverywhere, Live, deleteService, At, TypeOK
  <2> QED BY <2>1, <2>2
<1>10. ASSUME NEW k \in Calls, NEW s \in Spaces, NEW floor \in Floors \cup {Same},
            NEW chosen \in Selections \cup {Same}, patchSpace(k, s, floor, chosen)
       PROVE  SelectableEverywhere'
  BY <1>10, StillLinking DEF patchSpace, Begin, TypeOK, At, Idle, tables, history
<1>11. ASSUME NEW k \in Calls, writeSpace(k) PROVE SelectableEverywhere'
  <2>1. call[k].op \notin {"spaces", "link"} /\ \A j \in Calls \ {k} : call'[j] = call[j]
    BY <1>11 DEF writeSpace, Go, Finish, At, TypeOK
  <2>2. UNCHANGED <<service, offered, apart>> /\ strayed \subseteq strayed'
    BY <1>11 DEF writeSpace
  <2>3. call[k].space \in Spaces
    BY <1>11, Remembered DEF writeSpace
  <2>4. \A s \in Spaces, x \in Services : <<s, x>> \notin strayed' => landlord'[s] = landlord[s]
    BY <1>11, <2>3 DEF writeSpace, TypeOK
  <2> QED BY <2>1, <2>2, <2>4 DEF SelectableEverywhere, Live
<1>12. ASSUME NEW k \in Calls, checkServices(k) PROVE SelectableEverywhere'
  BY <1>12, StillLinking DEF checkServices, Go, Finish, TypeOK, At, Idle, tables, history
<1>13. ASSUME NEW k \in Calls, clearLinks(k) PROVE SelectableEverywhere'
  <2> DEFINE s == call[k].space
  <2>1. /\ offered' = {o \in offered : o[1] # s}
        /\ apart' = apart \cup {o \in UNION {Pairs(x) : x \in Services} : o[1] = s}
        /\ UNCHANGED <<service, landlord, strayed>>
    BY <1>13 DEF clearLinks
  <2>2. call[k].op \notin {"spaces", "link"} /\ \A j \in Calls \ {k} : call'[j] = call[j]
    BY <1>13, Cleared DEF clearLinks, At
  <2>3. \A x \in Services : Live(x) /\ service[x].tenant = landlord[s] /\ s \in Spaces =>
          <<s, x>> \in Pairs(x)
    BY DEF Rooted, Pairs
  <2>4. \A x \in Services : Live(x) /\ service[x].tenant = landlord[s] /\ s \in Spaces =>
          <<s, x>> \in apart'
    BY <2>1, <2>3
  <2>5. \A u \in Spaces, x \in Services :
          /\ u # s /\ <<u, x>> \in offered => <<u, x>> \in offered'
          /\ <<u, x>> \in apart => <<u, x>> \in apart'
    BY <2>1
  <2> HIDE DEF s
  <2> QED BY <2>1, <2>2, <2>4, <2>5 DEF SelectableEverywhere, Live
<1>14. ASSUME NEW k \in Calls, chooseLinks(k) PROVE SelectableEverywhere'
  BY <1>14, Remembered
  DEF chooseLinks, Go, Finish, SelectableEverywhere, Provided, Settled, TypeOK,
      Rooted, At, Idle, tables, history, Live, Links, NoService, Pairs
<1>15. ASSUME NEW k \in Calls, Fail(k) PROVE SelectableEverywhere'
  BY <1>15, Remembered
  DEF Fail, Go, Finish, SelectableEverywhere, Provided, Settled, TypeOK, Rooted, At,
      Idle, tables, history, Live, Links, NoService, Pairs
<1>16. ASSUME NEW s \in Spaces, removeSpace(s) PROVE SelectableEverywhere'
  BY <1>16, Remembered
  DEF removeSpace, SelectableEverywhere, Provided, Settled, TypeOK, Rooted, At, Idle,
      tables, history, Live, Links, NoService, Pairs
<1>17. ASSUME NEW k \in Calls, NEW s \in Spaces, NEW l \in Landlords,
             NEW chosen \in Selections \cup {Same}, createSpace(k, s, l, chosen)
      PROVE  SelectableEverywhere'
  <2>1. \A j \in Calls : call[j].op \in {"spaces", "link"} => call'[j] = call[j]
    BY <1>17, Built DEF Idle
  <2> QED BY <1>17, <2>1, Built DEF SelectableEverywhere, Live
<1>18. ASSUME NEW S \in SUBSET Spaces, NEW l \in Landlords, moveFloor(S, l)
      PROVE  SelectableEverywhere'
  BY <1>18, Moved DEF SelectableEverywhere, Live
<1> QED
  BY <1>1, <1>2, <1>3, <1>4, <1>5, <1>6, <1>7, <1>8, <1>9, <1>10, <1>11, <1>12, <1>13,
     <1>14, <1>15, <1>16, <1>17, <1>18, CatalogueCases, Zenon

-----------------------------------------------------------------------------
(* Bookings: what they were quoted, and the deletions under way. *)

\* A step that changes no booking, and brings and takes no service.
Resting ==
  /\ UNCHANGED <<booking, quoted>>
  /\ \A x \in Services : service'[x].state = service[x].state

LEMMA BookingCases ==
  ASSUME TypeOK, Works, NEW G, Resting => G,
         \A k \in Calls, x \in Services, l \in Landlords, active \in BOOLEAN :
           create(k, x, l, active) => G,
         \A k \in Calls :
           deleteService(k) => G,
         \A k \in Calls :
           insertBooking(k) => G,
         \A k \in Calls :
           acceptWrite(k) => G,
         \A k \in Calls, b \in Bookings :
           approve(k, b) => G,
         \A k \in Calls :
           generateInvoiceFromBooking(k) => G,
         \A s \in Spaces :
           removeSpace(s) => G,
         \A b \in Bookings, status \in Status :
           proceed(b, status) => G,
         \A b \in Bookings, x \in ByHand :
           addAddon(b, x) => G,
         \A b \in Bookings, x \in ByHand :
           removeAddon(b, x) => G
  PROVE  G
<1>1. ASSUME NEW k \in Calls, NEW x \in Services, update(k, x) PROVE Resting
  BY <1>1 DEF Resting, update, Write, Begin, tables, history
<1>2. ASSUME NEW k \in Calls, NEW x \in Services, activate(k, x) PROVE Resting
  BY <1>2 DEF Resting, activate, Write, Begin, tables, history
<1>3. ASSUME NEW k \in Calls, NEW x \in Services, deactivate(k, x) PROVE Resting
  BY <1>3 DEF Resting, deactivate, Write, Begin, tables, history
<1>4. ASSUME NEW k \in Calls, NEW x \in Services, remove(k, x) PROVE Resting
  BY <1>4 DEF Resting, remove, Begin, tables, history
<1>5. ASSUME NEW k \in Calls, writeService(k) PROVE Resting
  <2>1. call[k].service \in Services
    BY <1>5, Remembered DEF writeService
  <2>2. Patched(service[call[k].service], call[k].edit).state = service[call[k].service].state
    BY <2>1 DEF Patched, TypeOK, ServiceRow
  <2> QED BY <1>5, <2>1, <2>2 DEF Resting, writeService, TypeOK
<1>6. ASSUME NEW k \in Calls, readSpaces(k) PROVE Resting
  BY <1>6 DEF Resting, readSpaces, Go, tables, history
<1>7. ASSUME NEW k \in Calls, linkSpaces(k) PROVE Resting
  BY <1>7 DEF Resting, linkSpaces, Finish, Go, tables, history
<1>8. ASSUME NEW k \in Calls, NEW s \in Spaces, NEW floor \in Floors \cup {Same},
            NEW chosen \in Selections \cup {Same}, patchSpace(k, s, floor, chosen)
      PROVE  Resting
  BY <1>8 DEF Resting, patchSpace, Begin, tables, history
<1>9. ASSUME NEW k \in Calls, writeSpace(k) PROVE Resting
  BY <1>9 DEF Resting, writeSpace, Go, Finish, tables, history
<1>10. ASSUME NEW k \in Calls, checkServices(k) PROVE Resting
  BY <1>10 DEF Resting, checkServices, Go, Finish, tables, history
<1>11. ASSUME NEW k \in Calls, clearLinks(k) PROVE Resting
  BY <1>11 DEF Resting, clearLinks, Go, Finish, tables, history
<1>12. ASSUME NEW k \in Calls, chooseLinks(k) PROVE Resting
  BY <1>12 DEF Resting, chooseLinks, Go, Finish, tables, history
<1>13. ASSUME NEW k \in Calls, NEW s \in Spaces, NEW chosen \in Baskets, book(k, s, chosen)
       PROVE  Resting
  BY <1>13 DEF Resting, book, Begin, tables, history
<1>14. ASSUME NEW k \in Calls, NEW s \in Spaces, NEW chosen \in Baskets, apply(k, s, chosen)
       PROVE  Resting
  BY <1>14 DEF Resting, apply, Begin, tables, history
<1>15. ASSUME NEW k \in Calls, resolveBookingAddons(k) PROVE Resting
  BY <1>15 DEF Resting, resolveBookingAddons, Go, Finish, tables, history
<1>16. ASSUME NEW k \in Calls, resolveApplicationAddons(k) PROVE Resting
  BY <1>16 DEF Resting, resolveApplicationAddons, Go, Finish, tables, history
<1>17. ASSUME NEW k \in Calls, insertApplication(k) PROVE Resting
  BY <1>17 DEF Resting, insertApplication, Go, Finish, tables, history
<1>18. ASSUME NEW k \in Calls, NEW a \in Applications, accept(k, a) PROVE Resting
  BY <1>18 DEF Resting, accept, Begin, tables, history
<1>19. ASSUME NEW k \in Calls, Fail(k) PROVE Resting
  BY <1>19 DEF Resting, Fail, Go, Finish, tables, history
<1>20. ASSUME NEW k \in Calls, NEW s \in Spaces, NEW l \in Landlords,
             NEW chosen \in Selections \cup {Same}, createSpace(k, s, l, chosen)
      PROVE  Resting
  BY <1>20 DEF Resting, createSpace
<1>21. ASSUME NEW S \in SUBSET Spaces, NEW l \in Landlords, moveFloor(S, l)
      PROVE  Resting
  BY <1>21 DEF Resting, moveFloor
<1> QED
  BY <1>1, <1>2, <1>3, <1>4, <1>5, <1>6, <1>7, <1>8, <1>9, <1>10, <1>11, <1>12, <1>13,
     <1>14, <1>15, <1>16, <1>17, <1>18, <1>19, <1>20, <1>21, WorksCases, Zenon

LEMMA QuotedStep ==
  ASSUME TInv, Quoted, Works
  PROVE  Quoted'
<1> TypeOK /\ Rooted BY DEF TInv
<1>1. ASSUME Resting PROVE Quoted'
  BY <1>1 DEF Resting, Quoted, Live, TypeOK
<1>2. ASSUME NEW k \in Calls, NEW x \in Services, NEW l \in Landlords,
             NEW active \in BOOLEAN, create(k, x, l, active)
      PROVE  Quoted'
  <2>1. \A y \in Services \ {x} : service'[y] = service[y]
    BY <1>2 DEF create, TypeOK
  <2>2. service[x].state = "unborn"
    BY <1>2 DEF create, NoService
  <2>3. \A b \in Bookings : quoted[b] # None => quoted[b] \subseteq Services \ {x}
    BY <2>2 DEF TypeOK, Quoted
  <2> QED BY <1>2, <2>1, <2>3 DEF create, Quoted, Live, history
<1>3. ASSUME NEW k \in Calls, deleteService(k) PROVE Quoted'
  <2>1. CASE ~Live(call[k].service)
    BY <1>3, <2>1 DEF deleteService, Quoted, Live, tables
  <2>2. CASE Live(call[k].service)
    <3> DEFINE x == call[k].service
    <3>1. \A y \in Services \ {x} : service'[y] = service[y]
      BY <1>3, <2>2 DEF deleteService, TypeOK
    <3>2. service'[x].state = "gone"
      BY <1>3, <2>2, Remembered DEF deleteService, TypeOK, NoService
    <3>3. \A b \in Bookings : /\ booking'[b].addons = booking[b].addons \ {x}
                              /\ booking'[b].billed = booking[b].billed
      BY <1>3, <2>2 DEF deleteService, TypeOK, BookingRow
    <3>4. \A b \in Bookings : quoted[b] # None => quoted[b] \subseteq Services
      BY DEF TypeOK
    <3>5. quoted' = quoted
      BY <1>3 DEF deleteService
    <3> QED BY <3>1, <3>2, <3>3, <3>4, <3>5 DEF Quoted, Live
  <2> QED BY <2>1, <2>2
<1>4. ASSUME NEW k \in Calls, insertBooking(k) PROVE Quoted'
  <2>1. ASSUME NEW b \in Bookings, NEW status \in Status,
               \A x \in call[k].chosen : Live(x),
               Insert(b, status, call[k].space, call[k].chosen)
        PROVE  Quoted'
    BY <1>4, <2>1 DEF Insert, insertBooking, Quoted, Live, TypeOK
  <2>2. CASE UNCHANGED <<booking, quoted>>
    BY <1>4, <2>2 DEF insertBooking, Quoted, Live
  <2> QED BY <1>4, <2>1, <2>2, StatusIsKnown DEF insertBooking
<1>5. ASSUME NEW k \in Calls, acceptWrite(k) PROVE Quoted'
  <2>1. ASSUME NEW b \in Bookings, \A x \in call[k].addons : Live(x),
               Insert(b, "PENDING_PHONE_CONFIRMATION",
                      application[call[k].application].space, call[k].addons)
        PROVE  Quoted'
    BY <1>5, <2>1 DEF Insert, acceptWrite, Quoted, Live, TypeOK
  <2>2. CASE UNCHANGED <<booking, quoted>>
    BY <1>5, <2>2 DEF acceptWrite, Quoted, Live
  <2> QED BY <1>5, <2>1, <2>2 DEF acceptWrite
<1>6. ASSUME NEW k \in Calls, NEW b \in Bookings, approve(k, b) PROVE Quoted'
  BY <1>6, Remembered DEF approve, Begin, Quoted, Live, TypeOK, history, BookingRow
<1>7. ASSUME NEW k \in Calls, generateInvoiceFromBooking(k) PROVE Quoted'
  BY <1>7, Remembered
  DEF generateInvoiceFromBooking, Go, Finish, Quoted, Live, TypeOK, history, BookingRow
<1>8. ASSUME NEW s \in Spaces, removeSpace(s) PROVE Quoted'
  <2> QED BY <1>8 DEF removeSpace, Quoted, Live, TypeOK
<1>9. ASSUME NEW b \in Bookings, NEW status \in Status, proceed(b, status) PROVE Quoted'
  BY <1>9, Remembered DEF proceed, Quoted, Live, TypeOK, history, BookingRow
<1>10. ASSUME NEW b \in Bookings, NEW x \in ByHand, addAddon(b, x) PROVE Quoted'
  BY <1>10, Remembered DEF addAddon, Quoted, Live, TypeOK, history, BookingRow
<1>11. ASSUME NEW b \in Bookings, NEW x \in ByHand, removeAddon(b, x) PROVE Quoted'
  BY <1>11, Remembered DEF removeAddon, Quoted, Live, TypeOK, history, BookingRow
<1> QED
  BY <1>1, <1>2, <1>3, <1>4, <1>5, <1>6, <1>7, <1>8, <1>9, <1>10, <1>11, BookingCases,
     Zenon

\* The deletions that a step begins are those of services that nobody uses.
Begins ==
  \A j \in Calls :
    At(j, "delete")' => call'[j] = call[j] \/ (booking' = booking /\ ~Used(call'[j].service))

LEMMA DeletionsBegin ==
  ASSUME TypeOK, Works
  PROVE  Begins
<1>1. ASSUME NEW k \in Calls, NEW x \in Services, NEW l \in Landlords,
             NEW active \in BOOLEAN, create(k, x, l, active)
      PROVE  Begins
  BY <1>1 DEF Begins, create, Begin, TypeOK, At, Idle, tables
<1>2. ASSUME NEW k \in Calls, NEW x \in Services, update(k, x) PROVE Begins
  BY <1>2 DEF Begins, update, Write, Begin, TypeOK, At, Idle, tables
<1>3. ASSUME NEW k \in Calls, NEW x \in Services, activate(k, x) PROVE Begins
  BY <1>3 DEF Begins, activate, Write, Begin, TypeOK, At, Idle, tables
<1>4. ASSUME NEW k \in Calls, NEW x \in Services, deactivate(k, x) PROVE Begins
  BY <1>4 DEF Begins, deactivate, Write, Begin, TypeOK, At, Idle, tables
<1>5. ASSUME NEW k \in Calls, NEW x \in Services, remove(k, x) PROVE Begins
  BY <1>5 DEF Begins, remove, Begin, TypeOK, At, Idle, tables
<1>6. ASSUME NEW k \in Calls, writeService(k) PROVE Begins
  BY <1>6 DEF Begins, writeService, Go, Finish, TypeOK, At, Idle, tables
<1>7. ASSUME NEW k \in Calls, readSpaces(k) PROVE Begins
  BY <1>7 DEF Begins, readSpaces, Go, TypeOK, At, Idle, tables
<1>8. ASSUME NEW k \in Calls, linkSpaces(k) PROVE Begins
  BY <1>8 DEF Begins, linkSpaces, Finish, Go, TypeOK, At, Idle, tables
<1>9. ASSUME NEW k \in Calls, deleteService(k) PROVE Begins
  BY <1>9 DEF Begins, deleteService, Finish, Go, TypeOK, At, Idle, tables
<1>10. ASSUME NEW k \in Calls, NEW s \in Spaces, NEW floor \in Floors \cup {Same},
            NEW chosen \in Selections \cup {Same}, patchSpace(k, s, floor, chosen)
       PROVE  Begins
  BY <1>10 DEF Begins, patchSpace, Begin, TypeOK, At, Idle, tables
<1>11. ASSUME NEW k \in Calls, writeSpace(k) PROVE Begins
  BY <1>11 DEF Begins, writeSpace, Go, Finish, TypeOK, At, Idle, tables
<1>12. ASSUME NEW k \in Calls, checkServices(k) PROVE Begins
  BY <1>12 DEF Begins, checkServices, Go, Finish, TypeOK, At, Idle, tables
<1>13. ASSUME NEW k \in Calls, clearLinks(k) PROVE Begins
  <2>1. \/ call'[k] = Idle
        \/ /\ call'[k].op = "choose" /\ call'[k].space = call[k].space
           /\ call'[k].chosen = call[k].chosen
    BY <1>13, Cleared
  <2>2. \A j \in Calls \ {k} : call'[j] = call[j]
    BY <1>13, Cleared
  <2> QED BY <2>1, <2>2 DEF Begins, At, Idle
<1>14. ASSUME NEW k \in Calls, chooseLinks(k) PROVE Begins
  BY <1>14 DEF Begins, chooseLinks, Go, Finish, TypeOK, At, Idle, tables
<1>15. ASSUME NEW k \in Calls, NEW s \in Spaces, NEW chosen \in Baskets, book(k, s, chosen)
       PROVE  Begins
  BY <1>15 DEF Begins, book, Begin, TypeOK, At, Idle, tables
<1>16. ASSUME NEW k \in Calls, NEW s \in Spaces, NEW chosen \in Baskets, apply(k, s, chosen)
       PROVE  Begins
  BY <1>16 DEF Begins, apply, Begin, TypeOK, At, Idle, tables
<1>17. ASSUME NEW k \in Calls, resolveBookingAddons(k) PROVE Begins
  BY <1>17 DEF Begins, resolveBookingAddons, Go, Finish, TypeOK, At, Idle, tables
<1>18. ASSUME NEW k \in Calls, insertBooking(k) PROVE Begins
  BY <1>18 DEF Begins, insertBooking, Insert, Go, Finish, TypeOK, At, Idle, tables
<1>19. ASSUME NEW k \in Calls, resolveApplicationAddons(k) PROVE Begins
  BY <1>19 DEF Begins, resolveApplicationAddons, Go, Finish, TypeOK, At, Idle, tables
<1>20. ASSUME NEW k \in Calls, insertApplication(k) PROVE Begins
  BY <1>20 DEF Begins, insertApplication, Go, Finish, TypeOK, At, Idle, tables
<1>21. ASSUME NEW k \in Calls, NEW a \in Applications, accept(k, a) PROVE Begins
  BY <1>21 DEF Begins, accept, Begin, TypeOK, At, Idle, tables
<1>22. ASSUME NEW k \in Calls, acceptWrite(k) PROVE Begins
  BY <1>22 DEF Begins, acceptWrite, Insert, Go, Finish, TypeOK, At, Idle, tables
<1>23. ASSUME NEW k \in Calls, NEW b \in Bookings, approve(k, b) PROVE Begins
  BY <1>23 DEF Begins, approve, Begin, TypeOK, At, Idle, tables
<1>24. ASSUME NEW k \in Calls, generateInvoiceFromBooking(k) PROVE Begins
  BY <1>24 DEF Begins, generateInvoiceFromBooking, Go, Finish, TypeOK, At, Idle, tables
<1>25. ASSUME NEW k \in Calls, Fail(k) PROVE Begins
  BY <1>25 DEF Begins, Fail, Go, Finish, TypeOK, At, Idle, tables
<1>26. ASSUME NEW s \in Spaces, removeSpace(s) PROVE Begins
  BY <1>26 DEF Begins, removeSpace, TypeOK, At, Idle, tables
<1>27. ASSUME NEW b \in Bookings, NEW status \in Status, proceed(b, status) PROVE Begins
  BY <1>27 DEF Begins, proceed, TypeOK, At, Idle, tables
<1>28. ASSUME NEW b \in Bookings, NEW x \in ByHand, addAddon(b, x) PROVE Begins
  BY <1>28 DEF Begins, addAddon, TypeOK, At, Idle, tables
<1>29. ASSUME NEW b \in Bookings, NEW x \in ByHand, removeAddon(b, x) PROVE Begins
  BY <1>29 DEF Begins, removeAddon, TypeOK, At, Idle, tables
<1>30. ASSUME NEW k \in Calls, NEW s \in Spaces, NEW l \in Landlords,
             NEW chosen \in Selections \cup {Same}, createSpace(k, s, l, chosen)
      PROVE  Begins
  BY <1>30, Built DEF Begins, At
<1>31. ASSUME NEW S \in SUBSET Spaces, NEW l \in Landlords, moveFloor(S, l)
      PROVE  Begins
  BY <1>31 DEF Begins, moveFloor, At
<1> QED
  BY <1>1, <1>2, <1>3, <1>4, <1>5, <1>6, <1>7, <1>8, <1>9, <1>10, <1>11, <1>12, <1>13,
     <1>14, <1>15, <1>16, <1>17, <1>18, <1>19, <1>20, <1>21, <1>22, <1>23, <1>24,
     <1>25, <1>26, <1>27, <1>28, <1>29, <1>30, <1>31, WorksCases, Zenon

LEMMA NoticedStep ==
  ASSUME TypeOK, Noticed, Works, Records
  PROVE  Noticed'
<1> SUFFICES ASSUME NEW k \in Calls, NEW b \in Bookings,
                    At(k, "delete")', InUse(b, call[k].service)'
             PROVE  <<k, b>> \in late'
  BY DEF Noticed
<1>1. call'[k] = call[k] \/ (booking' = booking /\ ~Used(call'[k].service))
  BY DeletionsBegin DEF Begins
<1>2. CASE call'[k] = call[k]
  <2>1. At(k, "delete")
    BY <1>2 DEF At
  <2>2. <<k, b>> \in late \/ ~InUse(b, call[k].service)
    BY <2>1 DEF Noticed
  <2>3. Late(k, b)
    BY <1>2, <2>1, <2>2 DEF Late
  <2> QED BY <2>3 DEF Records
<1>3. CASE booking' = booking /\ ~Used(call'[k].service)
  BY <1>3 DEF Used, InUse, Carrying, Protected, ActiveNow
<1> QED BY <1>1, <1>2, <1>3

\* A step takes no service from a booking in use before a deletion noticed it.
Keeps ==
  \A b \in Bookings, x \in Services :
    InUse(b, x) /\ service'[x].state = "gone" =>
      \E k \in Calls : At(k, "delete") /\ call[k].service = x /\ <<k, b>> \in late

\* A service that goes is one that a deletion under way is about.
LEMMA Going ==
  ASSUME TypeOK, Works, NEW x \in Services, Live(x), service'[x].state = "gone"
  PROVE  \E k \in Calls : At(k, "delete") /\ call[k].service = x
<1> DEFINE G == \E k \in Calls : At(k, "delete") /\ call[k].service = x
<1>1. Resting => G
  BY DEF Resting, Live
<1>2. \A k \in Calls : deleteService(k) => G
  BY DEF deleteService, TypeOK, tables, Live
<1>3. \A k \in Calls, y \in Services, l \in Landlords, active \in BOOLEAN :
        create(k, y, l, active) => G
  BY DEF create, TypeOK, Live
<1>4. \A k \in Calls : insertBooking(k) => G
  BY DEF insertBooking, Live
<1>5. \A k \in Calls : acceptWrite(k) => G
  BY DEF acceptWrite, Live
<1>6. \A k \in Calls, b \in Bookings : approve(k, b) => G
  BY DEF approve, Live
<1>7. \A k \in Calls : generateInvoiceFromBooking(k) => G
  BY DEF generateInvoiceFromBooking, Live
<1>8. \A s \in Spaces : removeSpace(s) => G
  BY DEF removeSpace, Live
<1>9. \A b \in Bookings, status \in Status : proceed(b, status) => G
  BY DEF proceed, Live
<1>10. \A b \in Bookings, y \in ByHand : addAddon(b, y) => G
  BY DEF addAddon, Live
<1>11. \A b \in Bookings, y \in ByHand : removeAddon(b, y) => G
  BY DEF removeAddon, Live
<1> HIDE DEF G
<1>12. G
  BY <1>1, <1>2, <1>3, <1>4, <1>5, <1>6, <1>7, <1>8, <1>9, <1>10, <1>11, BookingCases,
     Zenon
<1> QED BY <1>12 DEF G

\* What a step bills is what was quoted, less what is gone.
Bills ==
  \A b \in Bookings : quoted[b] # None /\ booking'[b].billed # None =>
    booking'[b].billed = {x \in quoted[b] : Live(x)}

LEMMA WhatIsBilled ==
  ASSUME TInv, Quoted, Works
  PROVE  Bills
<1> TypeOK /\ Rooted BY DEF TInv
<1>1. ASSUME Resting PROVE Bills
  BY <1>1 DEF Resting, Bills, Quoted
<1>2. ASSUME NEW k \in Calls, NEW x \in Services, NEW l \in Landlords,
             NEW active \in BOOLEAN, create(k, x, l, active)
      PROVE  Bills
  BY <1>2, Remembered DEF create, Begin, Bills, Quoted, TypeOK, BookingRow
<1>3. ASSUME NEW k \in Calls, deleteService(k) PROVE Bills
  <2>1. \A b \in Bookings : booking'[b].billed = booking[b].billed
    BY <1>3 DEF deleteService, TypeOK, BookingRow, tables
  <2> QED BY <2>1 DEF Bills, Quoted
<1>4. ASSUME NEW k \in Calls, insertBooking(k) PROVE Bills
  <2>1. ASSUME NEW c \in Bookings, NEW status \in Status,
               Insert(c, status, call[k].space, call[k].chosen)
        PROVE  \A b \in Bookings : booking'[b].billed \in {booking[b].billed, None}
    BY <2>1 DEF Insert, TypeOK
  <2>2. \A b \in Bookings : booking'[b].billed \in {booking[b].billed, None}
    BY <1>4, <2>1, StatusIsKnown DEF insertBooking
  <2> QED BY <2>2 DEF Bills, Quoted
<1>5. ASSUME NEW k \in Calls, acceptWrite(k) PROVE Bills
  <2>1. ASSUME NEW c \in Bookings, NEW s, Insert(c, "PENDING_PHONE_CONFIRMATION", s, call[k].addons)
        PROVE  \A b \in Bookings : booking'[b].billed \in {booking[b].billed, None}
    BY <2>1 DEF Insert, TypeOK
  <2>2. \A b \in Bookings : booking'[b].billed \in {booking[b].billed, None}
    BY <1>5, <2>1 DEF acceptWrite
  <2> QED BY <2>2 DEF Bills, Quoted
<1>6. ASSUME NEW k \in Calls, NEW b \in Bookings, approve(k, b) PROVE Bills
  BY <1>6, Remembered DEF approve, Begin, Bills, Quoted, TypeOK, BookingRow
<1>7. ASSUME NEW k \in Calls, generateInvoiceFromBooking(k) PROVE Bills
  <2> DEFINE b == call[k].booking
  <2>1. b \in Bookings
    BY <1>7, Remembered DEF generateInvoiceFromBooking
  <2>2. CASE booking[b].status \in Status
    <3>1. booking'[b].billed = booking[b].addons
      BY <1>7, <2>1, <2>2 DEF generateInvoiceFromBooking, Lines, TypeOK, BookingRow
    <3>2. \A c \in Bookings \ {b} : booking'[c] = booking[c]
      BY <1>7, <2>2 DEF generateInvoiceFromBooking, TypeOK
    <3> QED BY <2>1, <3>1, <3>2 DEF Bills, Quoted
  <2>3. CASE booking[b].status \notin Status
    BY <1>7, <2>3 DEF generateInvoiceFromBooking, Bills, Quoted
  <2> QED BY <2>2, <2>3
<1>8. ASSUME NEW s \in Spaces, removeSpace(s) PROVE Bills
  <2>1. \A b \in Bookings : booking'[b].billed \in {booking[b].billed, None}
    BY <1>8 DEF removeSpace, Deleted, NoBooking
  <2> QED BY <2>1 DEF Bills, Quoted
<1>9. ASSUME NEW b \in Bookings, NEW status \in Status, proceed(b, status) PROVE Bills
  BY <1>9, Remembered DEF proceed, Bills, Quoted, TypeOK, BookingRow
<1>10. ASSUME NEW b \in Bookings, NEW x \in ByHand, addAddon(b, x) PROVE Bills
  BY <1>10, Remembered DEF addAddon, Bills, Quoted, TypeOK, BookingRow
<1>11. ASSUME NEW b \in Bookings, NEW x \in ByHand, removeAddon(b, x) PROVE Bills
  BY <1>11, Remembered DEF removeAddon, Bills, Quoted, TypeOK, BookingRow
<1> QED
  BY <1>1, <1>2, <1>3, <1>4, <1>5, <1>6, <1>7, <1>8, <1>9, <1>10, <1>11, BookingCases,
     Zenon

-----------------------------------------------------------------------------
(* The theorems. *)

IInv ==
  TInv /\ Born /\ Provided /\ Placed /\ OffersOwn /\ SelectableEverywhere /\ Quoted /\ Noticed

LEMMA Initially ==
  ASSUME Init
  PROVE  IInv
<1>1. /\ \A x \in Services : service[x] = NoService
      /\ \A a \in Applications : application[a] = NoApplication
      /\ \A b \in Bookings : booking[b] = NoBooking /\ quoted[b] = None
      /\ \A k \in Calls : call[k] = Idle
  BY DEF Init
<1>2. NoService \in ServiceRow /\ NoApplication \in ApplicationRow /\ NoBooking \in BookingRow
  BY DEF NoService, ServiceRow, NoApplication, ApplicationRow, NoBooking, BookingRow
<1>3. TypeOK
  BY <1>2 DEF Init, TypeOK
<1>4. \A x \in Services : ~Live(x)
  BY <1>1 DEF Live, NoService
<1>5. \A b \in Bookings : booking[b].addons = {}
  BY <1>1 DEF NoBooking
<1>6. Rooted /\ OffersOwn
  BY <1>4, <1>5 DEF Rooted, Init, OffersOwn
<1>7. Born /\ Provided /\ Placed /\ Noticed
  BY <1>1 DEF Born, Provided, Placed, Noticed, At, Idle
<1>8. SelectableEverywhere /\ Quoted
  BY <1>1, <1>4 DEF SelectableEverywhere, Quoted
<1> QED BY <1>3, <1>6, <1>7, <1>8 DEF IInv, TInv

LEMMA Stutters ==
  ASSUME IInv, UNCHANGED vars
  PROVE  IInv'
<1>1. TInv'
  BY DEF IInv, TInv, TypeOK, Rooted, Live, vars, tables, history
<1>2. Born' /\ Provided' /\ Placed'
  BY DEF IInv, Born, Provided, Placed, Settled, Live, At, vars, tables, history
<1>3. OffersOwn' /\ SelectableEverywhere'
  BY DEF IInv, OffersOwn, SelectableEverywhere, Live, vars, tables, history
<1>4. Quoted' /\ Noticed'
  BY DEF IInv, Quoted, Noticed, InUse, Carrying, Live, At, vars, tables, history
<1> QED BY <1>1, <1>2, <1>3, <1>4 DEF IInv

LEMMA IInvStep ==
  ASSUME IInv, [Next]_vars
  PROVE  IInv'
<1>1. CASE Next
  <2>1. Works /\ Records
    BY <1>1 DEF Next
  <2>2. TInv /\ TypeOK
    BY DEF IInv, TInv
  <2>3. TInv'
    BY <2>1, <2>2, TypeStep, RootedStep DEF TInv
  <2>4. Born' /\ Provided' /\ Placed'
    BY <2>1, BornStep, ProvidedStep, PlacedStep DEF IInv
  <2>5. OffersOwn' /\ SelectableEverywhere'
    BY <2>1, OffersStep, SelectableStep DEF IInv
  <2>6. Quoted' /\ Noticed'
    BY <2>1, <2>2, QuotedStep, NoticedStep DEF IInv
  <2> QED BY <2>3, <2>4, <2>5, <2>6 DEF IInv
<1>2. CASE UNCHANGED vars
  BY <1>2, Stutters
<1> QED BY <1>1, <1>2

LEMMA AlwaysIInv == Spec => []IInv
BY Initially, IInvStep, PTL DEF Spec

\* Every table, every history and the memory of every call hold what they are
\* declared to.
THEOREM TypeCorrect == Spec => []TypeOK
<1>1. IInv => TypeOK
  BY DEF IInv, TInv
<1> QED BY <1>1, AlwaysIInv, PTL

\* A space offers what is in its landlord's catalogue, also when it was linked
\* by a call that had read the spaces of a landlord, or validated a selection,
\* some awaits ago; a PATCH (of a floor, too) that hands over one of the two is the
\* exception.
THEOREM OffersOwnServices == Spec => []OffersOwn
<1>1. IInv => OffersOwn
  BY DEF IInv
<1> QED BY <1>1, AlwaysIInv, PTL

\* An active service is linked to every space that was its landlord's when it was
\* last switched on, and to each later one for which it was chosen, unless a PATCH
\* of the space took it off, the linking failed or is under way, or one of the two
\* changed hands.
THEOREM ActiveIsSelectable == Spec => []SelectableEverywhere
<1>1. IInv => SelectableEverywhere
  BY DEF IInv
<1> QED BY <1>1, AlwaysIInv, PTL

\* An invoice lists what the booking was quoted, less what left the catalogue,
\* even when an application carried it through the awaits of its acceptance.
THEOREM InvoicesMatchQuotes == Spec => QuotedIsBilled
<1>1. ASSUME IInv, [Next]_vars
      PROVE  [Bills]_vars
  BY <1>1, WhatIsBilled DEF IInv, Next
<1>2. [][Bills]_vars => QuotedIsBilled
  BY DEF Bills, QuotedIsBilled
<1> QED BY <1>1, <1>2, AlwaysIInv, PTL DEF Spec

\* A service is deleted under a CONFIRMED or CHECKED_IN booking that has it only if
\* the booking was confirmed, or given the service, after the deletion had looked.
\* (Of other bookings, and of applications, it says nothing: they lose it.)
THEOREM ActiveUsageStays == Spec => ActiveUsageKept
<1>1. ASSUME IInv, [Next]_vars
      PROVE  [Keeps]_vars
  <2>1. TypeOK /\ Rooted /\ Noticed
    BY <1>1 DEF IInv, TInv
  <2>2. CASE Next
    <3>1. ASSUME NEW b \in Bookings, NEW x \in Services, InUse(b, x), service'[x].state = "gone"
          PROVE  \E k \in Calls : At(k, "delete") /\ call[k].service = x /\ <<k, b>> \in late
      <4>1. Live(x)
        BY <2>1, <3>1 DEF InUse, Carrying, Rooted
      <4>2. PICK k \in Calls : At(k, "delete") /\ call[k].service = x
        BY <2>1, <2>2, <3>1, <4>1, Going DEF Next
      <4>3. <<k, b>> \in late
        BY <2>1, <3>1, <4>2 DEF Noticed
      <4> QED BY <4>2, <4>3
    <3> QED BY <3>1 DEF Keeps
  <2> QED BY <2>2, <1>1
<1>2. [][Keeps]_vars => ActiveUsageKept
  BY DEF Keeps, ActiveUsageKept
<1> QED BY <1>1, <1>2, AlwaysIInv, PTL DEF Spec

==============================================================================
