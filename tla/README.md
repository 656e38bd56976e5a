# LeaseManager in TLA+

TLA+ models, TLC checks and TLAPS proofs for LeaseManager: the NestJS / Prisma
/ PostgreSQL back end under `backend/` that rents out spaces (publication of
spaces, applications and bookings, invoices and payments, lease contracts,
maintenance, marketplaces, accounts), and the part of the React front end under
`frontend/` that keeps a tab's session.

## 1. Inventory of the system

One Node process serves the API. A handler is an `async` method of a service:
it reads rows through Prisma, tests them, and writes. Every `await` lets other
requests run, and nothing but `prisma.$transaction`, unique columns and
conditional `updateMany` protects what a handler read. There is no optimistic
version column. A request can be lost at any await (database, mail, upload or
process failure) and is not resumed.

| Part (`backend/src/...`) | State it keeps | Operations that change it | Talks to | What is hard | What makes it correct |
|---|---|---|---|---|---|
| `booking` | `bookings`, `booking_documents` | create, update, approve, reject, cancel, check-in/out, delete, phone confirmed/unreachable, documents pending, add/remove document, finalize | billing (invoice), space status, upload, mail | check-then-write across awaits; multi-step writes | periods do not overlap; status follows the workflow; invoiced once; at most 5 documents |
| `booking-application` | `booking_applications` | apply (guest, user), accept, refuse | creates bookings, users, tenants; space status; billing | two reviews at once; a transaction followed by an invoice | an application names its own booking; a booking of the reception workflow has its application |
| `space` | `spaces` | create, update, updateStatus, delete | written by booking, applications, webhook too | several writers of one status | a space that is held is not open to applications |
| `billing` | `invoices`, `invoice_lines`, `payments` | create/update/delete/send/cancel invoice, add/remove line, create/confirm/refund payment, reminders | booking, mail | sum-then-write of the invoice status | an invoice says it is paid because payments covered it; one submission at a time; a refund is final |
| `lease-contract` | `lease_contracts` | generate, create, update, sign, terminate, renew, delete, reminders | booking, e-mail sequences | status written an await after it was tested; onboarding at the first signature, by a count, fired and forgotten | an ended contract does not come back by itself; whoever has a contract in force has his onboarding |
| `promotion-code` | `promotion_codes` | create, update, delete, validate, apply | none | the last remaining use | never more uses than `max_uses` |
| `auth`, `user` | `users`, `user_sessions`, reset tokens | login, register, refresh (rotation), logout, revoke one or all others, reset of the password | front end, mail | a refresh finds the session and rotates it in two awaits; a token used twice at once | a revoked session yields no token; a token sets one password |
| `maintenance` | `maintenance_tickets` | create, assign, accept, start, resolve, close, cancel | notification | two actors on one ticket | ticket states in order, one technician |
| `marketplace` | two listing ids of a space; the listings themselves are remote | sync every 15 minutes (push, take down), webhook inquiry | both marketplaces, booking, space | two remote calls and one update; calls refused or lost; a calendar that is old when it is pushed; redelivery | ids and listings agree; a booked hour is withdrawn; an inquiry books once |
| `forms` (tenant applications) | `tenant_applications` | inquiry, form webhook, approve, reject | creates tenants and users; reset tokens, mail | delivered twice; reviews at once; an address that registers meanwhile; mail after the commit | one organisation for one inquiry; decision and organisation agree; whoever is approved can come in |
| `email-sequence`, `tasks` | `tenant_onboarding_sequences` | start at the first signature, daily drip | brevo, mail | a job that stops halfway; a mail that is refused | each mail once, and each in the end |
| `notification`, `websocket` | `notifications` | create, mark read | gateway | two flags for one fact | read is read everywhere |
| `addon-service` | `add_on_services`; the add-ons of spaces, applications and bookings | create, update, (de)activate, delete; a space's choice; add/remove on a booking | space, booking, applications, billing | links made after the row; usage looked up before a deletion that cascades; add-ons read before the transaction that copies them | a space offers its landlord's services, all that are active; the invoice lists what was quoted |
| `tenant`, `building`, `floor` | their tables | CRUD | cascades | deletion under a request | no dangling row |
| `report`, `analytics`, `search`, `export`, `ai` | none or derived | reads | all tables | none | not state machines |
| `upload`, `mail`, `brevo`, `crisp` | remote services | calls out | | best effort | not state machines |
| `common`, `security`, `audit`, `logging`, `monitoring`, `performance`, `config`, `cache` | caches, counters, logs | interceptors, guards | all | staleness | |
| `frontend` | a tab's tokens in `sessionStorage` and in the auth store | login, logout, calls and their interceptors, one refresh for many refused calls, restoring the session at load | `auth` | many calls refused at once; a reload or logout during a refresh | the tab holds the token its session holds; nobody waits for ever |

How the parts interact: a booking is created by staff (`POST /bookings`), by the
acceptance of an application, or by a marketplace inquiry; approval and
acceptance generate an invoice through `billing` and write the status of the
space; finalization takes the space off the public map. Payments are recorded
by staff or submitted by renters and confirmed by staff, and drive the status
of the invoice. The first signature of a lease contract starts the e-mail
sequence that the daily job continues. An urgent maintenance ticket blocks its
space. Nothing calls back: every effect is an `await` in the handler of one
request, or is fired and forgotten (mails, notifications).

## 2. Plan

The order follows the value of what could go wrong: first the booking, whose
life crosses the most handlers, then what is counted under concurrency (uses of
a code, money), then the smaller state machines.

| Module | State | Composes | Status |
|---|---|---|---|
| `BookingStatuses`, `BookingLifecycle`, `BookingStages` | one status, or the statuses a booking has had | none | abstract specifications |
| `BookingWorkflow` | bookings, documents, applications, spaces, requests | implements both of the above | checked, proved but for liveness |
| `PromotionCode` | codes, requests | | checked, proved |
| `Billing` | invoices, lines, payments, requests | | checked, proved |
| `Maintenance` | tickets, spaces blocked, accounts, requests | | checked, proved |
| `Sessions` | session rows, and a tab's tokens, calls and refreshes | both sides of the protocol | checked, proved |
| `LeaseContracts` | contracts, the onboarding row, the daily job, its mails | the signature starts the sequence, the job continues it | checked, proved but for liveness |
| `TenantApplications` | applications, organisations, accounts, reset tokens, calls | the form, the review, the account | checked, proved |
| `Marketplace` | spaces, bookings, listings, the job, deliveries | both directions | checked, proved but for liveness |
| `AddOns` | services, spaces, and the add-ons of spaces, applications and bookings, calls | the catalogue, the space, the booking and the invoice | checked, proved |

What is left of the plan, all of it models: the overdue
reminders with their tiers, the caches and rate limits, and a job of the
marketplace that meets its successor.

## 3. How the code is modelled

Every module has the same shape. The tables are functions from identifiers to
rows; an identifier is used once, and a row that does not exist yet or was
deleted has a status of its own. `request` holds the handlers in flight: for
each slot, what the handler remembers between two awaits. A handler is one
action up to its first write (it reads, tests and enters `request`) and one
action for each later write; `prisma.$transaction` is one action; a handler
that reads only to answer 404 and then writes by identifier still has two
steps where the row it read matters, and one where it does not. `Fail` is the
loss of a request at any await: a rejected promise, a failed upload, a process
that stops. What it wrote stays written, what it remembered is gone. A row
deleted under a request makes its update throw, which ends the request.

Reads that only format an answer, mails, notifications and logs are left out.
Which organisation and role may call a handler is left out, except where two
actors of one organisation can act on one row (technicians, renters, staff).

Jobs of the scheduler are handlers that nobody calls. Where a remote service
takes part, a call to it is one action that succeeds, one that is refused and
one whose answer is lost after the service may have acted. The tab in
`Sessions` is modelled the same way: what runs between two awaits of the client
is one action.

History variables record what happened and are read by properties only; their
names are listed with each module. A property that says *unless two requests
overlapped* refers to one of them, so that it says exactly which interleaving
the code is open to, and excludes every other cause.

| Module | Code | Correspondence |
|---|---|---|
| `BookingWorkflow` | `booking.service.ts`, `booking-application.service.ts`, `generateInvoiceFromBooking` of `billing.service.ts`, `space.service.ts` `update` | `Approve` / `ApproveWrite` / `ReadInvoice` / `GenerateInvoice` / `LinkInvoice` are the awaits of `approve` and `issueBookingInvoice`; `Accept` / `AcceptWrite` then the same three are `accept`; the rest are a test and a write. `held` and `invoices` are history variables. |
| `BookingStages`, `BookingLifecycle` | the table of statuses and handlers | abstract: the stages a booking has been through; the status itself as long as handlers do not overlap on a booking: one step forward, or cancelled. The code also cancels a `COMPLETED` booking, which `docs/WORKFLOW.md:22` calls terminal: that is the step `CancelCompleted`, so the abstract lifecycle is the code's and not the document's. |
| `PromotionCode` | `promotion-code.service.ts` | `Apply` validates, `ApplyConsume` is the conditional `updateMany`, `Refused` its `count === 0`; `Update` validates the merged row, `UpdateWrite` writes the fields given. The window of validity is `early`, `open`, `over`, and `Pass` is the clock. `PromoInit`, `PromoNext`, `PromoSpec` and the like have names of their own, so that `Selling_proofs` can extend this module and `Marketplace`. `limits` and `redeemed` are history. |
| `Billing` | `billing.service.ts` | one action per await of invoices, lines and payments; `updateInvoiceStatus` is a read that computes the status from the sum of completed payments (`SettledStatus`) and a write. Amounts are small integers; numbers, dates and tax are abstracted to a charge, a total and whether the due date has passed. POST creates an invoice with any status (`create-invoice.dto.ts:72-75`). `stale` and `disturbed` are history: requests that were overtaken, and invoices that say `PAID` and are not covered, or the reverse, since a step that no settlement followed (`Disturbs`). |
| `Maintenance` | `maintenance.service.ts`, `remove` of `user.service.ts` | `accept` of an open ticket calls `assign`, which reads the ticket again (`acceptAssign`); every other handler is a test and a write by identifier. Deleting an account empties `assigned_to` (`onDelete: SetNull`). PATCH of the ticket or of its status may write any status. `stale` and `forced` are history; a ticket is forced when a PATCH made it `RESOLVED` or `CLOSED` and nobody has resolved it since. |
| `Sessions` | `auth.service.ts` (login, refresh, logout, revocations), `frontend/src/api/client.ts`, `frontend/src/store/auth*.ts` | The server: `findSession` verifies the token and then looks for its row, `rotateUserSession` is the conditional rotation; `serveLogout` verifies the token too, deletes the row, and answers true as well when it cannot verify it or the deletion fails. Access tokens are accepted for `Life` seconds, refresh tokens for `RefreshLife`. The tab: `Send`, `Rejected` (starts the refresh, or awaits the one in flight: the promise `refreshInFlight`), `Refreshed`, `RefreshRefused`, `RefreshLost`; `restoreSession` as `Reload`, `Confirmed`, `Restored`, `RestoreRefused`. Tokens signed twice in one second are one string, hence the clock `now`. `left` and `crossed` are history. |
| `LeaseContracts` | `lease-contract.service.ts`, `email-sequence.service.ts` | `sign` / `signWrite` / `signCount`, then `startFind` / `startCreate` / `startMail` / `startFlag` are the awaits of a signature and of the onboarding it fires, which a mailer without keys (`Configured = FALSE`) skips; the address it asks for is a required column; `Morning` is the query of `processOnboardingDrip`, `jobMail` / `jobRefused` / `jobFlag` its loop. Time is counted in runs of the job. `mailed`, `cut`, `raced` and `stale` are history. |
| `TenantApplications` | `forms/*.ts`, `requestPasswordReset` and `resetPassword` of `auth.service.ts` | `handlePayload`, `lookup`, `slugLoop`, `createTenant`, `linkApplication` are the awaits of the webhook; `approve` / `findExisting` / `approveWrite` / `invite` those of an approval, whose transaction is one step. A slug is the company's name and a number. `managed`, `cut`, `crossed`, `doubled`, `invited`, `uses` and `stale` are history. |
| `Marketplace` | `marketplace-sync`, `marketplace-adapters` and `marketplace-webhook.service.ts` | `Start` and `Unlist` are the two queries of a run, `buildAvailabilityCalendar` and `Unpublish` take up one space, `upsert` / `delete` (and `...Refused`, `...Lost`) call one marketplace, `upsertUnread` is an answer that is ok and holds no id that can be read, `Store` and `Clear` are the updates. `Receive`, `resolveSpace`, `FindConflict`, `Create` are the awaits of an inquiry. Of a booking only the period and whether it holds it remain (`Book`, `Settle`, `Refuse`, `RemoveBooking`: whatever the workflow does; `Refuse` is a rejection or a phone refusal, which writes over the notes that name the inquiry). `adrift`, `booked` and `excused` are history. |
| `AddOns` | `addon-service.service.ts`; `syncAddons`, `create`, `update`, `remove` of `space.service.ts`; `update` of `floor.service.ts`; the add-ons of `booking.service.ts`, `booking-application.service.ts` and `generateInvoiceFromBooking` | `writeService` / `readSpaces` / `linkSpaces` are the awaits of create, update and activate; `remove` looks, `deleteService` deletes with its cascade; `writeSpace` / `checkServices` / `clearLinks` / `chooseLinks` those of a space's PATCH, and the last two of `createSpace`; `moveFloor` is the PATCH that gives a floor to another building; `resolveBookingAddons` / `insertBooking`, `resolveApplicationAddons` / `insertApplication`, `accept` / `acceptWrite`, then the invoice. Of a space only its landlord is kept, of a booking its status (`proceed`: whatever the workflow does). `strayed`, `apart`, `quoted` and `late` are history. |

## 4. What the runs check

All configurations are small on purpose: an interleaving problem of this code
needs two requests on one row, or three where two of them prepare what the
third one meets. `CHECK_DEADLOCK FALSE` everywhere: identifiers are used once,
so every instance comes to an end of its rows, and clients are not obliged to
call.

| Run | Instance | Shows |
|---|---|---|
| `booking_serial` | 1 slot, 2 bookings, 1 application, two periods that touch, all endpoints, failing awaits in six of them (`Fragile`), staff write `PENDING_APPROVAL` by PATCH and take spaces off the map | `LifecycleFollowed` and `StagesFollowed`: the code implements `BookingLifecycle` and `BookingStages`; `ActiveIsOffTheMap` (managers publish nothing here: they may, and then it fails by design); `DocumentsBounded`; `CreatedOnFreeSlot` and `InvoicedOnce` survive reopening. `MaxInvoices = 2` bounds how often a booking is reopened; one invoice too many is within it. One slot: requests do not overlap here. What overlapping requests do to the stages, the map and the documents is proved, for any number of them; for the lifecycle, free slots and invoices it is proved which overlaps have to be kept apart. |
| `reception_races` | 2 slots, 2 bookings, 2 applications, no failing await, fairness | `ApplicationsAgree` under overlapping accepts, refusals and deletions; `HeldUntilReleased`: a space held by the reception workflow is open again only because of a phone refusal (of any booking of that space: the code does not look which); `BilledEventually`: a confirmed or accepted booking gets its invoice. |
| `promotions` | 3 slots, 1 code, one of the slots sends PATCHes, limits 1, 2 and none | `UsesWithinLimits`, `EveryUseCounted`, `DiscountSane`. `UseBound = 3` exceeds every limit by one. |
| `billing_races` | 2 slots, 1 invoice, 2 payments of 1, a total of 2, 1 line of 1; POST with any status, PATCH sends the whole form as the client does | `PaidAgrees`, `PendingBounded`, `FreshKeepsPaid`. Two payments of half the total make every status reachable, and a line added to an invoice without lines makes it cheaper than what was paid. |
| `maintenance_races` | 3 slots, 1 ticket, 2 technicians; PATCH of the status writes `IN_PROGRESS`, `RESOLVED` or `CLOSED`, PATCH of the ticket reopens, hands over, resolves or closes it | `HolderRespected`, `EndedStaysEnded`, `ClosedWasResolved`. Three slots: two that race and one that changes the ticket between them. |
| `sessions` | 2 sessions, 2 calls, 2 refreshes, access tokens of one second and refresh tokens of two, a clock that goes on after both, lost answers, reloads, logouts that fail | `KeepsItsSession`, `LogoutEnds`, `WaitersAreHeard`, `EndsOnlyAsTold`. Two calls are refused at once; two sessions so that a login follows a lost one. `Onward = FALSE`: once two activities overlapped nothing new begins, since the properties then excuse the rest. |
| `leases` | 2 contracts of one tenant, 2 slots, the job, a mailer that is configured, one failure of the process | `SignedMeansOnboarded`, `MailedOnce`, `EndedStaysEnded`, `DripCompletes`. `LastDay` is one day past the one mail that is due, so that it is sent late as well. |
| `applications` | 2 inquiries, 3 forms of one address (two of them answer one inquiry), 2 calls, 1 reset token, 2 organisations | `DecisionsAgree`, `NoOrphans`, `ApprovedCanEnter`, `TokenUsedOnce`, `DecidedOnce`. One address, so that approvals and a registration meet on one account. |
| `marketplace` | 1 space, 2 marketplaces with 2 ids each, 2 bookings, one inquiry delivered at will in 2 slots, 1 failure | `NoStrayListing`, `StoredIsUp`, `InquiryBookedOnce`, `CalendarCatchesUp`, `DelistedComesDown`. Two ids, so that a space is listed again after it came down; the failure can hit any call, or the process, or be an answer without an id. Two bookings, so that one inquiry can be booked twice. |
| `addons` | 2 services, 1 space, 2 landlords, 1 application, 1 booking, 2 calls; a PATCH publishes a service or gives it away, moves a space or its floor, or chooses at most one service for it; the space is created, deleted and created again | `OffersOwn`, `SelectableEverywhere`, `QuotedIsBilled`, `ActiveUsageKept`. Two services, so that a space that has links can miss one; two landlords, so that something can belong to the other. Nothing changes hands where somebody books (`NobodyBooks`, `NothingMoves`): no property relates the two. |

Two runs show that the code does not do what the repository says of it; each
checks one property and is expected to be violated.

| Run | Said | Done |
|---|---|---|
| `double_booking` | `booking.service.ts:210`, availability is checked before creation | two creations check, both insert |
| `session_lost` | `frontend/src/api/client.ts:45`, one refresh at a time: parallel 401s must not invalidate the session | a page loaded with an expired access token refreshes twice, once in `restoreSession` and once for its first call, and keeps a token that its session no longer has |

`TypeOK` states the types of each module. It is a theorem for all of them; the
runs are kept for properties that can break otherwise.

Bounds, all by name: `MaxInvoices` (how often PATCH reopens a booking),
`UseBound` (no redemption begins on a code used that often), `MaxTime` (the clock
of a tab stops) with `Life` and `RefreshLife` (seconds a token is accepted) and `Onward` above,
`MaxStops` (failures of the process in `LeaseContracts`), `Days` and `LastDay`
(mails and the age up to which an onboarding is counted), `Tokens` and `MaxSlug`
(reset tokens and organisations made), `MaxListing` (ids a marketplace has to
give; afterwards it refuses, which the code meets as any refusal) and
`MaxFaults` (calls refused or lost, and stops, in `Marketplace`), `BookingLeft`
(no booking begins without a row left for it), `Adjustable` (staff change add-ons
before the invoice), `NobodyBooks` and `NothingMoves` (above; a floor moves only while no call has yet to read the floor of the space it edits). A deleted row of the spaces serves again, for a space that no call and no row knows. `Fragile` names the
endpoints whose awaits may fail. Everything else is bounded by the sets of
identifiers. The values listed for `Edits`, `Created`,
`Administered` and `FreeStatuses` are statuses that PATCH or an administrator
writes.

**Fairness.** Four properties need it.

- `BilledEventually`: weak fairness of `Continue(r)`, the next step of a request
  in flight. The event loop resumes every handler whose await has settled, and
  with `Fragile = {}` every await settles. Nothing is assumed of clients. With
  faults the property is false: an approval that confirmed and then failed leaves
  a booking that no retry invoices, because the retry returns early for
  `CONFIRMED`.
- `DripCompletes`: weak fairness of `Daily` (cron starts the job every day and
  the event loop continues it) and strong fairness of `Delivered` (a mail that is
  tried again and again is accepted at last). Requests have none.
- `CalendarCatchesUp`, `DelistedComesDown`: weak fairness of `Working`, the next
  step of the job and its next start. Failures are bounded by `MaxFaults`: the
  marketplaces recover. Staff, guests and deliveries have none.

## 5. What is proved

The proofs are for every value of the constants: any number of bookings,
spaces, applications, codes, invoices, payments, tickets, technicians, sessions,
calls, refreshes, contracts, tenants, organisations, accounts, tokens, services,
listings, inquiries, deliveries, faults and request slots (finite where a module counts them), any limit. The assumptions
are the `ASSUME`s of the modules (limits are naturals, bodies were validated,
the markers are no values), which TLC evaluates on every instance.

| Theorem | States | Argument |
|---|---|---|
| `BookingWorkflow_proofs!TypeCorrect` | `TypeOK` | `TInv` adds that a row that exists names a space and a period, and that a request in flight names the rows its next step reads; without that a write has no type. |
| `BookingWorkflow_proofs!ActiveStaysOffTheMap` | `ActiveIsOffTheMap` | with the types: only `FinalizeWrite` makes a booking `ACTIVE`, and takes its space off the map in the same transaction; nothing else publishes a space or moves a booking. Assumes that staff write neither `ACTIVE` nor a publication by PATCH. |
| `BookingWorkflow_proofs!DocumentsStayBounded` | `DocumentsBounded` | `DInv` counts the documents of a booking together with the uploads in flight that have passed the test: an upload enters only below the limit, and its insertion leaves the sum as it was. |
| `BookingWorkflow_proofs!InvoicesStayBounded` | `InvoicesBounded` | `IInv` counts invoices with the requests that may still issue one, and says that after the first approval no new one enters. Assumes that staff do not write `PENDING_APPROVAL` by PATCH, which makes approval possible again. |
| `BookingWorkflow_proofs!StagesAreFollowed` | `StagesFollowed`, refinement of `BookingStages` | `HInv`: a handler in flight writes a status that follows one the booking has had, even though the booking may have left it. Initial states map to initial states, each step to a step of `BookingStages` or to a stutter. |
| `BookingWorkflow_proofs!StagesComeInOrder` | `StagesInOrder` | `Chain`, an invariant of the abstract specification alone: each later stage implies the one before. Carried over by the refinement. Assumes that staff do not write later stages by hand. |
| `BookingWorkflow_proofs!ApplicationsNameTheirOwn` | `ApplicationsAgree` | inductive with the types. `Steady`: every step but a removal leaves a row its space and period and only adds to `held`; `NoneNamed`: only `AcceptWrite` makes an application name a booking, an unborn one that none names, and a removal takes the name off. |
| `BookingWorkflow_proofs!SpacesStayHeld` | `HeldUntilReleased` | `Reserved`: a live booking that was ever in reception has an open space only if that space was released, by a refusal or a deletion; `ReceptionFirst`: whatever is later in that workflow began there (from the refinement). Assumes that staff write none of those statuses by PATCH and open no space by hand. |
| `BookingWorkflow_proofs!LifecycleIsFollowed` | `LifecycleFollowed`, refinement of `BookingLifecycle` | `AllTested`: what each request in flight has tested still holds, or the booking is deleted. States it of behaviours in which no two handlers are between the test and the write of one booking (`[]MovesApart`) and no PATCH comes in between (`[][NotPatched]_vars`). Each step maps to a step of the lifecycle or to a stutter. |
| `BookingWorkflow_proofs!CreatesOnFreeSlots` | `CreatedOnFreeSlot` | `AllFree`: a creation in flight conflicts with no booking, since bookings keep their space and period (`DaysStay`); periods that do not overlap share no day. States it of behaviours in which no booking of the space begins to hold days while the creation waits (`[][SpaceKept]_vars`), and assumes that staff do not write `PENDING_PHONE_CONFIRMATION`, by which the property tells an acceptance, which tests no period, from POST. |
| `BookingWorkflow_proofs!InvoicesAreIssuedOnce` | `InvoicedOnce` | `AllUnlinked`: a booking about to be invoiced has no invoice linked. States it of behaviours in which no two requests generate or link an invoice for one booking (`[]InvoicingApart`). |
| `BookingWorkflow_proofs!OneAtATimeIsSafe` | the same three | with one request slot, as in `booking_serial`, the conditions hold by themselves: the request in flight moves with every step, and an immediate handler needs a slot too. |
| `Selling_proofs!PromoTypeCorrect` | `PromoTypeOK` | `TInv`, the form of the types that the provers take. |
| `Selling_proofs!RedemptionsStayWithinLimits` | `UsesWithinLimits` | `UInv` = the limit a redemption in flight has read is one the code had (`SeenLimits`), the present limit too (`OwnLimits`); the conditional update adds one below such a limit. |
| `Selling_proofs!NoUseIsLost` | `EveryUseCounted` | inductive with the types: no write but the conditional update touches the count. |
| `Selling_proofs!SerialPatchesStaySane` | `DiscountSane` | `PatchSane`: the row a PATCH validated is the row it will write over. States it of behaviours in which no two PATCHes of one code are in flight at once (`[]PatchesApart`), which one patcher implies (`OnePatcherIsApart`). |
| `Selling_proofs!TypeCorrect` | `TypeOK` of `Marketplace` | `MTypes`: the operation of the run tells what else it remembers (`Runs`), and each step of the job has a lemma that says what it leaves it with (`LoopsOn`, `TakesUp`, `Answers`). |
| `Selling_proofs!NoListingIsStray`, `StoredListingsShow` | `NoStrayListing`, `StoredIsUp` | `LInv`, of which both are parts: each listing is known, by the row, by what the run has read or by what it has at hand, for one space only, and was put up (`OwnListings`), since marketplaces give ids in order (`InOrder`); what the run has read is still in the row, or the row was deleted and its ids recorded (`RowsCurrent`); a push keeps the ids it has read, and what a removal has dealt with shows no more (`HandsRight`). A listing whose answer gave no id is on record like one whose answer was lost. |
| `Selling_proofs!InquiriesAreBookedOnce` | `InquiryBookedOnce` | `QInv`: deliveries of one inquiry that overlap are on record; an inquiry that is being answered was not booked before; one that was booked has a booking whose notes tell, or is on record because such notes were deleted or written over. |
| `Billing_proofs!PendingStaysBounded` | `PendingBounded` | `PInv` counts pending submissions of an invoice with the submissions in flight that found none. |
| `Billing_proofs!StatusesAgreeWithPayments` | `PaidAgrees` | with `FInv` below and `CInv`: a confirmation or refund in flight is about a payment of its invoice. A step that changes what an invoice was paid leaves its request about to settle the invoice (`Settling`), a settlement that was not overtaken makes the status agree, and every other step that parts the two is in `Disturbs`. |
| `Billing_proofs!FreshRequestsKeepPaid` | `FreshKeepsPaid` | `FInv`: a request that was not overtaken has a test that still holds (what it sends, cancels or lists is not `PAID`) or a status that is still right (`PAID` if covered). That nobody wrote the invoice means that its payments are the same (`PaymentsStay`), and with them their sum (`PaidKept`). |
| `Billing_proofs!TypeCorrect` | `TypeOK` | inductive, with `TInv`, given that the sum of the charges of an invoice is a natural number (`SumIsNatural`, below). |
| `Billing_proofs!PaymentsCountOnce` | `PaidMovesByOne` | every step adds one payment to those that completed, takes one away, or leaves them; a sum with one more member is larger by that member (`SumWithOneMore`). |
| `Billing_proofs!FreshTotalsAddUp` | `FreshTotalsAreSums` | `LInv`: a request that holds a total and was not overtaken holds the sum of the present lines, since a line that an invoice keeps is not written (`LinesStay`). |
| `Maintenance_proofs!TypeCorrect` | `TypeOK` | inductive. |
| `Maintenance_proofs!ClosedTicketsWereResolved` | `ClosedWasResolved` | `ResolvedInv`: a ticket that is resolved or closed has its time of resolution, and so has the ticket of a close in flight, since nothing takes `resolved_at` away, or is on record as forced, which lasts until it is resolved (`ForcedStays`). Any status may be written by PATCH. |
| `Maintenance_proofs!HoldersAreRespected` | `HolderRespected` | `Fresh`: what a request that was not overtaken has read is still so. Each write then changes only what its test allows. |
| `Maintenance_proofs!EndedTicketsStayEnded` | `EndedStaysEnded` | the same invariant. |
| `Sessions_proofs!TypeCorrect` | `TypeOK` | `Types`, with what each step of a refresh, a restore or a visit remembers. |
| `Sessions_proofs!TabsKeepTheirSession`, `LogoutIsFinal`, `TokensEndAsTold` | `KeepsItsSession`, `LogoutEnds`, `EndsOnlyAsTold` | `SessionInv` = `Types` and `OneRestorer` (one refresh belongs to `restoreSession`, and only while it waits), `SameSession` (both tokens of the tab are of one session) and, as long as activities have not crossed, `Orderly`: the refresh in flight presents the token the tab stores, the row holds it until it is rotated, and then the answer holds it. A logout ends its session in that the row is gone, or holds a refresh token that has run out (`Ended`): then the server could not verify it, and nobody can use it. A tab may also end by a refresh token past its time. |
| `Sessions_proofs!NobodyWaitsInVain` | `WaitersAreHeard` | part of the same invariant, without the assumption that nothing crossed. |
| `Sessions_proofs!GoneIsBarren` | `GoneYieldsNothing` | the rotation is conditional on the row, and a row is never made again. |
| `LeaseContracts_proofs!TypeCorrect` | `TypeOK` | inductive. |
| `LeaseContracts_proofs!SignedTenantsAreOnboarded` | `SignedMeansOnboarded` | `SInv`: each contract in force belongs to an onboarded tenant or to a signature that still counts (`Counted`), and tenants with two signatures in flight are recorded (`Racers`): a lone signature that counts finds one contract in force, its own. |
| `LeaseContracts_proofs!MailsGoOutOnce` | `MailedOnce` | `MInv`: the first mail belongs to the request that inserted the row (`DayZero`, by the unique column), the job's batch holds mails whose flag is not set (`Todo`), and each acceptance is flagged, about to be flagged or cut off (`Accounted`). |
| `LeaseContracts_proofs!EndedContractsStayEnded` | `EndedStaysEnded` | `FreshSigns`: a signature whose contract was not written since holds a status that can be signed. |
| `TenantApplications_proofs!TypeCorrect` | `TypeOK` | part of `IInv`, which all theorems of the module share: what each handler remembers (`RowsComplete`), and the parts named below. |
| `TenantApplications_proofs!DecisionsAlwaysAgree` | `DecisionsAgree` | `OwnSlugs`: a slug is one application's, or one submission's about to link it; `Overlaps`: two submissions of one inquiry in flight are on record; `Current`: unless they were, a submission in flight finds its inquiry unanswered and a review has the slug and the address of the row it decides. |
| `TenantApplications_proofs!NoOrganisationIsOrphaned` | `NoOrphans` | with the same parts: an organisation that no application names is one a submission in flight is about to link, or was cut off from. |
| `TenantApplications_proofs!TheApprovedCanEnter` | `ApprovedCanEnter` | `KnownAccounts`: the account a review found, or opened, is still there; when it found none, the unique address makes the transaction itself refuse. |
| `TenantApplications_proofs!TokensAreUsedOnce` | `TokenUsedOnce` | `OwnTokens`: a token that was used is nobody's, one that was not is one person's, unless two uses of it overlapped, which `Overlaps` records. |
| `TenantApplications_proofs!DecisionsStay` | `DecidedOnce` | `Fresh`: a handler none of whose readings has gone out of date relies on the status, or the unanswered inquiry, that it tested. |
| `AddOns_proofs!TypeCorrect` | `TypeOK` | `TInv`: types, and what refers to a service or a space refers to one that exists (`Rooted`). |
| `AddOns_proofs!OffersOwnServices`, `ActiveIsSelectable` | `OffersOwn`, `SelectableEverywhere` | `Provided` and `Placed`: as long as neither the service nor the space changed hands, the landlord a call keeps from an await or two ago is still theirs, and the spaces it is about to link are all of his, but for those created since, which are on record as apart until somebody links them. Both properties are parts of the inductive invariant. |
| `AddOns_proofs!InvoicesMatchQuotes` | `QuotedIsBilled` | `Quoted`: a booking that was quoted for has what is left of it, and no invoice yet; calls in flight carry what was quoted. |
| `AddOns_proofs!ActiveUsageStays` | `ActiveUsageKept` | `Noticed`: a deletion in flight is late for each booking, `CONFIRMED` or `CHECKED_IN`, that uses the service by now. Those two are what the usage figures call active; the property says nothing of `ACTIVE` and pending bookings and of applications, whose add-ons a deletion takes (section 8). |

Each proof follows one scheme: a lemma for each kind of step (arrives, goes on
in flight, writes one row, ends), a lemma for `Init`, one for
`[Next]_vars`, and a temporal conclusion.

`MovesApart`, `NotPatched`, `SpaceKept` and `InvoicingApart` are conditions on
behaviours, not on the constants: they name the overlaps that break the property
and allow all others, any number of requests at once on other bookings or spaces
included. They are the locks the code lacks: of a booking from the test of its
status to the write, of a space from the test of availability to the insertion,
of a booking while it is invoiced. The run `double_booking` shows what happens
without the second one.

The sums of `Billing` are folds of the library over a set, in an order it does
not tell. `Billing_proofs` begins with what they compute, by induction over the
set: `SmallestCounterexample` (what holds of a finite set once it holds of all its
proper subsets holds of it, from the library's theorem that finite sets are
well-founded by inclusion), `SumExists` (the recursion that the fold is defined
by has a solution), `SumIsNatural`, `SumsAdd` (the order makes no difference) and
`SumWithOneMore`. They need `TablesFinite`: payments and lines are rows of tables.

## 6. What is only model-checked

- `BilledEventually`, `DripCompletes`, `CalendarCatchesUp`, `DelistedComesDown`:
  liveness under fairness is out of the prover's reach.

Every other property of the passing runs is a theorem.

Proved and not checked by a run: `InvoicesBounded`, `StagesInOrder`,
`GoneYieldsNothing`, `PaidMovesByOne`, `FreshTotalsAreSums`, and `TypeOK` of every
module.

## 7. What is not modelled

Of the modelled parts:

- bookings: prices; `generateContractAfterPayment`, which writes
  a column that the schema does not have and throws; a `start_datetime` in
  PATCH, likewise; the organisation and role of the caller;
- applications: the account that is made for a guest, and its tenant;
- spaces: slugs, features, prices; creation only where add-ons meet it, deletion
  only where marketplaces and add-ons do;
- add-ons: prices, quantities, cycles, usage figures; a booking that is deleted;
  a floor that moves between the awaits of an edit of its space;
- billing: tax, currency, numbers of invoices, the file of a cheque, the overdue
  reminders and their tiers;
- promotion codes: renaming, and the price that `apply` answers;
- maintenance: costs, mails, which spaces a renter may report on;
- sessions: refresh tokens from before there were session rows, `expires_at` of
  the row (its token runs out with it), the cached user and the messages of the tab, second factors;
- lease contracts: items and deposits (stubs that write nothing), reminders of
  the end of a contract (they only send), `OCCUPIED`, which
  `generateContractFromBooking` writes on the space;
- tenant applications: registration of an organisation by its own form,
  deletion of organisations, the signature of the webhook, notices to managers;
- marketplaces: a run that takes more than 15 minutes and meets the next one,
  what a listing shows beside its calendar, the 60 days and the weekend, the
  signature of the webhook, notices, and a marketplace that is not configured.

The other parts are listed in `PROJECT.json` with the reason: reads, derived
figures, calls to remote services and pages have no state of their own to get
wrong.

## 8. Behaviour worth knowing

Met while modelling, beside the two violated runs. The modules state each of
these by the condition of a property, or the properties are checked where it
cannot happen.

Bookings and applications:

- An approval that read a booking before it was cancelled writes `CONFIRMED` over
  it and invoices it (`booking.service.ts:630`); `docs/WORKFLOW.md:23` calls
  `CANCELLED` terminal.
- Two uploads that both count four documents leave six; `schema.prisma:286` says
  at most 5.
- A contract that is removed while `finalizeBooking` is between its look for it
  and its transaction leaves an `ACTIVE` booking without one
  (`booking.service.ts:1030`).
- `cancel` accepts a `COMPLETED` booking (`booking.service.ts:753`), which
  `docs/WORKFLOW.md:22` calls terminal; the abstract lifecycle has that step.
- `POST /bookings` looks at other bookings and not at the status of the space;
  `docs/WORKFLOW.md:10` says of `OCCUPIED`: not bookable.
- An approval that fails after it wrote `CONFIRMED` is never invoiced: its retry
  returns early. An acceptance that fails after its transaction likewise. If the
  invoice was made and the link failed, reopening the booking makes a second.

Add-on services:

- A service is deleted although an `ACTIVE` booking uses it: `remove` asks for
  `CONFIRMED`, `CHECKED_IN` and `COMPLETED` (`addon-service.service.ts:190`), and
  says "active bookings" (line 197). The add-ons of pending bookings and of
  applications go with it too.
- A space created after a service was switched on is not linked to it
  (`space.service.ts:249-292`), although `addon-service.service.ts:24` says every
  space of the landlord; a floor that goes to another building keeps its links
  (`floor.service.ts:119-124`).
- An add-on deleted between the acceptance and its invoice is in the booking's
  total and not on the invoice; one that staff add afterwards is on the invoice
  and not in the total.
- The links of a service are made after it: if one space is deleted in between,
  it is linked to none, and no call repeats it but another activation. Links stay
  when the service or the space goes to another landlord.
- A choice of add-ons for a space narrows what is shown; a booking may ask for
  any active service of the landlord (`booking.service.ts:166`).

Money and codes:

- A payment that was refunded between the two awaits of its confirmation becomes
  `COMPLETED` again (`billing.service.ts:734`, `738`).
- A payment is recorded and the process stops before the invoice is updated:
  nothing updates it later, unless another payment comes.
- `POST /invoices` takes any status (`create-invoice.dto.ts:72-75`,
  `billing.service.ts:175`): it can say `PAID` of an invoice nobody paid. A PATCH
  of the total, or a new line, changes what a `PAID` invoice costs and not its
  status.
- A refund of the last payment that completed leaves a `PAID` invoice `PAID`
  (`billing.service.ts:369-371`); confirming a pending payment of a
  cancelled invoice makes it `PAID`.
- The first line added to an invoice made without lines replaces its total;
  removing a line leaves the total.
- Overdue reminders look at invoices that are `OVERDUE`. Unless POST or PATCH says
  so, only the reading of the overdue list writes that status.
- Two PATCHes of one promotion code, one of the type and one of the discount,
  can leave a percentage over 100: each validated against the row it read.

Maintenance:

- Two technicians who accept one ticket are both told it is theirs.
- PATCH of a ticket or of its status writes any status
  (`maintenance.service.ts:634-645`, `667-679`), so a ticket can be closed that
  was never resolved and has no time of resolution.
- A space that an urgent ticket blocked is never unblocked by the ticket.

Sessions:

- A refresh whose answer is lost, or during which the page is reloaded, ends the
  tab's session: the row was rotated and nobody has its token. A network failure
  during the refresh clears the tab at once.
- A refresh that overlaps the logout rotates the row which the logout deletes by
  token, and its late answer puts tokens back in the tab.
- A logout whose token the server cannot verify, or whose deletion fails, is
  answered like one that ended the session (`auth.service.ts:337-341`,
  `373-375`); the row stays.
- A refresh token past its time is refused before its row is looked for
  (`auth.service.ts:269-271`), and the tab is cleared with the row still there.
- An access token outlives the revocation of its session until it expires.

Contracts and onboarding:

- Two first signatures of one tenant that overlap each count two and start no
  onboarding; nor does a contract that POST or PATCH makes `ACTIVE`, nor a
  signature whose process stops before it counts.
- The first mail, if refused, is never sent again; the later ones are. A stop
  between a mail and its flag sends the mail again.
- A contract that was ended while a signature was in flight is put in force.
- No code writes `EXPIRED` on a contract, which `docs/WORKFLOW.md:29` describes.

Tenant applications:

- Two submissions of one inquiry that overlap make two organisations, and the
  later overwrites the link; a failure between the organisation and its link
  leaves an organisation nobody can review.
- An approval whose mail fails cannot be repeated. Two uses of one reset token
  that overlap both set a password, and the second may clear a newer token.
- Setting a new password revokes no session.

Marketplaces:

- A DELETE that is refused is logged and its id forgotten; so is the id of a
  listing that was put up when the call to the other marketplace then throws, or
  when its space is deleted. Nothing ever takes such a listing down.
- A space whose listings were half taken down and which is listed again is
  pushed to an id that is gone, run after run: an answer that is not ok keeps the
  id.
- A POST that is answered ok with a body that cannot be read leaves a listing
  that nobody knows (`adapters.service.ts:76-80`, `125-129`).
- An inquiry is booked again when it is delivered again after its booking was
  rejected or refused by phone, since both write over the notes that name it
  (`booking.service.ts:692-699`, `912-918`); after a cancellation it is not.
- The marker of an inquiry leaves the platform out: one marketplace's inquiry
  whose id the other has used is answered as a duplicate and books nothing.
- Two deliveries that overlap both find no conflict, and both book.
