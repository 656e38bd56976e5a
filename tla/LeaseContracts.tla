--------------------------- MODULE LeaseContracts ---------------------------
(***************************************************************************)
(* Lease contracts, the onboarding that the first signature starts, and    *)
(* the daily job that continues it:                                        *)
(* backend/src/lease-contract/lease-contract.service.ts and                *)
(* backend/src/email-sequence/email-sequence.service.ts.                   *)
(*                                                                         *)
(* `request` holds the handlers in flight; the onboarding is fired and     *)
(* forgotten by the one that signs, and goes on in its slot.  A mail is an *)
(* await of its own: it is accepted or refused, and the flag that says so  *)
(* is written one await later.  Time is counted in runs of the daily job.  *)
(***************************************************************************)
EXTENDS Integers, FiniteSets

CONSTANTS
  Contracts,       \* rows of lease_contracts, each created once
  Tenants,
  Requests,        \* how many requests are in flight at once
  Days,            \* days after which a drip mail is due (1, 3, 7 and 30)
  LastDay,         \* the last of them: ages are counted up to it
  Created,         \* statuses that POST writes
  Edits,           \* statuses that PATCH writes
  MaxStops,        \* bound: how often the process stops
  Configured,      \* the mailer has its keys
  Nobody

ContractStatus == {"DRAFT", "ACTIVE", "EXPIRED", "TERMINATED", "RENEWED"}
Ended == {"EXPIRED", "TERMINATED", "RENEWED"}

ASSUME DaysInOrder ==
  LastDay \in Nat /\ Days \subseteq 1..LastDay /\ MaxStops \in Nat /\ Configured \in BOOLEAN
ASSUME StatusesValidated == Created \subseteq ContractStatus /\ Edits \subseteq ContractStatus
ASSUME NobodyIsNoTenant == Nobody \notin Tenants \cup (Tenants \X Days)

VARIABLES
  contract,        \* the lease_contracts table
  sequence,        \* the tenant_onboarding_sequences table
  request,         \* the handlers in flight
  job,             \* processOnboardingDrip: what it still has to send
  stops,           \* how often the process stopped
  mailed,          \* history: how often each mail was accepted, up to 2
  cut,             \* history: mails whose flag was not written
  raced,           \* history: tenants whose signatures overlapped or failed,
                   \* or of whom a POST or PATCH made a contract ACTIVE
  stale            \* history: the contract was written since a request read it

tables == <<contract, sequence>>
history == <<mailed, cut>>
vars == <<contract, sequence, request, job, stops, mailed, cut, raced, stale>>

-----------------------------------------------------------------------------
Row == [status : ContractStatus \cup {"none", "deleted"}, tenant : Tenants \cup {Nobody}]
NoContract == [status |-> "none", tenant |-> Nobody]
Mails == {0} \cup Days
Sequence == [enrolled : BOOLEAN, age : 0..LastDay, sent : SUBSET Mails]
NoSequence == [enrolled |-> FALSE, age |-> 0, sent |-> {}]

Idle == [op |-> "idle"]
Request ==
  [op : {"sign", "terminate", "renew"}, contract : Contracts]
  \cup [op : {"count", "start", "create", "mail", "flag"}, contract : Contracts, tenant : Tenants]

\* The mails that the job read as due and has not come to, and the one whose
\* flag it is about to write.
Job == [todo : SUBSET (Tenants \X Days), flag : (Tenants \X Days) \cup {Nobody}]
NoJob == [todo |-> {}, flag |-> Nobody]

TypeOK ==
  /\ contract \in [Contracts -> Row]
  /\ sequence \in [Tenants -> Sequence]
  /\ request \in [Requests -> Request \cup {Idle}]
  /\ job \in Job
  /\ stops \in 0..MaxStops
  /\ mailed \in [Tenants -> [Mails -> 0..2]]
  /\ cut \subseteq Tenants \X Mails
  /\ raced \subseteq Tenants
  /\ stale \in [Requests -> BOOLEAN]

Init ==
  /\ contract = [c \in Contracts |-> NoContract]
  /\ sequence = [t \in Tenants |-> NoSequence]
  /\ request = [r \in Requests |-> Idle]
  /\ job = NoJob
  /\ stops = 0
  /\ mailed = [t \in Tenants |-> [d \in Mails |-> 0]]
  /\ cut = {}
  /\ raced = {}
  /\ stale = [r \in Requests |-> FALSE]

Exists(c) == contract[c].status \in ContractStatus
At(r, op) == request[r].op = op
Begin(r, memory) == request[r] = Idle /\ request' = [request EXCEPT ![r] = memory]
Go(r, memory) == request' = [request EXCEPT ![r] = memory]
Finish(r) == Go(r, Idle)

\* One more mail is accepted; two stand for any more.
Accepted(t, d) ==
  mailed' = [mailed EXCEPT ![t][d] = IF @ = 0 THEN 1 ELSE 2]

-----------------------------------------------------------------------------
(* Contracts. *)

\* create, and generateContractFromBooking, which inserts a DRAFT for a booking
\* that is CONFIRMED and then marks its space.
create(c, t, status) ==
  /\ contract[c] = NoContract
  /\ contract' = [contract EXCEPT ![c] = [status |-> status, tenant |-> t]]
  /\ UNCHANGED <<sequence, request, job, stops, history>>

\* PATCH asks for no status to come from.
update(c, status) ==
  /\ Exists(c)
  /\ contract' = [contract EXCEPT ![c].status = status]
  /\ UNCHANGED <<sequence, request, job, stops, history>>

remove(c) ==
  /\ Exists(c)
  /\ contract' = [contract EXCEPT ![c] = [status |-> "deleted", tenant |-> Nobody]]
  /\ UNCHANGED <<sequence, request, job, stops, history>>

Read(r, c, op) ==
  /\ Begin(r, [op |-> op, contract |-> c])
  /\ UNCHANGED <<tables, job, stops, history>>

\* Mutant: whatever is not over can be signed.
SignableAlways(c) == Exists(c)
Signable(c) == contract[c].status = "DRAFT"
\* Mutant: a contract can be ended before it was signed.
RunningAlways(c) == Exists(c)
Running(c) == contract[c].status = "ACTIVE"

sign(r, c) == Signable(c) /\ Read(r, c, "sign")
terminate(r, c) == Running(c) /\ Read(r, c, "terminate")
renew(r, c) == Running(c) /\ Read(r, c, "renew")

\* The update by id that follows what was read.
Write(r, op, status) ==
  /\ At(r, op)
  /\ Exists(request[r].contract)
  /\ contract' = [contract EXCEPT ![request[r].contract].status = status]
  /\ UNCHANGED <<sequence, job, stops, history>>

signAs(r, status) ==
  /\ Write(r, "sign", status)
  /\ LET c == request[r].contract IN
     Go(r, [op |-> "count", contract |-> c, tenant |-> contract[c].tenant])

signWrite(r) == signAs(r, "ACTIVE")

terminateWrite(r) == Write(r, "terminate", "TERMINATED") /\ Finish(r)
renewWrite(r) == Write(r, "renew", "RENEWED") /\ Finish(r)

\* Mutant: the contract just signed is not counted.
FirstBefore(t) == Cardinality({c \in Contracts : contract[c] = [status |-> "ACTIVE", tenant |-> t]}) = 0
\* activeCount === 1
First(t) == Cardinality({c \in Contracts : contract[c] = [status |-> "ACTIVE", tenant |-> t]}) = 1

signCount(r) ==
  /\ At(r, "count")
  /\ IF First(request[r].tenant) THEN Go(r, [request[r] EXCEPT !.op = "start"]) ELSE Finish(r)
  /\ UNCHANGED <<tables, job, stops, history>>

-----------------------------------------------------------------------------
(* startOnboardingAfterFirstLeaseSigned. *)

\* (contact_email is required: a tenant without one is gone, as in Fail.)
startFind(r) ==
  /\ At(r, "start")
  /\ IF ~Configured \/ sequence[request[r].tenant].enrolled THEN Finish(r)
     ELSE Go(r, [request[r] EXCEPT !.op = "create"])
  /\ UNCHANGED <<tables, job, stops, history>>

\* Mutant: tenant_id is not unique.
UniqueNever(t) == TRUE
\* tenant_id is unique: a second insertion throws.
Unique(t) == ~sequence[t].enrolled

startCreate(r) ==
  /\ At(r, "create")
  /\ LET t == request[r].tenant IN
     IF Unique(t)
     THEN /\ sequence' = [sequence EXCEPT ![t] = [NoSequence EXCEPT !.enrolled = TRUE]]
          /\ Go(r, [request[r] EXCEPT !.op = "mail"])
     ELSE Finish(r) /\ UNCHANGED sequence
  /\ UNCHANGED <<contract, job, stops, history>>

\* Day 0, which nothing sends again if it is refused.
startMail(r, ok) ==
  /\ At(r, "mail")
  /\ IF ok THEN Accepted(request[r].tenant, 0) /\ Go(r, [request[r] EXCEPT !.op = "flag"])
     ELSE Finish(r) /\ UNCHANGED mailed
  /\ UNCHANGED <<tables, job, stops, cut>>

startFlag(r) ==
  /\ At(r, "flag")
  /\ sequence' = [sequence EXCEPT ![request[r].tenant].sent = @ \cup {0}]
  /\ Finish(r)
  /\ UNCHANGED <<contract, job, stops, history>>

-----------------------------------------------------------------------------
(* processOnboardingDrip, at nine every morning. *)

\* Mutant: the flags are not looked at.
DueAgain(t, d) == sequence[t].enrolled /\ sequence[t].age >= d
\* Mutant: a mail is due on its very day only.
DueThatDay(t, d) == sequence[t].enrolled /\ sequence[t].age = d /\ d \notin sequence[t].sent
\* daysSince >= minDay and no flag, as the rows are read at the start.
Due(t, d) == sequence[t].enrolled /\ sequence[t].age >= d /\ d \notin sequence[t].sent

Older == [t \in Tenants |->
  IF sequence[t].enrolled /\ sequence[t].age < LastDay
  THEN [sequence[t] EXCEPT !.age = @ + 1] ELSE sequence[t]]

\* The rows are read once.  Twenty-four hours pass before an age counts.  (With no
\* mailer there are no rows.)
Morning ==
  /\ job = NoJob
  /\ job' = [todo |-> {m \in Tenants \X Days : Due(m[1], m[2])}, flag |-> Nobody]
  /\ sequence' = Older
  /\ UNCHANGED <<contract, request, stops, history>>

\* Tenant after tenant, and for each the steps by their days.
NextMail(t, d) ==
  /\ job.flag = Nobody
  /\ <<t, d>> \in job.todo
  /\ \A e \in Days : <<t, e>> \in job.todo => d <= e

jobMail(t, d) ==
  /\ NextMail(t, d)
  /\ Accepted(t, d)
  /\ job' = [todo |-> job.todo \ {<<t, d>>}, flag |-> <<t, d>>]
  /\ UNCHANGED <<tables, request, stops, cut>>

\* A mail that is refused stays due.
jobRefused(t, d) ==
  /\ NextMail(t, d)
  /\ job' = [job EXCEPT !.todo = @ \ {<<t, d>>}]
  /\ UNCHANGED <<tables, request, stops, history>>

jobFlag ==
  /\ job.flag # Nobody
  /\ sequence' = [sequence EXCEPT ![job.flag[1]].sent = @ \cup {job.flag[2]}]
  /\ job' = [job EXCEPT !.flag = Nobody]
  /\ UNCHANGED <<contract, request, stops, history>>

-----------------------------------------------------------------------------
(* Failures. *)

Flags(r) == IF At(r, "flag") THEN {<<request[r].tenant, 0>>} ELSE {}
Signing(r, t) ==
  request[r] # Idle /\
    \/ request[r].op \in {"count", "start", "create"} /\ request[r].tenant = t
    \/ request[r].op = "sign" /\ contract[request[r].contract].tenant = t

\* An await of a request rejects, or its contract is gone.
Fail(r) ==
  /\ request[r] # Idle
  /\ Finish(r)
  /\ cut' = cut \cup Flags(r)
  /\ raced' = raced \cup {t \in Tenants : Signing(r, t)}
  /\ UNCHANGED <<tables, job, stops, mailed>>

\* The process stops; the morning after, the job runs again.
Stop ==
  /\ stops < MaxStops
  /\ stops' = stops + 1
  /\ request' = [r \in Requests |-> Idle]
  /\ job' = NoJob
  /\ cut' = cut \cup ({job.flag} \ {Nobody})
                \cup UNION {Flags(r) : r \in Requests}
  /\ raced' = raced \cup {t \in Tenants : \E r \in Requests : Signing(r, t)}
  /\ UNCHANGED <<tables, mailed>>

-----------------------------------------------------------------------------
Starts(c) ==
  \/ \E t \in Tenants, status \in Created : create(c, t, status)
  \/ \E status \in Edits : update(c, status)
  \/ remove(c)
  \/ \E r \in Requests : sign(r, c) \/ terminate(r, c) \/ renew(r, c)

Goes(r) ==
  \/ signWrite(r) \/ terminateWrite(r) \/ renewWrite(r) \/ signCount(r)
  \/ startFind(r) \/ startCreate(r) \/ startFlag(r)
  \/ \E ok \in BOOLEAN : startMail(r, ok)

Drip == \/ \E t \in Tenants, d \in Days : jobMail(t, d) \/ jobRefused(t, d)
        \/ jobFlag

Racing(t) == \E r, q \in Requests : r # q /\ Signing(r, t) /\ Signing(q, t)

\* POST and PATCH leave the handlers in flight alone.
Unsigned(t) ==
  /\ request' = request
  /\ \E c \in Contracts : /\ contract[c].status # "ACTIVE"
                         /\ contract'[c] = [status |-> "ACTIVE", tenant |-> t]

Overtaken ==
  stale' = [r \in Requests |->
    /\ request'[r] = request[r] /\ request[r] # Idle
    /\ stale[r] \/ contract'[request[r].contract] # contract[request[r].contract]]

Works ==
  /\ (\E c \in Contracts : Starts(c)) \/ (\E r \in Requests : Goes(r)) \/ Morning \/ Drip
  /\ raced' = raced \cup {t \in Tenants : Racing(t)' \/ Unsigned(t)}

Next == (Works \/ Stop \/ \E r \in Requests : Fail(r)) /\ Overtaken

Spec == Init /\ [][Next]_vars

\* Mornings come, the job goes on, and a mail that is sent again and again is
\* accepted at last.  Nothing is assumed of callers.
Daily == (Morning \/ Drip) /\ raced' = raced /\ Overtaken
Delivered(t, d) == jobMail(t, d) /\ raced' = raced /\ Overtaken
FairSpec == Spec /\ WF_vars(Daily) /\ \A t \in Tenants, d \in Days : SF_vars(Delivered(t, d))

-----------------------------------------------------------------------------
(* Properties. *)

\* "after the tenant's first lease becomes ACTIVE (signed)": a tenant with a
\* contract in force has his onboarding, unless there is no mailer, two of his
\* signatures overlapped - each then counts two - or one of them failed
\* half-way, or a POST or PATCH put a contract in force without a signature.
SignedMeansOnboarded ==
  Configured => \A t \in Tenants \ raced, c \in Contracts :
      /\ contract[c] = [status |-> "ACTIVE", tenant |-> t]
      /\ \A r \in Requests : ~Signing(r, t)
      => sequence[t].enrolled

\* A mail is accepted at most once, unless the process stopped, or the request
\* failed, between the mail and its flag; and what is flagged was accepted.
MailedOnce ==
  \A t \in Tenants, d \in Mails :
    /\ d \in sequence[t].sent => mailed[t][d] > 0
    /\ mailed[t][d] > 1 => <<t, d>> \in cut

\* Every later mail of an onboarding that has begun is delivered in the end,
\* whatever was refused and wherever the job stopped.
DripCompletes ==
  \A t \in Tenants, d \in Days : sequence[t].enrolled ~> mailed[t][d] > 0

\* A contract that has ended is in force again only by a PATCH, which leaves the
\* handlers in flight alone, or by a signature that read it before another
\* request wrote it.
EndedStaysEnded ==
  [][\A c \in Contracts :
       /\ contract[c].status \in Ended
       /\ contract'[c].status = "ACTIVE"
       /\ request' # request
       => \E r \in Requests : At(r, "sign") /\ request[r].contract = c /\ stale[r]]_vars
=============================================================================
