------------------------- MODULE TenantApplications -------------------------
(***************************************************************************)
(* Tenant applications: an inquiry, the form that answers it, the review,  *)
(* and the account that an approval opens with a link to set a password:   *)
(* backend/src/forms/ and the password reset of backend/src/auth/.         *)
(*                                                                         *)
(* `call` holds the handlers in flight and what each has read; each await  *)
(* is a step, a transaction is one step.  A form is delivered as often as  *)
(* its sender likes.  All the forms carry one company name, so that the    *)
(* slugs of their organisations are that name and a number.                *)
(***************************************************************************)
EXTENDS Integers, FiniteSets

CONSTANTS
  Applications,    \* rows of tenant_applications, each created once
  Responses,       \* form responses
  Emails,
  Calls,           \* how many calls are in flight at once
  Tokens,          \* bound: the password reset tokens that are issued
  MaxSlug,         \* bound: the organisations made
  Administered,    \* statuses that an administrator writes
  InquiryOf(_),    \* the hidden inquiry_id of a response
  EmailOf(_),      \* and the address it gives
  None,
  Elsewhere        \* the organisation of a user who registered by himself

ASSUME SlugsCounted == MaxSlug \in Nat
ASSUME StatusesKnown == Administered \subseteq {"PENDING", "TRIAL", "ACTIVE", "SUSPENDED"}
ASSUME Addressed ==
  \A p \in Responses : InquiryOf(p) \in Applications /\ EmailOf(p) \in Emails
ASSUME NoneIsNothing ==
  /\ None \notin 1..MaxSlug \cup Responses \cup Tokens \cup Emails \cup {Elsewhere}
  /\ Elsewhere \notin 1..MaxSlug

VARIABLES
  application,     \* the tenant_applications table
  organisation,    \* the tenants table, by slug
  account,         \* the users table, by e-mail address
  call,            \* the handlers in flight
  issued,          \* the reset tokens handed out
  uses,            \* history: the passwords written with each, up to 2
  doubled,         \* history: tokens of which two uses overlapped
  crossed,         \* history: inquiries of which two submissions overlapped
  invited,         \* history: addresses that were sent a token
  cut,             \* history: organisations whose handler failed half-way
  managed,         \* history: organisations whose status an administrator set
  stale            \* history: the application was written since a call read it

tables == <<application, organisation, account>>
history == <<uses, invited, cut, managed>>
vars == <<tables, call, issued, history, doubled, crossed, stale>>

-----------------------------------------------------------------------------
Slugs == 1..MaxSlug
ApplicationRow ==
  [status : {"none", "AWAITING_SUBMISSION", "SUBMITTED", "APPROVED", "REJECTED"},
   response : Responses \cup {None}, slug : Slugs \cup {None}, email : Emails \cup {None}]
NoApplication == [status |-> "none", response |-> None, slug |-> None, email |-> None]
OrganisationStatus == {"none", "PENDING", "TRIAL", "ACTIVE", "SUSPENDED"}
Account == [org : Slugs \cup {Elsewhere, None}, token : Tokens \cup {None}]
NoAccount == [org |-> None, token |-> None]

Idle == [op |-> "idle"]
Submission ==
  [op : {"lookup", "slug"}, response : Responses]
  \cup [op : {"create", "link"}, response : Responses, slug : Slugs]
Review ==
  [op : {"existing", "refuse", "invite"}, application : Applications, slug : Slugs, email : Emails]
  \cup [op : {"decide"}, application : Applications, slug : Slugs, email : Emails,
        existing : Slugs \cup {Elsewhere, None}]
Reset == [op : {"reset"}, email : Emails, token : Tokens]

TypeOK ==
  /\ application \in [Applications -> ApplicationRow]
  /\ organisation \in [Slugs -> OrganisationStatus]
  /\ account \in [Emails -> Account]
  /\ call \in [Calls -> Submission \cup Review \cup Reset \cup {Idle}]
  /\ issued \subseteq Tokens
  /\ uses \in [Tokens -> 0..2]
  /\ doubled \subseteq Tokens
  /\ crossed \subseteq Applications
  /\ invited \subseteq Emails
  /\ cut \subseteq Slugs
  /\ managed \subseteq Slugs
  /\ stale \in [Calls -> BOOLEAN]

Init ==
  /\ application = [a \in Applications |-> NoApplication]
  /\ organisation = [o \in Slugs |-> "none"]
  /\ account = [e \in Emails |-> NoAccount]
  /\ call = [k \in Calls |-> Idle]
  /\ issued = {}
  /\ uses = [n \in Tokens |-> 0]
  /\ doubled = {}
  /\ crossed = {}
  /\ invited = {}
  /\ cut = {}
  /\ managed = {}
  /\ stale = [k \in Calls |-> FALSE]

At(k, op) == call[k].op = op
Begin(k, memory) == call[k] = Idle /\ call' = [call EXCEPT ![k] = memory]
Go(k, memory) == call' = [call EXCEPT ![k] = memory]
Finish(k) == Go(k, Idle)

-----------------------------------------------------------------------------
(* The form. *)

\* createTypeformInquiry inserts the row before it looks whether a form is
\* configured; it throws afterwards, and the row stays.
createTypeformInquiry(a) ==
  /\ application[a] = NoApplication
  /\ application' = [application EXCEPT ![a].status = "AWAITING_SUBMISSION"]
  /\ UNCHANGED <<organisation, account, call, issued, history>>

\* handlePayload.  A response that an application holds is answered at once.
handlePayload(k, p) ==
  /\ \A a \in Applications : application[a].response # p
  /\ Begin(k, [op |-> "lookup", response |-> p])
  /\ UNCHANGED <<tables, issued, history>>

\* Mutant: an inquiry that has its applicant is answered once more.
UnansweredAlways(a) == application[a] # NoApplication
Unanswered(a) == application[a] # NoApplication /\ application[a].slug = None

\* An unknown inquiry throws, an answered one returns.
lookup(k) ==
  /\ At(k, "lookup")
  /\ IF Unanswered(InquiryOf(call[k].response))
     THEN Go(k, [call[k] EXCEPT !.op = "slug"]) ELSE Finish(k)
  /\ UNCHANGED <<tables, issued, history>>

\* The loop ends at the first slug that is free: rows are only added.
FirstFree(o) ==
  organisation[o] = "none" /\ \A q \in 1..(o - 1) : organisation[q] # "none"

slugLoop(k) ==
  /\ At(k, "slug")
  /\ \E o \in Slugs :
       FirstFree(o) /\ Go(k, [op |-> "create", response |-> call[k].response, slug |-> o])
  /\ UNCHANGED <<tables, issued, history>>

\* slug is unique: the insertion throws if another took it since.
createTenant(k) ==
  /\ At(k, "create")
  /\ LET o == call[k].slug IN
     IF organisation[o] = "none"
     THEN /\ organisation' = [organisation EXCEPT ![o] = "PENDING"]
          /\ Go(k, [call[k] EXCEPT !.op = "link"])
     ELSE Finish(k) /\ UNCHANGED organisation
  /\ UNCHANGED <<application, account, issued, history>>

\* Managers are told afterwards, which changes nothing here.
linkApplication(k) ==
  /\ At(k, "link")
  /\ LET p == call[k].response IN
     application' = [application EXCEPT ![InquiryOf(p)] =
       [status |-> "SUBMITTED", response |-> p, slug |-> call[k].slug, email |-> EmailOf(p)]]
  /\ Finish(k)
  /\ UNCHANGED <<organisation, account, issued, history>>

-----------------------------------------------------------------------------
(* The review. *)

Read(k, a, op) ==
  /\ application[a].slug # None
  /\ Begin(k, [op |-> op, application |-> a,
               slug |-> application[a].slug, email |-> application[a].email])
  /\ UNCHANGED <<tables, issued, history>>

\* Mutant: a decided application can be decided again.
PendingAlways(a) == application[a] # NoApplication
Pending(a) == application[a].status = "SUBMITTED"

approve(k, a) ==
  /\ Pending(a)
  /\ application[a].slug # None => organisation[application[a].slug] = "PENDING"
  /\ Read(k, a, "existing")

findExisting(k) ==
  /\ At(k, "existing")
  /\ Go(k, [op |-> "decide", application |-> call[k].application, slug |-> call[k].slug,
            email |-> call[k].email, existing |-> account[call[k].email].org])
  /\ UNCHANGED <<tables, issued, history>>

UsedElsewhere(k) == call[k].existing \notin {None, call[k].slug}
\* The transaction throws on an address that was taken since it was read.
Taken(k) == call[k].existing = None /\ account[call[k].email] # NoAccount

\* Mutant: a user is only added to an organisation that has one.
OpensLate(k) == call[k].existing = call[k].slug
\* !existing && !emailUsedElsewhere
Opens(k) == call[k].existing = None

\* Mutant: the organisation is not written with the application.
ApprovalHalf(k) ==
  /\ application' = [application EXCEPT ![call[k].application].status = "APPROVED"]
  /\ UNCHANGED <<organisation, account>>
Approval(k) ==
  /\ organisation' = [organisation EXCEPT ![call[k].slug] = "TRIAL"]
  /\ application' = [application EXCEPT ![call[k].application].status = "APPROVED"]
  /\ account' = IF Opens(k)
                THEN [account EXCEPT ![call[k].email] = [org |-> call[k].slug, token |-> None]]
                ELSE account

approveWrite(k) ==
  /\ At(k, "decide")
  /\ IF Taken(k) THEN Finish(k) /\ UNCHANGED tables
     ELSE /\ Approval(k)
          /\ IF UsedElsewhere(k) THEN Finish(k)
             ELSE Go(k, [op |-> "invite", application |-> call[k].application,
                         slug |-> call[k].slug, email |-> call[k].email])
  /\ UNCHANGED <<issued, history>>

reject(k, a) == Pending(a) /\ Read(k, a, "refuse")

rejectWrite(k) ==
  /\ At(k, "refuse")
  /\ application' = [application EXCEPT ![call[k].application].status = "REJECTED"]
  /\ organisation' = [organisation EXCEPT ![call[k].slug] = "SUSPENDED"]
  /\ Finish(k)
  /\ UNCHANGED <<account, issued, history>>

\* activate, suspend and PATCH of tenant.service ask for no status to come from.
setTenantStatus(o, status) ==
  /\ organisation[o] # "none"
  /\ organisation' = [organisation EXCEPT ![o] = status]
  /\ managed' = managed \cup {o}
  /\ UNCHANGED <<application, account, call, issued, uses, invited, cut>>

-----------------------------------------------------------------------------
(* Accounts and their reset tokens. *)

register(e) ==
  /\ account[e] = NoAccount
  /\ account' = [account EXCEPT ![e].org = Elsewhere]
  /\ UNCHANGED <<application, organisation, call, issued, history>>

\* issuePasswordResetToken: the token replaces the one before.
Issue(e) ==
  /\ account[e] # NoAccount
  /\ \E n \in Tokens \ issued :
       /\ account' = [account EXCEPT ![e].token = n]
       /\ issued' = issued \cup {n}
  /\ invited' = invited \cup {e}
  /\ UNCHANGED <<application, organisation, uses, cut, managed>>

\* requestPasswordReset, by the one who forgot it and by an approval.
requestPasswordReset(e) == Issue(e) /\ UNCHANGED call
invite(k) == At(k, "invite") /\ Issue(call[k].email) /\ Finish(k)

\* resetPassword finds the user by the token and hashes the password; then it
\* writes by id, whatever token the user has by now.
resetPassword(k, e) ==
  /\ account[e].token # None
  /\ Begin(k, [op |-> "reset", email |-> e, token |-> account[e].token])
  /\ UNCHANGED <<tables, issued, history>>

\* Mutant: the token survives its use.
SpendNever(e) == account' = account
Spend(e) == account' = [account EXCEPT ![e].token = None]

resetWrite(k) ==
  /\ At(k, "reset")
  /\ Spend(call[k].email)
  /\ uses' = [uses EXCEPT ![call[k].token] = IF @ = 0 THEN 1 ELSE 2]
  /\ Finish(k)
  /\ UNCHANGED <<application, organisation, issued, invited, cut, managed>>

-----------------------------------------------------------------------------
\* An await rejects, the process stops, or the mail of a token is refused.
Fail(k) ==
  /\ call[k] # Idle
  /\ Finish(k)
  /\ cut' = IF At(k, "link") \/ At(k, "invite") THEN cut \cup {call[k].slug} ELSE cut
  /\ UNCHANGED <<tables, issued, uses, invited, managed>>

Submit(k) ==
  \/ \E p \in Responses : handlePayload(k, p)
  \/ lookup(k) \/ slugLoop(k) \/ createTenant(k) \/ linkApplication(k)

Decide(k) ==
  \/ \E a \in Applications : approve(k, a) \/ reject(k, a)
  \/ findExisting(k) \/ approveWrite(k) \/ invite(k) \/ rejectWrite(k)

Others ==
  \/ \E a \in Applications : createTypeformInquiry(a)
  \/ \E o \in Slugs, status \in Administered : setTenantStatus(o, status)
  \/ \E e \in Emails : register(e) \/ requestPasswordReset(e)

Works ==
  \/ Others
  \/ \E k \in Calls : Submit(k) \/ Decide(k) \/ resetWrite(k) \/ Fail(k)
  \/ \E k \in Calls, e \in Emails : resetPassword(k, e)

Submitting(k, a) ==
  (At(k, "slug") \/ At(k, "create") \/ At(k, "link")) /\ InquiryOf(call[k].response) = a
Resetting(k, n) == At(k, "reset") /\ call[k].token = n
ReadOf(k) == IF At(k, "idle") \/ At(k, "reset") THEN {}
             ELSE IF "application" \in DOMAIN call[k] THEN {call[k].application}
             ELSE {InquiryOf(call[k].response)}

Records ==
  /\ crossed' = crossed \cup
       {a \in Applications : \E k, j \in Calls : k # j /\ (Submitting(k, a) /\ Submitting(j, a))'}
  /\ doubled' = doubled \cup
       {n \in Tokens : \E k, j \in Calls : k # j /\ (Resetting(k, n) /\ Resetting(j, n))'}
  /\ stale' = [k \in Calls |->
       /\ call'[k] # Idle /\ call[k] # Idle
       /\ stale[k] \/ \E a \in ReadOf(k) : application'[a] # application[a]]

Next == Works /\ Records

Spec == Init /\ [][Next]_vars

-----------------------------------------------------------------------------
(* Properties. *)

\* A decided application and its organisation agree, also when reviews
\* overlap: each decision writes both.  Except that an administrator may write
\* the organisation, and two submissions of one inquiry that overlap may put
\* another in its place.
DecisionsAgree ==
  \A a \in Applications \ crossed :
    LET o == application[a].slug IN
    o # None /\ o \notin managed =>
      /\ application[a].status = "SUBMITTED" => organisation[o] = "PENDING"
      /\ application[a].status = "APPROVED" => organisation[o] = "TRIAL"
      /\ application[a].status = "REJECTED" => organisation[o] = "SUSPENDED"

\* An inquiry leaves no organisation behind that nobody can review, however
\* often its forms come, unless the handler failed between the organisation
\* and the application, or two submissions overlapped.
NoOrphans ==
  crossed = {} =>
    \A o \in Slugs \ cut :
      organisation[o] # "none" =>
        \/ \E a \in Applications : application[a].slug = o
        \/ \E k \in Calls : At(k, "link") /\ call[k].slug = o

\* Whoever is approved can come in: his address has an account, and unless it
\* belongs to another organisation he was, or is being, sent a token - or the
\* handler failed before it sent one.
ApprovedCanEnter ==
  \A a \in Applications \ crossed :
    application[a].status = "APPROVED" =>
      LET e == application[a].email  o == application[a].slug IN
      /\ account[e] # NoAccount
      /\ account[e].org = o =>
           e \in invited \/ o \in cut \/ \E k \in Calls : At(k, "invite") /\ call[k].email = e

\* A token sets a password once, unless two uses of it overlap.
TokenUsedOnce == \A n \in Tokens \ doubled : uses[n] <= 1

\* What was decided stays decided, unless by a review, or a submission, that
\* read the application before it was.
DecidedOnce ==
  [][\A a \in Applications :
       /\ application[a].status \in {"APPROVED", "REJECTED"}
       /\ application'[a] # application[a]
       => \E k \in Calls : a \in ReadOf(k) /\ stale[k]]_vars
=============================================================================
