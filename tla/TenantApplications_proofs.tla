---------------------- MODULE TenantApplications_proofs ----------------------
(***************************************************************************)
(* Proofs about TenantApplications, for any number of applications, forms, *)
(* addresses, tokens and handlers in flight.                               *)
(*                                                                         *)
(* A handler works with what it read awaits ago.  What makes that safe is  *)
(* that a slug belongs to one application for ever (OwnSlugs), that as     *)
(* long as no two submissions of an inquiry have overlapped a review holds *)
(* what the row says (Current), and that an account stays with the         *)
(* organisation it has (KnownAccounts).                                    *)
(***************************************************************************)
EXTENDS TenantApplications, TLAPS

Reviewing(k) == call[k].op \in {"existing", "decide", "refuse", "invite"}
SubmittingSome(k) == call[k].op \in {"slug", "create", "link"}
Inquired(k) == InquiryOf(call[k].response)
Decided(a) == application[a].status \in {"APPROVED", "REJECTED"}

\* An application that has been submitted has its organisation and its address.
RowsComplete ==
  /\ \A a \in Applications :
       /\ application[a].slug # None => application[a].email # None
       /\ application[a].status \in {"SUBMITTED", "APPROVED", "REJECTED"}
          => application[a].slug # None
  /\ \A k \in Calls : Reviewing(k) => application[call[k].application].slug # None
  /\ \A e \in Emails : account[e].org = None => account[e].token = None

TInv == TypeOK /\ RowsComplete

\* Two submissions of one inquiry, or two uses of one token, are on record.
Overlaps ==
  /\ \A k, j \in Calls, a \in Applications :
       k # j /\ Submitting(k, a) /\ Submitting(j, a) => a \in crossed
  /\ \A k, j \in Calls, n \in Tokens :
       k # j /\ Resetting(k, n) /\ Resetting(j, n) => n \in doubled

\* A slug is of one application, or of one submission that is about to link it.
OwnSlugs ==
  /\ \A a \in Applications : application[a].slug # None =>
       /\ organisation[application[a].slug] # "none"
       /\ \A b \in Applications : application[b].slug = application[a].slug => b = a
  /\ \A k \in Calls : Reviewing(k) =>
       /\ organisation[call[k].slug] # "none"
       /\ \A a \in Applications :
            application[a].slug = call[k].slug => a = call[k].application
  /\ \A k \in Calls : At(k, "link") =>
       /\ organisation[call[k].slug] = "PENDING" \/ call[k].slug \in managed
       /\ organisation[call[k].slug] # "none"
       /\ \A a \in Applications : application[a].slug # call[k].slug
       /\ \A j \in Calls \ {k} :
            At(j, "link") \/ Reviewing(j) => call[j].slug # call[k].slug

\* Unless two submissions overlapped, one in flight finds its inquiry without
\* an answer, and a review has the slug and the address of the row.
Current ==
  /\ \A k \in Calls : SubmittingSome(k) /\ Inquired(k) \notin crossed =>
       application[Inquired(k)].slug = None
  /\ \A k \in Calls : Reviewing(k) /\ call[k].application \notin crossed =>
       /\ application[call[k].application].slug = call[k].slug
       /\ application[call[k].application].email = call[k].email

\* An account that a review has found, or opened, is still there.
KnownAccounts ==
  \A k \in Calls :
    /\ At(k, "decide") /\ call[k].existing # None =>
         account[call[k].email].org = call[k].existing
    /\ At(k, "invite") => account[call[k].email].org = call[k].slug

\* A token that was used is nobody's, and one that was not is one person's.
OwnTokens ==
  /\ \A n \in Tokens : n \notin issued =>
       /\ uses[n] = 0
       /\ \A e \in Emails : account[e].token # n
       /\ \A k \in Calls : ~Resetting(k, n)
  /\ \A n \in Tokens \ doubled : uses[n] # 0 =>
       /\ \A e \in Emails : account[e].token # n
       /\ \A k \in Calls : ~Resetting(k, n)
  /\ \A d, e \in Emails : account[d].token # None /\ account[d].token = account[e].token => d = e
  /\ \A k \in Calls, e \in Emails :
       At(k, "reset") /\ account[e].token = call[k].token => e = call[k].email

\* A handler whose reading is not out of date relies on what it tested.
Fresh ==
  \A k \in Calls : ~stale[k] =>
    /\ SubmittingSome(k) => application[Inquired(k)].slug = None
    /\ call[k].op \in {"existing", "decide", "refuse"} =>
         application[call[k].application].status = "SUBMITTED"

-----------------------------------------------------------------------------
(* Types. *)

LEMMA Markers ==
  /\ None \notin Slugs /\ None \notin Emails /\ None \notin Tokens
  /\ None # Elsewhere /\ Elsewhere \notin Slugs
  BY NoneIsNothing DEF Slugs

Memory == Submission \cup Review \cup Reset \cup {Idle}

LEMMA WorksCases ==
  ASSUME Works, NEW G,
         \A a \in Applications : createTypeformInquiry(a) => G,
         \A o \in Slugs, status \in Administered : setTenantStatus(o, status) => G,
         \A e \in Emails : register(e) => G,
         \A e \in Emails : requestPasswordReset(e) => G,
         \A k \in Calls, p \in Responses : handlePayload(k, p) => G,
         \A k \in Calls : lookup(k) => G,
         \A k \in Calls : slugLoop(k) => G,
         \A k \in Calls : createTenant(k) => G,
         \A k \in Calls : linkApplication(k) => G,
         \A k \in Calls, a \in Applications : approve(k, a) => G,
         \A k \in Calls, a \in Applications : reject(k, a) => G,
         \A k \in Calls : findExisting(k) => G,
         \A k \in Calls : approveWrite(k) => G,
         \A k \in Calls : invite(k) => G,
         \A k \in Calls : rejectWrite(k) => G,
         \A k \in Calls, e \in Emails : resetPassword(k, e) => G,
         \A k \in Calls : resetWrite(k) => G,
         \A k \in Calls : Fail(k) => G
  PROVE  G
  BY DEF Works, Others, Submit, Decide

\* What each kind of handler remembers.
LEMMA Remembered ==
  ASSUME TypeOK, NEW k \in Calls
  PROVE  /\ call[k].op \in {"idle", "lookup", "slug", "create", "link", "existing",
                            "refuse", "invite", "decide", "reset"}
         /\ At(k, "idle") => call[k] = Idle
         /\ At(k, "lookup") \/ At(k, "slug") => call[k] \in [op : {"lookup", "slug"}, response : Responses]
         /\ At(k, "create") \/ At(k, "link") =>
              call[k] \in [op : {"create", "link"}, response : Responses, slug : Slugs]
         /\ At(k, "existing") \/ At(k, "refuse") \/ At(k, "invite") =>
              call[k] \in [op : {"existing", "refuse", "invite"}, application : Applications,
                           slug : Slugs, email : Emails]
         /\ At(k, "decide") =>
              call[k] \in [op : {"decide"}, application : Applications, slug : Slugs,
                           email : Emails, existing : Slugs \cup {Elsewhere, None}]
         /\ At(k, "reset") => call[k] \in Reset
<1>1. call[k] \in Memory BY DEF TypeOK, Memory
<1> QED BY <1>1 DEF Memory, Submission, Review, Reset, Idle, At

LEMMA RememberedFields ==
  ASSUME TypeOK, NEW k \in Calls
  PROVE  /\ SubmittingSome(k) \/ At(k, "lookup") =>
              call[k].response \in Responses /\ Inquired(k) \in Applications
         /\ At(k, "create") \/ At(k, "link") => call[k].slug \in Slugs
         /\ Reviewing(k) =>
              /\ call[k].application \in Applications
              /\ call[k].slug \in Slugs /\ call[k].email \in Emails
         /\ At(k, "decide") => call[k].existing \in Slugs \cup {Elsewhere, None}
         /\ At(k, "reset") => call[k].email \in Emails /\ call[k].token \in Tokens
  BY Remembered, Addressed DEF SubmittingSome, Reviewing, At, Inquired, Reset

LEMMA RecordsTyped ==
  ASSUME TypeOK, Records
  PROVE  /\ crossed' \subseteq Applications
         /\ doubled' \subseteq Tokens
         /\ stale' \in [Calls -> BOOLEAN]
         /\ crossed \subseteq crossed' /\ doubled \subseteq doubled'
  BY DEF TypeOK, Records

LEMMA TypeStep ==
  ASSUME TInv, Works, Records
  PROVE  TypeOK'
<1> USE NoneIsNothing, RecordsTyped DEF TInv, tables, history
<1> TypeOK /\ RowsComplete OBVIOUS
<1> DEFINE T == /\ application' \in [Applications -> ApplicationRow]
                /\ organisation' \in [Slugs -> OrganisationStatus]
                /\ account' \in [Emails -> Account]
                /\ call' \in [Calls -> Memory]
                /\ issued' \subseteq Tokens
                /\ uses' \in [Tokens -> 0..2]
                /\ invited' \subseteq Emails
                /\ cut' \subseteq Slugs
                /\ managed' \subseteq Slugs
<1>1. T => TypeOK'
  BY DEF TypeOK, Memory
<1>2. call \in [Calls -> Memory]
  BY DEF TypeOK, Memory
<1>3. ASSUME NEW a \in Applications, createTypeformInquiry(a) PROVE T
  BY <1>2, <1>3 DEF createTypeformInquiry, TypeOK, ApplicationRow
<1>4. ASSUME NEW o \in Slugs, NEW status \in Administered, setTenantStatus(o, status)
      PROVE  T
  BY <1>2, <1>4, StatusesKnown DEF setTenantStatus, TypeOK, OrganisationStatus
<1>5. ASSUME NEW e \in Emails, register(e) PROVE T
  BY <1>2, <1>5 DEF register, TypeOK, Account
<1>6. ASSUME NEW e \in Emails, requestPasswordReset(e) PROVE T
  BY <1>2, <1>6 DEF requestPasswordReset, Issue, TypeOK, Account
<1>7. ASSUME NEW k \in Calls, NEW p \in Responses, handlePayload(k, p) PROVE T
  BY <1>2, <1>7 DEF handlePayload, Begin, TypeOK, Memory, Submission
<1>8. ASSUME NEW k \in Calls, lookup(k) PROVE T
  BY <1>2, <1>8, Remembered DEF lookup, Go, Finish, At, TypeOK, Memory, Submission
<1>9. ASSUME NEW k \in Calls, slugLoop(k) PROVE T
  BY <1>2, <1>9, Remembered DEF slugLoop, Go, At, TypeOK, Memory, Submission
<1>10. ASSUME NEW k \in Calls, createTenant(k) PROVE T
  BY <1>2, <1>10, Remembered
  DEF createTenant, Go, Finish, At, TypeOK, Memory, Submission, OrganisationStatus
<1>11. ASSUME NEW k \in Calls, linkApplication(k) PROVE T
  BY <1>2, <1>11, Remembered, Addressed
  DEF linkApplication, Go, Finish, At, TypeOK, Memory, ApplicationRow
<1>12. ASSUME NEW k \in Calls, NEW a \in Applications, approve(k, a) PROVE T
  BY <1>2, <1>12
  DEF approve, Read, Begin, TypeOK, Memory, Review, RowsComplete, ApplicationRow
<1>13. ASSUME NEW k \in Calls, NEW a \in Applications, reject(k, a) PROVE T
  BY <1>2, <1>13
  DEF reject, Read, Begin, TypeOK, Memory, Review, RowsComplete, ApplicationRow
<1>14. ASSUME NEW k \in Calls, findExisting(k) PROVE T
  BY <1>2, <1>14, Remembered DEF findExisting, Go, At, TypeOK, Memory, Review, Account
<1>15. ASSUME NEW k \in Calls, approveWrite(k) PROVE T
  <2>1. call[k].application \in Applications /\ call[k].slug \in Slugs /\ call[k].email \in Emails
    BY <1>15, RememberedFields DEF approveWrite, At, Reviewing
  <2>2. call' \in [Calls -> Memory]
    BY <1>2, <1>15, <2>1 DEF approveWrite, Go, Finish, Memory, Review
  <2>3. /\ application' \in [Applications -> ApplicationRow]
        /\ organisation' \in [Slugs -> OrganisationStatus]
        /\ account' \in [Emails -> Account]
    <3>1. CASE UNCHANGED tables
      BY <3>1 DEF TypeOK
    <3>2. CASE Approval(k)
      <4>1. application' \in [Applications -> ApplicationRow]
        <5>1. [application[call[k].application] EXCEPT !.status = "APPROVED"] \in ApplicationRow
          BY <2>1 DEF TypeOK, ApplicationRow
        <5>2. application' = [application EXCEPT ![call[k].application].status = "APPROVED"]
          BY <3>2 DEF Approval
        <5> QED BY <2>1, <5>1, <5>2 DEF TypeOK
      <4>2. organisation' \in [Slugs -> OrganisationStatus]
        BY <3>2, <2>1 DEF Approval, TypeOK, OrganisationStatus
      <4>3. account' \in [Emails -> Account]
        BY <3>2, <2>1 DEF Approval, TypeOK, Account
      <4> QED BY <4>1, <4>2, <4>3
    <3> QED BY <1>15, <3>1, <3>2 DEF approveWrite
  <2> QED BY <1>15, <2>2, <2>3 DEF approveWrite, TypeOK
<1>16. ASSUME NEW k \in Calls, invite(k) PROVE T
  <2>1. call[k].email \in Emails
    BY <1>16, RememberedFields DEF invite, At, Reviewing
  <2> QED BY <1>2, <1>16, <2>1 DEF invite, Issue, Finish, Go, Memory, TypeOK, Account
<1>17. ASSUME NEW k \in Calls, rejectWrite(k) PROVE T
  <2>1. call[k].application \in Applications /\ call[k].slug \in Slugs
    BY <1>17, RememberedFields DEF rejectWrite, At, Reviewing
  <2>2. application' \in [Applications -> ApplicationRow]
    <3>1. [application[call[k].application] EXCEPT !.status = "REJECTED"] \in ApplicationRow
      BY <2>1 DEF TypeOK, ApplicationRow
    <3>2. application' = [application EXCEPT ![call[k].application].status = "REJECTED"]
      BY <1>17 DEF rejectWrite
    <3> QED BY <2>1, <3>1, <3>2 DEF TypeOK
  <2>3. organisation' \in [Slugs -> OrganisationStatus]
    BY <1>17, <2>1 DEF rejectWrite, TypeOK, OrganisationStatus
  <2> QED BY <1>2, <1>17, <2>2, <2>3 DEF rejectWrite, Finish, Go, TypeOK, Memory
<1>18. ASSUME NEW k \in Calls, NEW e \in Emails, resetPassword(k, e) PROVE T
  BY <1>2, <1>18 DEF resetPassword, Begin, TypeOK, Memory, Reset, Account
<1>19. ASSUME NEW k \in Calls, resetWrite(k) PROVE T
  <2>1. call[k].email \in Emails /\ call[k].token \in Tokens
    BY <1>19, RememberedFields DEF resetWrite
  <2> QED BY <1>2, <1>19, <2>1 DEF resetWrite, Spend, Finish, Go, Memory, TypeOK, Account
<1>20. ASSUME NEW k \in Calls, Fail(k) PROVE T
  <2>1. At(k, "link") \/ At(k, "invite") => call[k].slug \in Slugs
    BY RememberedFields DEF At, Reviewing
  <2> QED BY <1>2, <1>20, <2>1 DEF Fail, Finish, Go, Memory, TypeOK
<1> HIDE DEF T
<1>21. T
  BY <1>3, <1>4, <1>5, <1>6, <1>7, <1>8, <1>9, <1>10, <1>11, <1>12, <1>13, <1>14, <1>15,
     <1>16, <1>17, <1>18, <1>19, <1>20, WorksCases, Zenon
<1> QED BY <1>1, <1>21

-----------------------------------------------------------------------------
(* What the handlers that choose between two continuations do. *)

Turns(k, m) == call' \in [Calls -> Memory] /\ call'[k] = m /\ \A j \in Calls \ {k} : call'[j] = call[j]

LooksUp(k) ==
  /\ At(k, "lookup")
  /\ \/ Turns(k, Idle)
     \/ /\ Turns(k, [op |-> "slug", response |-> call[k].response])
        /\ application[Inquired(k)].slug = None
  /\ UNCHANGED <<tables, issued, history>>

Creates(k) ==
  /\ At(k, "create")
  /\ \/ Turns(k, Idle) /\ UNCHANGED organisation
     \/ /\ Turns(k, [op |-> "link", response |-> call[k].response, slug |-> call[k].slug])
        /\ organisation[call[k].slug] = "none"
        /\ organisation' = [organisation EXCEPT ![call[k].slug] = "PENDING"]
  /\ UNCHANGED <<application, account, issued, history>>

Approves(k) ==
  /\ At(k, "decide")
  /\ \/ Turns(k, Idle) /\ UNCHANGED tables
     \/ /\ ~Taken(k) /\ Approval(k)
        /\ \/ Turns(k, Idle) /\ UsedElsewhere(k)
           \/ /\ Turns(k, [op |-> "invite", application |-> call[k].application,
                           slug |-> call[k].slug, email |-> call[k].email])
              /\ ~UsedElsewhere(k)
  /\ UNCHANGED <<issued, history>>

LEMMA Continuations ==
  ASSUME TypeOK, NEW k \in Calls
  PROVE  /\ lookup(k) => LooksUp(k)
         /\ createTenant(k) => Creates(k)
         /\ approveWrite(k) => Approves(k)
<1> call \in [Calls -> Memory] BY DEF TypeOK, Memory
<1> USE RememberedFields DEF Go, Finish
<1>1. ASSUME NEW m \in Memory, Go(k, m) PROVE Turns(k, m)
  BY <1>1 DEF Turns
<1>2. Idle \in Memory BY DEF Memory
<1>3. At(k, "lookup") =>
        /\ [call[k] EXCEPT !.op = "slug"] = [op |-> "slug", response |-> call[k].response]
        /\ [op |-> "slug", response |-> call[k].response] \in Memory
  BY Remembered DEF At, Memory, Submission
<1>4. At(k, "create") =>
        /\ [call[k] EXCEPT !.op = "link"] =
             [op |-> "link", response |-> call[k].response, slug |-> call[k].slug]
        /\ [op |-> "link", response |-> call[k].response, slug |-> call[k].slug] \in Memory
  BY Remembered DEF At, Memory, Submission
<1>5. At(k, "decide") =>
        [op |-> "invite", application |-> call[k].application,
         slug |-> call[k].slug, email |-> call[k].email] \in Memory
  BY Remembered DEF At, Memory, Review
<1>6. lookup(k) => LooksUp(k)
  BY <1>1, <1>2, <1>3 DEF lookup, LooksUp, Unanswered, Inquired
<1>7. createTenant(k) => Creates(k)
  BY <1>1, <1>2, <1>4 DEF createTenant, Creates
<1>8. approveWrite(k) => Approves(k)
  BY <1>1, <1>2, <1>5 DEF approveWrite, Approves
<1> QED BY <1>6, <1>7, <1>8

LEMMA StepCases ==
  ASSUME TypeOK, Works, NEW G,
         \A a \in Applications : createTypeformInquiry(a) => G,
         \A o \in Slugs, status \in Administered : setTenantStatus(o, status) => G,
         \A e \in Emails : register(e) => G,
         \A e \in Emails : requestPasswordReset(e) => G,
         \A k \in Calls, p \in Responses : handlePayload(k, p) => G,
         \A k \in Calls : LooksUp(k) => G,
         \A k \in Calls : slugLoop(k) => G,
         \A k \in Calls : Creates(k) => G,
         \A k \in Calls : linkApplication(k) => G,
         \A k \in Calls, a \in Applications : approve(k, a) => G,
         \A k \in Calls, a \in Applications : reject(k, a) => G,
         \A k \in Calls : findExisting(k) => G,
         \A k \in Calls : Approves(k) => G,
         \A k \in Calls : invite(k) => G,
         \A k \in Calls : rejectWrite(k) => G,
         \A k \in Calls, e \in Emails : resetPassword(k, e) => G,
         \A k \in Calls : resetWrite(k) => G,
         \A k \in Calls : Fail(k) => G
  PROVE  G
  BY WorksCases, Continuations, Zenon

\* An account without an organisation is none.
LEMMA WithoutOrganisation ==
  ASSUME TInv, NEW e \in Emails
  PROVE  account[e] = NoAccount <=> account[e].org = None
  BY DEF TInv, TypeOK, RowsComplete, Account, NoAccount

-----------------------------------------------------------------------------
(* Each part of the invariant, step by step. *)

\* A submitted application keeps its organisation and its address.
LEMMA RowsStep ==
  ASSUME TInv, Works, Records
  PROVE  RowsComplete'
<1> USE Markers DEF TInv, tables, history
<1>1. ASSUME NEW a \in Applications, createTypeformInquiry(a) PROVE RowsComplete'
  BY <1>1, RememberedFields
  DEF createTypeformInquiry, At, TypeOK, ApplicationRow, Account, RowsComplete,
      Reviewing, Idle
<1>2. ASSUME NEW o \in Slugs, NEW status \in Administered, setTenantStatus(o, status)
      PROVE  RowsComplete'
  BY <1>2, RememberedFields
  DEF setTenantStatus, At, TypeOK, ApplicationRow, Account, RowsComplete, Reviewing,
      Idle
<1>3. ASSUME NEW e \in Emails, register(e) PROVE RowsComplete'
  BY <1>3, RememberedFields, WithoutOrganisation
  DEF register, At, TypeOK, ApplicationRow, Account, RowsComplete, Reviewing, Idle
<1>4. ASSUME NEW e \in Emails, requestPasswordReset(e) PROVE RowsComplete'
  BY <1>4, RememberedFields, WithoutOrganisation
  DEF requestPasswordReset, Issue, At, TypeOK, ApplicationRow, Account, RowsComplete,
      Reviewing, Idle
<1>5. ASSUME NEW k \in Calls, NEW p \in Responses, handlePayload(k, p) PROVE RowsComplete'
  BY <1>5, RememberedFields
  DEF handlePayload, Begin, At, TypeOK, ApplicationRow, Account, RowsComplete,
      Reviewing, Idle
<1>6. ASSUME NEW k \in Calls, LooksUp(k) PROVE RowsComplete'
  BY <1>6, RememberedFields
  DEF LooksUp, Turns, At, TypeOK, ApplicationRow, Account, RowsComplete, Reviewing, Idle
<1>7. ASSUME NEW k \in Calls, slugLoop(k) PROVE RowsComplete'
  BY <1>7, RememberedFields
  DEF slugLoop, Go, At, TypeOK, ApplicationRow, Account, RowsComplete, Reviewing, Idle
<1>8. ASSUME NEW k \in Calls, Creates(k) PROVE RowsComplete'
  BY <1>8, RememberedFields
  DEF Creates, Turns, At, TypeOK, ApplicationRow, Account, RowsComplete, Reviewing, Idle
<1>9. ASSUME NEW k \in Calls, linkApplication(k) PROVE RowsComplete'
  <2>1. call[k].slug \in Slugs /\ EmailOf(call[k].response) \in Emails /\ Inquired(k) \in Applications
    BY <1>9, RememberedFields, Addressed DEF linkApplication, SubmittingSome, At
  <2>2. \A a \in Applications :
          /\ application'[a].slug # None => application'[a].email # None
          /\ application'[a].status \in {"SUBMITTED", "APPROVED", "REJECTED"}
             => application'[a].slug # None
          /\ application[a].slug # None => application'[a].slug # None
    <3> SUFFICES ASSUME NEW a \in Applications
                 PROVE  /\ application'[a].slug # None => application'[a].email # None
                        /\ application'[a].status \in {"SUBMITTED", "APPROVED", "REJECTED"}
                           => application'[a].slug # None
                        /\ application[a].slug # None => application'[a].slug # None
      OBVIOUS
    <3>1. CASE a = Inquired(k)
      <4>1. /\ application'[a].slug = call[k].slug
            /\ application'[a].email = EmailOf(call[k].response)
        BY <1>9, <2>1, <3>1 DEF linkApplication, TypeOK, Inquired
      <4> QED BY <2>1, <4>1
    <3>2. CASE a # Inquired(k)
      <4>1. application'[a] = application[a]
        BY <1>9, <2>1, <3>2 DEF linkApplication, TypeOK, Inquired
      <4> QED BY <4>1 DEF RowsComplete
    <3> QED BY <3>1, <3>2
  <2>3. \A j \in Calls : Reviewing(j)' => Reviewing(j) /\ call'[j] = call[j]
    BY <1>9 DEF linkApplication, Finish, Go, TypeOK, Reviewing, Idle
  <2>4. UNCHANGED account
    BY <1>9 DEF linkApplication
  <2> QED BY <2>2, <2>3, <2>4, RememberedFields DEF RowsComplete
<1>10. ASSUME NEW k \in Calls, NEW a \in Applications, approve(k, a) PROVE RowsComplete'
  BY <1>10, RememberedFields
  DEF approve, Pending, Read, Begin, At, TypeOK, ApplicationRow, Account, RowsComplete,
      Reviewing, Idle
<1>11. ASSUME NEW k \in Calls, NEW a \in Applications, reject(k, a) PROVE RowsComplete'
  BY <1>11, RememberedFields
  DEF reject, Pending, Read, Begin, At, TypeOK, ApplicationRow, Account, RowsComplete,
      Reviewing, Idle
<1>12. ASSUME NEW k \in Calls, findExisting(k) PROVE RowsComplete'
  BY <1>12, RememberedFields
  DEF findExisting, Go, At, TypeOK, ApplicationRow, Account, RowsComplete, Reviewing,
      Idle
<1>13. ASSUME NEW k \in Calls, Approves(k) PROVE RowsComplete'
  <2>1. call[k].slug \in Slugs /\ call[k].email \in Emails /\ call[k].application \in Applications
    BY <1>13, RememberedFields DEF Approves, At, Reviewing
  <2>2. \A a \in Applications :
          /\ application'[a].slug = application[a].slug
          /\ application'[a].email = application[a].email
          /\ application'[a].status # application[a].status => a = call[k].application
    BY <1>13, <2>1 DEF Approves, Approval, TypeOK, ApplicationRow
  <2>3. \A e \in Emails : account'[e].org = None => account'[e].token = None
    BY <1>13, <2>1 DEF Approves, Approval, TypeOK, RowsComplete, Account
  <2>4. \A j \in Calls : Reviewing(j)' =>
          Reviewing(j) /\ call'[j].application = call[j].application
    BY <1>13 DEF Approves, Turns, At, TypeOK, Reviewing, Idle
  <2>5. application[call[k].application].slug # None
    BY <1>13 DEF Approves, At, Reviewing, RowsComplete
  <2> QED BY <2>2, <2>3, <2>4, <2>5, RememberedFields DEF RowsComplete
<1>14. ASSUME NEW k \in Calls, invite(k) PROVE RowsComplete'
  BY <1>14, RememberedFields, WithoutOrganisation
  DEF invite, Issue, Go, Finish, At, TypeOK, ApplicationRow, Account, RowsComplete,
      Reviewing, Idle
<1>15. ASSUME NEW k \in Calls, rejectWrite(k) PROVE RowsComplete'
  BY <1>15, RememberedFields
  DEF rejectWrite, Go, Finish, At, TypeOK, ApplicationRow, Account, RowsComplete,
      Reviewing, Idle
<1>16. ASSUME NEW k \in Calls, NEW e \in Emails, resetPassword(k, e) PROVE RowsComplete'
  BY <1>16, RememberedFields
  DEF resetPassword, Begin, At, TypeOK, ApplicationRow, Account, RowsComplete,
      Reviewing, Idle
<1>17. ASSUME NEW k \in Calls, resetWrite(k) PROVE RowsComplete'
  BY <1>17, RememberedFields
  DEF resetWrite, Spend, Go, Finish, At, TypeOK, ApplicationRow, Account, RowsComplete,
      Reviewing, Idle
<1>18. ASSUME NEW k \in Calls, Fail(k) PROVE RowsComplete'
  BY <1>18, RememberedFields
  DEF Fail, Go, Finish, At, TypeOK, ApplicationRow, Account, RowsComplete, Reviewing,
      Idle
<1> QED
  BY <1>1, <1>2, <1>3, <1>4, <1>5, <1>6, <1>7, <1>8, <1>9, <1>10, <1>11, <1>12, <1>13,
     <1>14, <1>15, <1>16, <1>17, <1>18, StepCases, Zenon

\* A slug stays with its application: createTenant takes only one that is free.
LEMMA OwnSlugsStep ==
  ASSUME TInv, OwnSlugs, Current, Overlaps, Works, Records
  PROVE  OwnSlugs'
<1> USE Markers DEF TInv, tables, history
<1>1. ASSUME NEW a \in Applications, createTypeformInquiry(a) PROVE OwnSlugs'
  BY <1>1, RememberedFields
  DEF createTypeformInquiry, At, TypeOK, ApplicationRow, RowsComplete, OwnSlugs,
      Reviewing, Idle
<1>2. ASSUME NEW o \in Slugs, NEW status \in Administered, setTenantStatus(o, status)
      PROVE  OwnSlugs'
  <2>1. /\ UNCHANGED <<application, call>>
        /\ \A q \in Slugs : organisation[q] # "none" => organisation'[q] # "none"
        /\ \A q \in Slugs : organisation'[q] # organisation[q] => q \in managed'
        /\ managed \subseteq managed'
    BY <1>2, StatusesKnown DEF setTenantStatus, TypeOK
  <2> QED BY <2>1, RememberedFields DEF OwnSlugs, TypeOK, ApplicationRow, Reviewing, At
<1>3. ASSUME NEW e \in Emails, register(e) PROVE OwnSlugs'
  BY <1>3, RememberedFields, WithoutOrganisation
  DEF register, At, TypeOK, ApplicationRow, RowsComplete, OwnSlugs, Reviewing, Idle
<1>4. ASSUME NEW e \in Emails, requestPasswordReset(e) PROVE OwnSlugs'
  BY <1>4, RememberedFields, WithoutOrganisation
  DEF requestPasswordReset, Issue, At, TypeOK, ApplicationRow, RowsComplete, OwnSlugs,
      Reviewing, Idle
<1>5. ASSUME NEW k \in Calls, NEW p \in Responses, handlePayload(k, p) PROVE OwnSlugs'
  BY <1>5, RememberedFields
  DEF handlePayload, Begin, At, TypeOK, ApplicationRow, RowsComplete, OwnSlugs,
      Reviewing, Idle
<1>6. ASSUME NEW k \in Calls, LooksUp(k) PROVE OwnSlugs'
  <2>1. /\ UNCHANGED <<application, organisation, managed>>
        /\ \A j \in Calls \ {k} : call'[j] = call[j]
        /\ ~Reviewing(k)' /\ ~At(k, "link")'
    BY <1>6 DEF LooksUp, Turns, At, Reviewing, Idle
  <2> QED BY <2>1 DEF OwnSlugs, Reviewing, At
<1>7. ASSUME NEW k \in Calls, slugLoop(k) PROVE OwnSlugs'
  BY <1>7, RememberedFields
  DEF slugLoop, Go, At, TypeOK, ApplicationRow, RowsComplete, OwnSlugs, Reviewing, Idle
<1>8. ASSUME NEW k \in Calls, Creates(k) PROVE OwnSlugs'
  <2>1. CASE Turns(k, Idle) /\ UNCHANGED organisation
    BY <1>8, <2>1 DEF Creates, Turns, At, OwnSlugs, Reviewing, Idle
  <2>2. CASE /\ Turns(k, [op |-> "link", response |-> call[k].response, slug |-> call[k].slug])
             /\ organisation[call[k].slug] = "none"
             /\ organisation' = [organisation EXCEPT ![call[k].slug] = "PENDING"]
    <3> DEFINE o == call[k].slug
    <3>1. o \in Slugs
      BY <1>8, RememberedFields DEF Creates
    <3>2. /\ UNCHANGED <<application, managed>>
          /\ organisation'[o] = "PENDING" /\ \A q \in Slugs \ {o} : organisation'[q] = organisation[q]
          /\ \A a \in Applications : application[a].slug # o
          /\ \A j \in Calls : Reviewing(j) \/ At(j, "link") => call[j].slug # o
      <4>1. /\ UNCHANGED <<application, managed>>
            /\ organisation'[o] = "PENDING" /\ \A q \in Slugs \ {o} : organisation'[q] = organisation[q]
        BY <1>8, <2>2, <3>1 DEF Creates, TypeOK
      <4>2. /\ \A a \in Applications : application[a].slug # o
            /\ \A j \in Calls : Reviewing(j) \/ At(j, "link") => call[j].slug # o
        BY <2>2, <3>1 DEF OwnSlugs
      <4> QED BY <4>1, <4>2
    <3>3. /\ \A j \in Calls \ {k} : call'[j] = call[j]
          /\ call'[k].op = "link" /\ call'[k].slug = o
      BY <2>2 DEF Turns
    <3>4. \A a \in Applications : application[a].slug # None => application[a].slug \in Slugs
      BY DEF TypeOK, ApplicationRow
    <3> QED BY <3>2, <3>3, <3>4, RememberedFields DEF OwnSlugs, Reviewing, At
  <2> QED BY <1>8, <2>1, <2>2 DEF Creates
<1>9. ASSUME NEW k \in Calls, linkApplication(k) PROVE OwnSlugs'
  BY <1>9, RememberedFields
  DEF linkApplication, Go, Finish, At, TypeOK, ApplicationRow, RowsComplete, OwnSlugs,
      Reviewing, Idle
<1>10. ASSUME NEW k \in Calls, NEW a \in Applications, approve(k, a) PROVE OwnSlugs'
  BY <1>10, RememberedFields
  DEF approve, Pending, Read, Begin, At, TypeOK, ApplicationRow, RowsComplete, OwnSlugs,
      Reviewing, Idle
<1>11. ASSUME NEW k \in Calls, NEW a \in Applications, reject(k, a) PROVE OwnSlugs'
  BY <1>11, RememberedFields
  DEF reject, Pending, Read, Begin, At, TypeOK, ApplicationRow, RowsComplete, OwnSlugs,
      Reviewing, Idle
<1>12. ASSUME NEW k \in Calls, findExisting(k) PROVE OwnSlugs'
  BY <1>12, RememberedFields
  DEF findExisting, Go, At, TypeOK, ApplicationRow, RowsComplete, OwnSlugs, Reviewing,
      Idle
<1>13. ASSUME NEW k \in Calls, Approves(k) PROVE OwnSlugs'
  <2>1. call[k].slug \in Slugs /\ call[k].application \in Applications /\ At(k, "decide")
    BY <1>13, RememberedFields DEF Approves, At, Reviewing
  <2>2. \A a \in Applications : application'[a].slug = application[a].slug
    BY <1>13, <2>1 DEF Approves, Approval, TypeOK, ApplicationRow
  <2>3. /\ UNCHANGED managed
        /\ \A q \in Slugs : organisation[q] # "none" => organisation'[q] # "none"
        /\ \A q \in Slugs \ {call[k].slug} : organisation'[q] = organisation[q]
    BY <1>13, <2>1 DEF Approves, Approval, TypeOK
  <2>4. /\ \A j \in Calls \ {k} : call'[j] = call[j]
        /\ ~At(k, "link")'
        /\ Reviewing(k)' =>
             call'[k].application = call[k].application /\ call'[k].slug = call[k].slug
    BY <1>13 DEF Approves, Turns, At, Reviewing, Idle
  <2>5. \A a \in Applications : application[a].slug # None => application[a].slug \in Slugs
    BY DEF TypeOK, ApplicationRow
  <2> QED BY <2>1, <2>2, <2>3, <2>4, <2>5, RememberedFields DEF OwnSlugs, Reviewing, At
<1>14. ASSUME NEW k \in Calls, invite(k) PROVE OwnSlugs'
  BY <1>14, RememberedFields, WithoutOrganisation
  DEF invite, Issue, Go, Finish, At, TypeOK, ApplicationRow, RowsComplete, OwnSlugs,
      Reviewing, Idle
<1>15. ASSUME NEW k \in Calls, rejectWrite(k) PROVE OwnSlugs'
  BY <1>15, RememberedFields
  DEF rejectWrite, Go, Finish, At, TypeOK, ApplicationRow, RowsComplete, OwnSlugs,
      Reviewing, Idle
<1>16. ASSUME NEW k \in Calls, NEW e \in Emails, resetPassword(k, e) PROVE OwnSlugs'
  BY <1>16, RememberedFields
  DEF resetPassword, Begin, At, TypeOK, ApplicationRow, RowsComplete, OwnSlugs,
      Reviewing, Idle
<1>17. ASSUME NEW k \in Calls, resetWrite(k) PROVE OwnSlugs'
  BY <1>17, RememberedFields
  DEF resetWrite, Spend, Go, Finish, At, TypeOK, ApplicationRow, RowsComplete, OwnSlugs,
      Reviewing, Idle
<1>18. ASSUME NEW k \in Calls, Fail(k) PROVE OwnSlugs'
  BY <1>18, RememberedFields
  DEF Fail, Go, Finish, At, TypeOK, ApplicationRow, RowsComplete, OwnSlugs, Reviewing,
      Idle
<1> QED
  BY <1>1, <1>2, <1>3, <1>4, <1>5, <1>6, <1>7, <1>8, <1>9, <1>10, <1>11, <1>12, <1>13,
     <1>14, <1>15, <1>16, <1>17, <1>18, StepCases, Zenon

\* What a review has read stays so, because a second submission would overlap.
LEMMA CurrentStep ==
  ASSUME TInv, OwnSlugs, Current, Overlaps, Works, Records, crossed \subseteq crossed'
  PROVE  Current'
<1> USE Markers DEF TInv, tables, history
<1>1. ASSUME NEW a \in Applications, createTypeformInquiry(a) PROVE Current'
  BY <1>1, RememberedFields
  DEF createTypeformInquiry, At, TypeOK, ApplicationRow, RowsComplete, Current,
      Overlaps, Unanswered, Submitting, SubmittingSome, Inquired, Reviewing, Idle
<1>2. ASSUME NEW o \in Slugs, NEW status \in Administered, setTenantStatus(o, status)
      PROVE  Current'
  BY <1>2, RememberedFields
  DEF setTenantStatus, At, TypeOK, ApplicationRow, RowsComplete, Current, Overlaps,
      Unanswered, Submitting, SubmittingSome, Inquired, Reviewing, Idle
<1>3. ASSUME NEW e \in Emails, register(e) PROVE Current'
  BY <1>3, RememberedFields, WithoutOrganisation
  DEF register, At, TypeOK, ApplicationRow, RowsComplete, Current, Overlaps, Unanswered,
      Submitting, SubmittingSome, Inquired, Reviewing, Idle
<1>4. ASSUME NEW e \in Emails, requestPasswordReset(e) PROVE Current'
  BY <1>4, RememberedFields, WithoutOrganisation
  DEF requestPasswordReset, Issue, At, TypeOK, ApplicationRow, RowsComplete, Current,
      Overlaps, Unanswered, Submitting, SubmittingSome, Inquired, Reviewing, Idle
<1>5. ASSUME NEW k \in Calls, NEW p \in Responses, handlePayload(k, p) PROVE Current'
  BY <1>5, RememberedFields
  DEF handlePayload, Begin, At, TypeOK, ApplicationRow, RowsComplete, Current, Overlaps,
      Unanswered, Submitting, SubmittingSome, Inquired, Reviewing, Idle
<1>6. ASSUME NEW k \in Calls, LooksUp(k) PROVE Current'
  <2>1. /\ UNCHANGED application
        /\ \A j \in Calls \ {k} : call'[j] = call[j]
        /\ ~Reviewing(k)'
        /\ SubmittingSome(k)' =>
             Inquired(k)' = Inquired(k) /\ application[Inquired(k)].slug = None
    BY <1>6 DEF LooksUp, Turns, Reviewing, SubmittingSome, Inquired, Idle
  <2> QED BY <2>1, RememberedFields DEF Current, Reviewing, SubmittingSome, Inquired
<1>7. ASSUME NEW k \in Calls, slugLoop(k) PROVE Current'
  BY <1>7, RememberedFields
  DEF slugLoop, Go, At, TypeOK, ApplicationRow, RowsComplete, Current, Overlaps,
      Unanswered, Submitting, SubmittingSome, Inquired, Reviewing, Idle
<1>8. ASSUME NEW k \in Calls, Creates(k) PROVE Current'
  <2>1. /\ UNCHANGED application
        /\ \A j \in Calls \ {k} : call'[j] = call[j]
        /\ ~Reviewing(k)'
        /\ SubmittingSome(k)' => SubmittingSome(k) /\ Inquired(k)' = Inquired(k)
    BY <1>8 DEF Creates, Turns, At, Reviewing, SubmittingSome, Inquired, Idle
  <2> QED BY <2>1, RememberedFields DEF Current, Reviewing, SubmittingSome, Inquired
<1>9. ASSUME NEW k \in Calls, linkApplication(k) PROVE Current'
  BY <1>9, RememberedFields
  DEF linkApplication, Go, Finish, At, TypeOK, ApplicationRow, RowsComplete, Current,
      Overlaps, Unanswered, Submitting, SubmittingSome, Inquired, Reviewing, Idle
<1>10. ASSUME NEW k \in Calls, NEW a \in Applications, approve(k, a) PROVE Current'
  BY <1>10, RememberedFields
  DEF approve, Pending, Read, Begin, At, TypeOK, ApplicationRow, RowsComplete, Current,
      Overlaps, Unanswered, Submitting, SubmittingSome, Inquired, Reviewing, Idle
<1>11. ASSUME NEW k \in Calls, NEW a \in Applications, reject(k, a) PROVE Current'
  BY <1>11, RememberedFields
  DEF reject, Pending, Read, Begin, At, TypeOK, ApplicationRow, RowsComplete, Current,
      Overlaps, Unanswered, Submitting, SubmittingSome, Inquired, Reviewing, Idle
<1>12. ASSUME NEW k \in Calls, findExisting(k) PROVE Current'
  BY <1>12, RememberedFields
  DEF findExisting, Go, At, TypeOK, ApplicationRow, RowsComplete, Current, Overlaps,
      Unanswered, Submitting, SubmittingSome, Inquired, Reviewing, Idle
<1>13. ASSUME NEW k \in Calls, Approves(k) PROVE Current'
  <2>1. call[k].application \in Applications
    BY <1>13, RememberedFields DEF Approves, At, Reviewing
  <2>2. \A a \in Applications :
          application'[a].slug = application[a].slug /\ application'[a].email = application[a].email
    BY <1>13, <2>1 DEF Approves, Approval, TypeOK, ApplicationRow
  <2>3. /\ \A j \in Calls \ {k} : call'[j] = call[j]
        /\ ~SubmittingSome(k)'
        /\ Reviewing(k)' =>
             /\ Reviewing(k)
             /\ call'[k].application = call[k].application
             /\ call'[k].slug = call[k].slug /\ call'[k].email = call[k].email
    BY <1>13 DEF Approves, Turns, At, Reviewing, SubmittingSome, Idle
  <2> QED BY <2>2, <2>3, RememberedFields DEF Current, Reviewing, SubmittingSome, Inquired
<1>14. ASSUME NEW k \in Calls, invite(k) PROVE Current'
  BY <1>14, RememberedFields, WithoutOrganisation
  DEF invite, Issue, Go, Finish, At, TypeOK, ApplicationRow, RowsComplete, Current,
      Overlaps, Unanswered, Submitting, SubmittingSome, Inquired, Reviewing, Idle
<1>15. ASSUME NEW k \in Calls, rejectWrite(k) PROVE Current'
  BY <1>15, RememberedFields
  DEF rejectWrite, Go, Finish, At, TypeOK, ApplicationRow, RowsComplete, Current,
      Overlaps, Unanswered, Submitting, SubmittingSome, Inquired, Reviewing, Idle
<1>16. ASSUME NEW k \in Calls, NEW e \in Emails, resetPassword(k, e) PROVE Current'
  BY <1>16, RememberedFields
  DEF resetPassword, Begin, At, TypeOK, ApplicationRow, RowsComplete, Current, Overlaps,
      Unanswered, Submitting, SubmittingSome, Inquired, Reviewing, Idle
<1>17. ASSUME NEW k \in Calls, resetWrite(k) PROVE Current'
  BY <1>17, RememberedFields
  DEF resetWrite, Spend, Go, Finish, At, TypeOK, ApplicationRow, RowsComplete, Current,
      Overlaps, Unanswered, Submitting, SubmittingSome, Inquired, Reviewing, Idle
<1>18. ASSUME NEW k \in Calls, Fail(k) PROVE Current'
  BY <1>18, RememberedFields
  DEF Fail, Go, Finish, At, TypeOK, ApplicationRow, RowsComplete, Current, Overlaps,
      Unanswered, Submitting, SubmittingSome, Inquired, Reviewing, Idle
<1> QED
  BY <1>1, <1>2, <1>3, <1>4, <1>5, <1>6, <1>7, <1>8, <1>9, <1>10, <1>11, <1>12, <1>13,
     <1>14, <1>15, <1>16, <1>17, <1>18, StepCases, Zenon

\* No step takes an account from the organisation it has.
LEMMA KnownAccountsStep ==
  ASSUME TInv, KnownAccounts, Works, Records
  PROVE  KnownAccounts'
<1> USE Markers DEF TInv, tables, history
<1>1. ASSUME NEW a \in Applications, createTypeformInquiry(a) PROVE KnownAccounts'
  BY <1>1, RememberedFields
  DEF createTypeformInquiry, At, TypeOK, Account, RowsComplete, KnownAccounts, Opens,
      Taken, UsedElsewhere, Reviewing, Idle
<1>2. ASSUME NEW o \in Slugs, NEW status \in Administered, setTenantStatus(o, status)
      PROVE  KnownAccounts'
  BY <1>2, RememberedFields
  DEF setTenantStatus, At, TypeOK, Account, RowsComplete, KnownAccounts, Opens, Taken,
      UsedElsewhere, Reviewing, Idle
<1>3. ASSUME NEW e \in Emails, register(e) PROVE KnownAccounts'
  <2>1. /\ UNCHANGED call
        /\ \A d \in Emails : account[d].org # None => account'[d].org = account[d].org
    BY <1>3, WithoutOrganisation DEF register, TypeOK, Account
  <2>2. \A j \in Calls :
          /\ At(j, "decide") => call[j].email \in Emails
          /\ At(j, "invite") => call[j].email \in Emails /\ call[j].slug # None
    BY RememberedFields DEF Reviewing, At
  <2> QED BY <2>1, <2>2 DEF KnownAccounts, At
<1>4. ASSUME NEW e \in Emails, requestPasswordReset(e) PROVE KnownAccounts'
  BY <1>4, RememberedFields, WithoutOrganisation
  DEF requestPasswordReset, Issue, At, TypeOK, Account, RowsComplete, KnownAccounts,
      Opens, Taken, UsedElsewhere, Reviewing, Idle
<1>5. ASSUME NEW k \in Calls, NEW p \in Responses, handlePayload(k, p)
      PROVE  KnownAccounts'
  BY <1>5, RememberedFields
  DEF handlePayload, Begin, At, TypeOK, Account, RowsComplete, KnownAccounts, Opens,
      Taken, UsedElsewhere, Reviewing, Idle
<1>6. ASSUME NEW k \in Calls, LooksUp(k) PROVE KnownAccounts'
  BY <1>6, RememberedFields
  DEF LooksUp, Turns, At, TypeOK, Account, RowsComplete, KnownAccounts, Opens, Taken,
      UsedElsewhere, Reviewing, Idle
<1>7. ASSUME NEW k \in Calls, slugLoop(k) PROVE KnownAccounts'
  BY <1>7, RememberedFields
  DEF slugLoop, Go, At, TypeOK, Account, RowsComplete, KnownAccounts, Opens, Taken,
      UsedElsewhere, Reviewing, Idle
<1>8. ASSUME NEW k \in Calls, Creates(k) PROVE KnownAccounts'
  BY <1>8, RememberedFields
  DEF Creates, Turns, At, TypeOK, Account, RowsComplete, KnownAccounts, Opens, Taken,
      UsedElsewhere, Reviewing, Idle
<1>9. ASSUME NEW k \in Calls, linkApplication(k) PROVE KnownAccounts'
  BY <1>9, RememberedFields
  DEF linkApplication, Go, Finish, At, TypeOK, Account, RowsComplete, KnownAccounts,
      Opens, Taken, UsedElsewhere, Reviewing, Idle
<1>10. ASSUME NEW k \in Calls, NEW a \in Applications, approve(k, a) PROVE KnownAccounts'
  BY <1>10, RememberedFields
  DEF approve, Pending, Read, Begin, At, TypeOK, Account, RowsComplete, KnownAccounts,
      Opens, Taken, UsedElsewhere, Reviewing, Idle
<1>11. ASSUME NEW k \in Calls, NEW a \in Applications, reject(k, a) PROVE KnownAccounts'
  BY <1>11, RememberedFields
  DEF reject, Pending, Read, Begin, At, TypeOK, Account, RowsComplete, KnownAccounts,
      Opens, Taken, UsedElsewhere, Reviewing, Idle
<1>12. ASSUME NEW k \in Calls, findExisting(k) PROVE KnownAccounts'
  BY <1>12, RememberedFields
  DEF findExisting, Go, At, TypeOK, Account, RowsComplete, KnownAccounts, Opens, Taken,
      UsedElsewhere, Reviewing, Idle
<1>13. ASSUME NEW k \in Calls, Approves(k) PROVE KnownAccounts'
  <2>1. /\ call[k].slug \in Slugs /\ call[k].email \in Emails /\ At(k, "decide")
        /\ call[k].existing \in Slugs \cup {Elsewhere, None}
    BY <1>13, RememberedFields DEF Approves, At, Reviewing
  <2>2. \A d \in Emails : account[d].org # None => account'[d].org = account[d].org
    BY <1>13, <2>1, WithoutOrganisation
    DEF Approves, Approval, Opens, Taken, TypeOK, Account
  <2>3. call[k].existing # None => account[call[k].email].org = call[k].existing
    BY <2>1 DEF KnownAccounts
  <2>4. At(k, "invite")' =>
          call'[k].email = call[k].email /\ account'[call[k].email].org = call'[k].slug
    <3> SUFFICES ASSUME At(k, "invite")' 
                 PROVE  call'[k].email = call[k].email /\ account'[call[k].email].org = call'[k].slug
      OBVIOUS
    <3>1. /\ Approval(k) /\ ~UsedElsewhere(k)
          /\ call'[k].email = call[k].email /\ call'[k].slug = call[k].slug
      BY <1>13 DEF Approves, Turns, At, Idle
    <3>2. CASE Opens(k)
      BY <2>1, <3>1, <3>2 DEF Approval, TypeOK, Account
    <3>3. CASE ~Opens(k)
      BY <2>1, <2>2, <2>3, <3>1, <3>3 DEF Approval, Opens, UsedElsewhere
    <3> QED BY <3>2, <3>3
  <2>5. (\A j \in Calls \ {k} : call'[j] = call[j]) /\ ~At(k, "decide")'
    BY <1>13 DEF Approves, Turns, At, Idle
  <2>6. \A j \in Calls :
          /\ At(j, "decide") => call[j].email \in Emails
          /\ At(j, "invite") => call[j].email \in Emails /\ call[j].slug # None
    BY RememberedFields DEF Reviewing, At
  <2> QED BY <2>2, <2>4, <2>5, <2>6 DEF KnownAccounts, At
<1>14. ASSUME NEW k \in Calls, invite(k) PROVE KnownAccounts'
  BY <1>14, RememberedFields, WithoutOrganisation
  DEF invite, Issue, Go, Finish, At, TypeOK, Account, RowsComplete, KnownAccounts,
      Opens, Taken, UsedElsewhere, Reviewing, Idle
<1>15. ASSUME NEW k \in Calls, rejectWrite(k) PROVE KnownAccounts'
  BY <1>15, RememberedFields
  DEF rejectWrite, Go, Finish, At, TypeOK, Account, RowsComplete, KnownAccounts, Opens,
      Taken, UsedElsewhere, Reviewing, Idle
<1>16. ASSUME NEW k \in Calls, NEW e \in Emails, resetPassword(k, e) PROVE KnownAccounts'
  BY <1>16, RememberedFields
  DEF resetPassword, Begin, At, TypeOK, Account, RowsComplete, KnownAccounts, Opens,
      Taken, UsedElsewhere, Reviewing, Idle
<1>17. ASSUME NEW k \in Calls, resetWrite(k) PROVE KnownAccounts'
  BY <1>17, RememberedFields
  DEF resetWrite, Spend, Go, Finish, At, TypeOK, Account, RowsComplete, KnownAccounts,
      Opens, Taken, UsedElsewhere, Reviewing, Idle
<1>18. ASSUME NEW k \in Calls, Fail(k) PROVE KnownAccounts'
  BY <1>18, RememberedFields
  DEF Fail, Go, Finish, At, TypeOK, Account, RowsComplete, KnownAccounts, Opens, Taken,
      UsedElsewhere, Reviewing, Idle
<1> QED
  BY <1>1, <1>2, <1>3, <1>4, <1>5, <1>6, <1>7, <1>8, <1>9, <1>10, <1>11, <1>12, <1>13,
     <1>14, <1>15, <1>16, <1>17, <1>18, StepCases, Zenon

\* A token is issued once, and spent with its use.
LEMMA OwnTokensStep ==
  ASSUME TInv, OwnTokens, Overlaps, Works, Records, doubled \subseteq doubled'
  PROVE  OwnTokens'
<1> USE Markers DEF TInv, tables, history
<1>1. ASSUME NEW a \in Applications, createTypeformInquiry(a) PROVE OwnTokens'
  BY <1>1, RememberedFields
  DEF createTypeformInquiry, At, TypeOK, Account, RowsComplete, OwnTokens, Overlaps,
      Resetting, Reviewing, Idle
<1>2. ASSUME NEW o \in Slugs, NEW status \in Administered, setTenantStatus(o, status)
      PROVE  OwnTokens'
  BY <1>2, RememberedFields
  DEF setTenantStatus, At, TypeOK, Account, RowsComplete, OwnTokens, Overlaps,
      Resetting, Reviewing, Idle
<1>3. ASSUME NEW e \in Emails, register(e) PROVE OwnTokens'
  BY <1>3, RememberedFields, WithoutOrganisation
  DEF register, At, TypeOK, Account, RowsComplete, OwnTokens, Overlaps, Resetting,
      Reviewing, Idle
<1>4. ASSUME NEW e \in Emails, requestPasswordReset(e) PROVE OwnTokens'
  BY <1>4, RememberedFields, WithoutOrganisation
  DEF requestPasswordReset, Issue, At, TypeOK, Account, RowsComplete, OwnTokens,
      Overlaps, Resetting, Reviewing, Idle
<1>5. ASSUME NEW k \in Calls, NEW p \in Responses, handlePayload(k, p) PROVE OwnTokens'
  BY <1>5, RememberedFields
  DEF handlePayload, Begin, At, TypeOK, Account, RowsComplete, OwnTokens, Overlaps,
      Resetting, Reviewing, Idle
<1>6. ASSUME NEW k \in Calls, LooksUp(k) PROVE OwnTokens'
  <2>1. /\ UNCHANGED <<account, issued, uses>>
        /\ \A j \in Calls : At(j, "reset")' => At(j, "reset") /\ call'[j] = call[j]
    BY <1>6 DEF LooksUp, Turns, At, Idle
  <2> QED BY <2>1 DEF OwnTokens, Resetting, At
<1>7. ASSUME NEW k \in Calls, slugLoop(k) PROVE OwnTokens'
  BY <1>7, RememberedFields
  DEF slugLoop, Go, At, TypeOK, Account, RowsComplete, OwnTokens, Overlaps, Resetting,
      Reviewing, Idle
<1>8. ASSUME NEW k \in Calls, Creates(k) PROVE OwnTokens'
  <2>1. /\ UNCHANGED <<account, issued, uses>>
        /\ \A j \in Calls : At(j, "reset")' => At(j, "reset") /\ call'[j] = call[j]
    BY <1>8 DEF Creates, Turns, At, Idle
  <2> QED BY <2>1 DEF OwnTokens, Resetting, At
<1>9. ASSUME NEW k \in Calls, linkApplication(k) PROVE OwnTokens'
  BY <1>9, RememberedFields
  DEF linkApplication, Go, Finish, At, TypeOK, Account, RowsComplete, OwnTokens,
      Overlaps, Resetting, Reviewing, Idle
<1>10. ASSUME NEW k \in Calls, NEW a \in Applications, approve(k, a) PROVE OwnTokens'
  BY <1>10, RememberedFields
  DEF approve, Pending, Read, Begin, At, TypeOK, Account, RowsComplete, OwnTokens,
      Overlaps, Resetting, Reviewing, Idle
<1>11. ASSUME NEW k \in Calls, NEW a \in Applications, reject(k, a) PROVE OwnTokens'
  BY <1>11, RememberedFields
  DEF reject, Pending, Read, Begin, At, TypeOK, Account, RowsComplete, OwnTokens,
      Overlaps, Resetting, Reviewing, Idle
<1>12. ASSUME NEW k \in Calls, findExisting(k) PROVE OwnTokens'
  BY <1>12, RememberedFields
  DEF findExisting, Go, At, TypeOK, Account, RowsComplete, OwnTokens, Overlaps,
      Resetting, Reviewing, Idle
<1>13. ASSUME NEW k \in Calls, Approves(k) PROVE OwnTokens'
  <2>1. call[k].slug \in Slugs /\ call[k].email \in Emails
    BY <1>13, RememberedFields DEF Approves, At, Reviewing
  <2>2. \A e \in Emails : account'[e].token \in {account[e].token, None}
    BY <1>13, <2>1 DEF Approves, Approval, TypeOK
  <2>3. \A j \in Calls : At(j, "reset")' => At(j, "reset") /\ call'[j] = call[j]
    BY <1>13 DEF Approves, Turns, At, Idle
  <2>4. UNCHANGED <<issued, uses>>
    BY <1>13 DEF Approves
  <2>5. None \notin Tokens /\ \A j \in Calls : At(j, "reset") => call[j].token \in Tokens
    BY RememberedFields
  <2> QED BY <2>2, <2>3, <2>4, <2>5 DEF OwnTokens, Resetting, At
<1>14. ASSUME NEW k \in Calls, invite(k) PROVE OwnTokens'
  BY <1>14, RememberedFields, WithoutOrganisation
  DEF invite, Issue, Go, Finish, At, TypeOK, Account, RowsComplete, OwnTokens, Overlaps,
      Resetting, Reviewing, Idle
<1>15. ASSUME NEW k \in Calls, rejectWrite(k) PROVE OwnTokens'
  BY <1>15, RememberedFields
  DEF rejectWrite, Go, Finish, At, TypeOK, Account, RowsComplete, OwnTokens, Overlaps,
      Resetting, Reviewing, Idle
<1>16. ASSUME NEW k \in Calls, NEW e \in Emails, resetPassword(k, e) PROVE OwnTokens'
  BY <1>16, RememberedFields
  DEF resetPassword, Begin, At, TypeOK, Account, RowsComplete, OwnTokens, Overlaps,
      Resetting, Reviewing, Idle
<1>17. ASSUME NEW k \in Calls, resetWrite(k) PROVE OwnTokens'
  BY <1>17, RememberedFields
  DEF resetWrite, Spend, Go, Finish, At, TypeOK, Account, RowsComplete, OwnTokens,
      Overlaps, Resetting, Reviewing, Idle
<1>18. ASSUME NEW k \in Calls, Fail(k) PROVE OwnTokens'
  BY <1>18, RememberedFields
  DEF Fail, Go, Finish, At, TypeOK, Account, RowsComplete, OwnTokens, Overlaps,
      Resetting, Reviewing, Idle
<1> QED
  BY <1>1, <1>2, <1>3, <1>4, <1>5, <1>6, <1>7, <1>8, <1>9, <1>10, <1>11, <1>12, <1>13,
     <1>14, <1>15, <1>16, <1>17, <1>18, StepCases, Zenon

\* A handler that does not notice has an application that did not change.
LEMMA StaleOthers ==
  ASSUME TypeOK, Records, NEW j \in Calls, call'[j] = call[j], ~stale'[j]
  PROVE  /\ SubmittingSome(j) \/ Reviewing(j) => ~stale[j]
         /\ SubmittingSome(j) => application'[Inquired(j)] = application[Inquired(j)]
         /\ Reviewing(j) => application'[call[j].application] = application[call[j].application]
<1>1. SubmittingSome(j) \/ Reviewing(j) =>
        ~stale[j] /\ \A a \in ReadOf(j) : application'[a] = application[a]
  BY DEF Records, SubmittingSome, Reviewing, Idle
<1>2. SubmittingSome(j) => ReadOf(j) = {Inquired(j)}
  BY Remembered DEF SubmittingSome, ReadOf, At, Inquired
<1>3. Reviewing(j) => ReadOf(j) = {call[j].application}
  BY Remembered DEF Reviewing, ReadOf, At
<1> QED BY <1>1, <1>2, <1>3


\* A handler that no write has overtaken still finds what it tested.
LEMMA FreshStep ==
  ASSUME TInv, Fresh, Works, Records
  PROVE  Fresh'
<1> USE Markers DEF TInv, tables, history
<1>1. ASSUME NEW a \in Applications, createTypeformInquiry(a) PROVE Fresh'
  <2>1. /\ UNCHANGED call
        /\ \A b \in Applications :
             application'[b].slug = application[b].slug
             /\ (application[b].status = "SUBMITTED" => application'[b] = application[b])
    BY <1>1 DEF createTypeformInquiry, TypeOK, ApplicationRow, NoApplication
  <2> QED BY <2>1, StaleOthers, RememberedFields
    DEF Fresh, Reviewing, SubmittingSome, Inquired
<1>2. ASSUME NEW o \in Slugs, NEW status \in Administered, setTenantStatus(o, status)
      PROVE  Fresh'
  BY <1>2, RememberedFields
  DEF setTenantStatus, At, TypeOK, ApplicationRow, RowsComplete, Fresh, Records, ReadOf,
      Unanswered, SubmittingSome, Inquired, Reviewing, Idle
<1>3. ASSUME NEW e \in Emails, register(e) PROVE Fresh'
  BY <1>3, RememberedFields, WithoutOrganisation
  DEF register, At, TypeOK, ApplicationRow, RowsComplete, Fresh, Records, ReadOf,
      Unanswered, SubmittingSome, Inquired, Reviewing, Idle
<1>4. ASSUME NEW e \in Emails, requestPasswordReset(e) PROVE Fresh'
  BY <1>4, RememberedFields, WithoutOrganisation
  DEF requestPasswordReset, Issue, At, TypeOK, ApplicationRow, RowsComplete, Fresh,
      Records, ReadOf, Unanswered, SubmittingSome, Inquired, Reviewing, Idle
<1>5. ASSUME NEW k \in Calls, NEW p \in Responses, handlePayload(k, p) PROVE Fresh'
  BY <1>5, RememberedFields
  DEF handlePayload, Begin, At, TypeOK, ApplicationRow, RowsComplete, Fresh, Records,
      ReadOf, Unanswered, SubmittingSome, Inquired, Reviewing, Idle
<1>6. ASSUME NEW k \in Calls, LooksUp(k) PROVE Fresh'
  BY <1>6, RememberedFields
  DEF LooksUp, Turns, At, TypeOK, ApplicationRow, RowsComplete, Fresh, Records, ReadOf,
      Unanswered, SubmittingSome, Inquired, Reviewing, Idle
<1>7. ASSUME NEW k \in Calls, slugLoop(k) PROVE Fresh'
  BY <1>7, RememberedFields
  DEF slugLoop, Go, At, TypeOK, ApplicationRow, RowsComplete, Fresh, Records, ReadOf,
      Unanswered, SubmittingSome, Inquired, Reviewing, Idle
<1>8. ASSUME NEW k \in Calls, Creates(k) PROVE Fresh'
  BY <1>8, RememberedFields
  DEF Creates, Turns, At, TypeOK, ApplicationRow, RowsComplete, Fresh, Records, ReadOf,
      Unanswered, SubmittingSome, Inquired, Reviewing, Idle
<1>9. ASSUME NEW k \in Calls, linkApplication(k) PROVE Fresh'
  <2>1. At(k, "link") /\ Inquired(k) \in Applications
    BY <1>9, RememberedFields DEF linkApplication, SubmittingSome, At
  <2>2. /\ call'[k] = Idle /\ \A j \in Calls \ {k} : call'[j] = call[j]
        /\ \A b \in Applications : b # Inquired(k) => application'[b] = application[b]
    BY <1>9, <2>1 DEF linkApplication, Finish, Go, TypeOK, Inquired
  <2> QED BY <2>2, StaleOthers DEF Fresh, Reviewing, SubmittingSome, Inquired, Idle
<1>10. ASSUME NEW k \in Calls, NEW a \in Applications, approve(k, a) PROVE Fresh'
  BY <1>10, RememberedFields
  DEF approve, Pending, Read, Begin, At, TypeOK, ApplicationRow, RowsComplete, Fresh,
      Records, ReadOf, Unanswered, SubmittingSome, Inquired, Reviewing, Idle
<1>11. ASSUME NEW k \in Calls, NEW a \in Applications, reject(k, a) PROVE Fresh'
  BY <1>11, RememberedFields
  DEF reject, Pending, Read, Begin, At, TypeOK, ApplicationRow, RowsComplete, Fresh,
      Records, ReadOf, Unanswered, SubmittingSome, Inquired, Reviewing, Idle
<1>12. ASSUME NEW k \in Calls, findExisting(k) PROVE Fresh'
  BY <1>12, RememberedFields
  DEF findExisting, Go, At, TypeOK, ApplicationRow, RowsComplete, Fresh, Records,
      ReadOf, Unanswered, SubmittingSome, Inquired, Reviewing, Idle
<1>13. ASSUME NEW k \in Calls, Approves(k) PROVE Fresh'
  <2>1. call[k].application \in Applications /\ At(k, "decide")
    BY <1>13, RememberedFields DEF Approves, At, Reviewing
  <2>2. /\ ~SubmittingSome(k)' /\ call'[k].op \notin {"existing", "decide", "refuse"}
        /\ \A j \in Calls \ {k} : call'[j] = call[j]
    BY <1>13 DEF Approves, Turns, SubmittingSome, Idle
  <2> QED BY <2>2, StaleOthers DEF Fresh, Reviewing, SubmittingSome, Inquired
<1>14. ASSUME NEW k \in Calls, invite(k) PROVE Fresh'
  BY <1>14, RememberedFields, WithoutOrganisation
  DEF invite, Issue, Go, Finish, At, TypeOK, ApplicationRow, RowsComplete, Fresh,
      Records, ReadOf, Unanswered, SubmittingSome, Inquired, Reviewing, Idle
<1>15. ASSUME NEW k \in Calls, rejectWrite(k) PROVE Fresh'
  <2>1. call'[k] = Idle /\ \A j \in Calls \ {k} : call'[j] = call[j]
    BY <1>15 DEF rejectWrite, Finish, Go, TypeOK
  <2> QED BY <2>1, StaleOthers DEF Fresh, Reviewing, SubmittingSome, Inquired, Idle
<1>16. ASSUME NEW k \in Calls, NEW e \in Emails, resetPassword(k, e) PROVE Fresh'
  BY <1>16, RememberedFields
  DEF resetPassword, Begin, At, TypeOK, ApplicationRow, RowsComplete, Fresh, Records,
      ReadOf, Unanswered, SubmittingSome, Inquired, Reviewing, Idle
<1>17. ASSUME NEW k \in Calls, resetWrite(k) PROVE Fresh'
  BY <1>17, RememberedFields
  DEF resetWrite, Spend, Go, Finish, At, TypeOK, ApplicationRow, RowsComplete, Fresh,
      Records, ReadOf, Unanswered, SubmittingSome, Inquired, Reviewing, Idle
<1>18. ASSUME NEW k \in Calls, Fail(k) PROVE Fresh'
  BY <1>18, RememberedFields
  DEF Fail, Go, Finish, At, TypeOK, ApplicationRow, RowsComplete, Fresh, Records,
      ReadOf, Unanswered, SubmittingSome, Inquired, Reviewing, Idle
<1> QED
  BY <1>1, <1>2, <1>3, <1>4, <1>5, <1>6, <1>7, <1>8, <1>9, <1>10, <1>11, <1>12, <1>13,
     <1>14, <1>15, <1>16, <1>17, <1>18, StepCases, Zenon

\* Overlaps are recorded as they begin.
LEMMA OverlapsStep ==
  ASSUME TInv, Overlaps, Works, Records, TypeOK'
  PROVE  Overlaps'
<1>1. /\ \A k, j \in Calls, a \in Applications :
           k # j /\ (Submitting(k, a) /\ Submitting(j, a))' => a \in crossed'
      /\ \A k, j \in Calls, n \in Tokens :
           k # j /\ (Resetting(k, n) /\ Resetting(j, n))' => n \in doubled'
  BY DEF Records
<1> QED BY <1>1 DEF Overlaps

-----------------------------------------------------------------------------
(* Each property, step by step. *)

\* A decision writes the row of the application and that of its organisation,
\* which no other application has.
LEMMA DecisionWrites ==
  ASSUME TypeOK, OwnSlugs, Current, DecisionsAgree, crossed \subseteq crossed', managed' = managed,
         NEW k \in Calls, Reviewing(k), NEW status, NEW standing,
         \/ status = "APPROVED" /\ standing = "TRIAL"
         \/ status = "REJECTED" /\ standing = "SUSPENDED",
         application' = [application EXCEPT ![call[k].application].status = status],
         organisation' = [organisation EXCEPT ![call[k].slug] = standing]
  PROVE  DecisionsAgree'
<1> DEFINE a == call[k].application
           o == call[k].slug
<1>1. a \in Applications /\ o \in Slugs
  BY RememberedFields
<1>2. \A b \in Applications : application[b].slug = o => b = a
  BY DEF OwnSlugs
<1>3. a \notin crossed => application[a].slug = o
  BY DEF Current
<1> HIDE DEF a, o
<1>4. application' = [application EXCEPT ![a].status = status]
  BY DEF a
<1>5. organisation' = [organisation EXCEPT ![o] = standing]
  BY DEF o
<1>6. application[a] \in ApplicationRow
  BY <1>1 DEF TypeOK
<1>7. application'[a].status = status /\ application'[a].slug = application[a].slug
  BY <1>1, <1>4, <1>6 DEF TypeOK, ApplicationRow
<1>8. \A b \in Applications \ {a} : application'[b] = application[b]
  BY <1>4 DEF TypeOK
<1>9. organisation'[o] = standing /\ \A u \in Slugs \ {o} : organisation'[u] = organisation[u]
  BY <1>1, <1>5 DEF TypeOK
<1>10. \A b \in Applications : application[b].slug \in Slugs \cup {None}
  BY DEF TypeOK, ApplicationRow
<1>11. ASSUME NEW b \in Applications \ crossed', application'[b].slug # None,
              application'[b].slug \notin managed'
       PROVE  LET u == application'[b].slug IN
              /\ application'[b].status = "SUBMITTED" => organisation'[u] = "PENDING"
              /\ application'[b].status = "APPROVED" => organisation'[u] = "TRIAL"
              /\ application'[b].status = "REJECTED" => organisation'[u] = "SUSPENDED"
  <2>1. CASE b = a
    BY <1>3, <1>7, <1>9, <1>11, <2>1
  <2>2. CASE b # a
    <3>1. application'[b] = application[b] /\ b \notin crossed
      BY <1>8, <1>11, <2>2
    <3>2. application[b].slug \in Slugs \ {o}
      BY <1>2, <1>10, <1>11, <2>2, <3>1
    <3>3. organisation'[application[b].slug] = organisation[application[b].slug]
      BY <1>9, <3>2
    <3>4. application[b].slug # None /\ application[b].slug \notin managed
      BY <1>11, <3>1
    <3>5. /\ application[b].status = "SUBMITTED" => organisation[application[b].slug] = "PENDING"
          /\ application[b].status = "APPROVED" => organisation[application[b].slug] = "TRIAL"
          /\ application[b].status = "REJECTED" => organisation[application[b].slug] = "SUSPENDED"
      BY <3>1, <3>4 DEF DecisionsAgree
    <3> QED BY <3>1, <3>3, <3>5
  <2> QED BY <2>1, <2>2
<1> QED BY <1>11 DEF DecisionsAgree

\* Each decision writes both rows.
LEMMA DecisionsStep ==
  ASSUME TInv, OwnSlugs, Current, Overlaps, DecisionsAgree, Works, Records, crossed \subseteq crossed'
  PROVE  DecisionsAgree'
<1> USE Markers DEF TInv, tables, history
<1>1. ASSUME NEW a \in Applications, createTypeformInquiry(a) PROVE DecisionsAgree'
  BY <1>1, RememberedFields
  DEF createTypeformInquiry, At, DecisionsAgree, OwnSlugs, Current, TypeOK,
      ApplicationRow, RowsComplete, Reviewing, SubmittingSome, Inquired, Idle
<1>2. ASSUME NEW o \in Slugs, NEW status \in Administered, setTenantStatus(o, status)
      PROVE  DecisionsAgree'
  BY <1>2, RememberedFields
  DEF setTenantStatus, At, DecisionsAgree, OwnSlugs, Current, TypeOK, ApplicationRow,
      RowsComplete, Reviewing, SubmittingSome, Inquired, Idle
<1>3. ASSUME NEW e \in Emails, register(e) PROVE DecisionsAgree'
  BY <1>3, RememberedFields, WithoutOrganisation
  DEF register, At, DecisionsAgree, OwnSlugs, Current, TypeOK, ApplicationRow,
      RowsComplete, Reviewing, SubmittingSome, Inquired, Idle
<1>4. ASSUME NEW e \in Emails, requestPasswordReset(e) PROVE DecisionsAgree'
  BY <1>4, RememberedFields, WithoutOrganisation
  DEF requestPasswordReset, Issue, At, DecisionsAgree, OwnSlugs, Current, TypeOK,
      ApplicationRow, RowsComplete, Reviewing, SubmittingSome, Inquired, Idle
<1>5. ASSUME NEW k \in Calls, NEW p \in Responses, handlePayload(k, p)
      PROVE  DecisionsAgree'
  BY <1>5, RememberedFields
  DEF handlePayload, Begin, At, DecisionsAgree, OwnSlugs, Current, TypeOK,
      ApplicationRow, RowsComplete, Reviewing, SubmittingSome, Inquired, Idle
<1>6. ASSUME NEW k \in Calls, LooksUp(k) PROVE DecisionsAgree'
  BY <1>6, RememberedFields
  DEF LooksUp, Turns, At, DecisionsAgree, OwnSlugs, Current, TypeOK, ApplicationRow,
      RowsComplete, Reviewing, SubmittingSome, Inquired, Idle
<1>7. ASSUME NEW k \in Calls, slugLoop(k) PROVE DecisionsAgree'
  BY <1>7, RememberedFields
  DEF slugLoop, Go, At, DecisionsAgree, OwnSlugs, Current, TypeOK, ApplicationRow,
      RowsComplete, Reviewing, SubmittingSome, Inquired, Idle
<1>8. ASSUME NEW k \in Calls, Creates(k) PROVE DecisionsAgree'
  BY <1>8, RememberedFields
  DEF Creates, Turns, At, DecisionsAgree, OwnSlugs, Current, TypeOK, ApplicationRow,
      RowsComplete, Reviewing, SubmittingSome, Inquired, Idle
<1>9. ASSUME NEW k \in Calls, linkApplication(k) PROVE DecisionsAgree'
  BY <1>9, RememberedFields
  DEF linkApplication, Go, Finish, At, DecisionsAgree, OwnSlugs, Current, TypeOK,
      ApplicationRow, RowsComplete, Reviewing, SubmittingSome, Inquired, Idle
<1>10. ASSUME NEW k \in Calls, NEW a \in Applications, approve(k, a) PROVE DecisionsAgree'
  BY <1>10, RememberedFields
  DEF approve, Pending, Read, Begin, At, DecisionsAgree, OwnSlugs, Current, TypeOK,
      ApplicationRow, RowsComplete, Reviewing, SubmittingSome, Inquired, Idle
<1>11. ASSUME NEW k \in Calls, NEW a \in Applications, reject(k, a) PROVE DecisionsAgree'
  BY <1>11, RememberedFields
  DEF reject, Pending, Read, Begin, At, DecisionsAgree, OwnSlugs, Current, TypeOK,
      ApplicationRow, RowsComplete, Reviewing, SubmittingSome, Inquired, Idle
<1>12. ASSUME NEW k \in Calls, findExisting(k) PROVE DecisionsAgree'
  BY <1>12, RememberedFields
  DEF findExisting, Go, At, DecisionsAgree, OwnSlugs, Current, TypeOK, ApplicationRow,
      RowsComplete, Reviewing, SubmittingSome, Inquired, Idle
<1>13. ASSUME NEW k \in Calls, Approves(k) PROVE DecisionsAgree'
  <2>1. Reviewing(k) /\ managed' = managed
    BY <1>13 DEF Approves, At, Reviewing
  <2>2. CASE UNCHANGED tables
    BY <2>1, <2>2 DEF DecisionsAgree
  <2>3. CASE Approval(k)
    BY <2>1, <2>3, DecisionWrites DEF Approval
  <2> QED BY <1>13, <2>2, <2>3 DEF Approves
<1>14. ASSUME NEW k \in Calls, invite(k) PROVE DecisionsAgree'
  BY <1>14, RememberedFields, WithoutOrganisation
  DEF invite, Issue, Go, Finish, At, DecisionsAgree, OwnSlugs, Current, TypeOK,
      ApplicationRow, RowsComplete, Reviewing, SubmittingSome, Inquired, Idle
<1>15. ASSUME NEW k \in Calls, rejectWrite(k) PROVE DecisionsAgree'
  <2>1. Reviewing(k) /\ managed' = managed
    BY <1>15 DEF rejectWrite, At, Reviewing
  <2> QED BY <1>15, <2>1, DecisionWrites DEF rejectWrite
<1>16. ASSUME NEW k \in Calls, NEW e \in Emails, resetPassword(k, e) PROVE DecisionsAgree'
  BY <1>16, RememberedFields
  DEF resetPassword, Begin, At, DecisionsAgree, OwnSlugs, Current, TypeOK,
      ApplicationRow, RowsComplete, Reviewing, SubmittingSome, Inquired, Idle
<1>17. ASSUME NEW k \in Calls, resetWrite(k) PROVE DecisionsAgree'
  BY <1>17, RememberedFields
  DEF resetWrite, Spend, Go, Finish, At, DecisionsAgree, OwnSlugs, Current, TypeOK,
      ApplicationRow, RowsComplete, Reviewing, SubmittingSome, Inquired, Idle
<1>18. ASSUME NEW k \in Calls, Fail(k) PROVE DecisionsAgree'
  BY <1>18, RememberedFields
  DEF Fail, Go, Finish, At, DecisionsAgree, OwnSlugs, Current, TypeOK, ApplicationRow,
      RowsComplete, Reviewing, SubmittingSome, Inquired, Idle
<1> QED
  BY <1>1, <1>2, <1>3, <1>4, <1>5, <1>6, <1>7, <1>8, <1>9, <1>10, <1>11, <1>12, <1>13,
     <1>14, <1>15, <1>16, <1>17, <1>18, StepCases, Zenon

\* A submission that links does not displace another organisation.
LEMMA OrphansStep ==
  ASSUME TInv, OwnSlugs, Current, Overlaps, NoOrphans, Works, Records, crossed
         \subseteq crossed'
  PROVE  NoOrphans'
<1> USE Markers DEF TInv, tables, history
<1>1. ASSUME NEW a \in Applications, createTypeformInquiry(a) PROVE NoOrphans'
  BY <1>1, RememberedFields
  DEF createTypeformInquiry, At, NoOrphans, OwnSlugs, Current, TypeOK, ApplicationRow,
      RowsComplete, Reviewing, SubmittingSome, Inquired, Idle
<1>2. ASSUME NEW o \in Slugs, NEW status \in Administered, setTenantStatus(o, status)
      PROVE  NoOrphans'
  BY <1>2, RememberedFields
  DEF setTenantStatus, At, NoOrphans, OwnSlugs, Current, TypeOK, ApplicationRow,
      RowsComplete, Reviewing, SubmittingSome, Inquired, Idle
<1>3. ASSUME NEW e \in Emails, register(e) PROVE NoOrphans'
  BY <1>3, RememberedFields, WithoutOrganisation
  DEF register, At, NoOrphans, OwnSlugs, Current, TypeOK, ApplicationRow, RowsComplete,
      Reviewing, SubmittingSome, Inquired, Idle
<1>4. ASSUME NEW e \in Emails, requestPasswordReset(e) PROVE NoOrphans'
  BY <1>4, RememberedFields, WithoutOrganisation
  DEF requestPasswordReset, Issue, At, NoOrphans, OwnSlugs, Current, TypeOK,
      ApplicationRow, RowsComplete, Reviewing, SubmittingSome, Inquired, Idle
<1>5. ASSUME NEW k \in Calls, NEW p \in Responses, handlePayload(k, p) PROVE NoOrphans'
  BY <1>5, RememberedFields
  DEF handlePayload, Begin, At, NoOrphans, OwnSlugs, Current, TypeOK, ApplicationRow,
      RowsComplete, Reviewing, SubmittingSome, Inquired, Idle
<1>6. ASSUME NEW k \in Calls, LooksUp(k) PROVE NoOrphans'
  BY <1>6, RememberedFields
  DEF LooksUp, Turns, At, NoOrphans, OwnSlugs, Current, TypeOK, ApplicationRow,
      RowsComplete, Reviewing, SubmittingSome, Inquired, Idle
<1>7. ASSUME NEW k \in Calls, slugLoop(k) PROVE NoOrphans'
  BY <1>7, RememberedFields
  DEF slugLoop, Go, At, NoOrphans, OwnSlugs, Current, TypeOK, ApplicationRow,
      RowsComplete, Reviewing, SubmittingSome, Inquired, Idle
<1>8. ASSUME NEW k \in Calls, Creates(k) PROVE NoOrphans'
  BY <1>8, RememberedFields
  DEF Creates, Turns, At, NoOrphans, OwnSlugs, Current, TypeOK, ApplicationRow,
      RowsComplete, Reviewing, SubmittingSome, Inquired, Idle
<1>9. ASSUME NEW k \in Calls, linkApplication(k) PROVE NoOrphans'
  BY <1>9, RememberedFields
  DEF linkApplication, Go, Finish, At, NoOrphans, OwnSlugs, Current, TypeOK,
      ApplicationRow, RowsComplete, Reviewing, SubmittingSome, Inquired, Idle
<1>10. ASSUME NEW k \in Calls, NEW a \in Applications, approve(k, a) PROVE NoOrphans'
  BY <1>10, RememberedFields
  DEF approve, Pending, Read, Begin, At, NoOrphans, OwnSlugs, Current, TypeOK,
      ApplicationRow, RowsComplete, Reviewing, SubmittingSome, Inquired, Idle
<1>11. ASSUME NEW k \in Calls, NEW a \in Applications, reject(k, a) PROVE NoOrphans'
  BY <1>11, RememberedFields
  DEF reject, Pending, Read, Begin, At, NoOrphans, OwnSlugs, Current, TypeOK,
      ApplicationRow, RowsComplete, Reviewing, SubmittingSome, Inquired, Idle
<1>12. ASSUME NEW k \in Calls, findExisting(k) PROVE NoOrphans'
  BY <1>12, RememberedFields
  DEF findExisting, Go, At, NoOrphans, OwnSlugs, Current, TypeOK, ApplicationRow,
      RowsComplete, Reviewing, SubmittingSome, Inquired, Idle
<1>13. ASSUME NEW k \in Calls, Approves(k) PROVE NoOrphans'
  <2>1. /\ At(k, "decide") /\ cut' = cut
        /\ \A j \in Calls \ {k} : call'[j] = call[j]
    BY <1>13 DEF Approves, Turns
  <2>2. call[k].application \in Applications /\ call[k].slug \in Slugs
    BY <2>1, RememberedFields DEF At, Reviewing
  <2>3. \A j \in Calls : At(j, "link") => At(j, "link")' /\ call'[j].slug = call[j].slug
    BY <2>1 DEF At
  <2>4. CASE UNCHANGED tables
    BY <2>1, <2>3, <2>4 DEF NoOrphans
  <2>5. CASE Approval(k)
    <3>1. \A b \in Applications : application'[b].slug = application[b].slug
      BY <2>2, <2>5 DEF Approval, TypeOK, ApplicationRow
    <3>2. organisation' = [organisation EXCEPT ![call[k].slug] = "TRIAL"]
      BY <2>5 DEF Approval
    <3>3. organisation[call[k].slug] # "none"
      BY <2>1 DEF OwnSlugs, At, Reviewing
    <3>4. \A o \in Slugs : organisation'[o] # "none" => organisation[o] # "none"
      BY <3>2, <3>3 DEF TypeOK
    <3> QED BY <2>1, <2>3, <3>1, <3>4 DEF NoOrphans
  <2> QED BY <1>13, <2>4, <2>5 DEF Approves
<1>14. ASSUME NEW k \in Calls, invite(k) PROVE NoOrphans'
  BY <1>14, RememberedFields, WithoutOrganisation
  DEF invite, Issue, Go, Finish, At, NoOrphans, OwnSlugs, Current, TypeOK,
      ApplicationRow, RowsComplete, Reviewing, SubmittingSome, Inquired, Idle
<1>15. ASSUME NEW k \in Calls, rejectWrite(k) PROVE NoOrphans'
  BY <1>15, RememberedFields
  DEF rejectWrite, Go, Finish, At, NoOrphans, OwnSlugs, Current, TypeOK, ApplicationRow,
      RowsComplete, Reviewing, SubmittingSome, Inquired, Idle
<1>16. ASSUME NEW k \in Calls, NEW e \in Emails, resetPassword(k, e) PROVE NoOrphans'
  BY <1>16, RememberedFields
  DEF resetPassword, Begin, At, NoOrphans, OwnSlugs, Current, TypeOK, ApplicationRow,
      RowsComplete, Reviewing, SubmittingSome, Inquired, Idle
<1>17. ASSUME NEW k \in Calls, resetWrite(k) PROVE NoOrphans'
  BY <1>17, RememberedFields
  DEF resetWrite, Spend, Go, Finish, At, NoOrphans, OwnSlugs, Current, TypeOK,
      ApplicationRow, RowsComplete, Reviewing, SubmittingSome, Inquired, Idle
<1>18. ASSUME NEW k \in Calls, Fail(k) PROVE NoOrphans'
  BY <1>18, RememberedFields
  DEF Fail, Go, Finish, At, NoOrphans, OwnSlugs, Current, TypeOK, ApplicationRow,
      RowsComplete, Reviewing, SubmittingSome, Inquired, Idle
<1> QED
  BY <1>1, <1>2, <1>3, <1>4, <1>5, <1>6, <1>7, <1>8, <1>9, <1>10, <1>11, <1>12, <1>13,
     <1>14, <1>15, <1>16, <1>17, <1>18, StepCases, Zenon

\* A step that approves nobody, closes no account, and sends or gives up on a
\* token that it does not send any more.
KeepsEntrance ==
  /\ \A a \in Applications \ crossed :
       application'[a].status = "APPROVED" =>
         /\ application[a].status = "APPROVED"
         /\ application'[a].slug = application[a].slug
         /\ application'[a].email = application[a].email
  /\ \A e \in Emails : account[e].org # None => account'[e].org = account[e].org
  /\ invited \subseteq invited' /\ cut \subseteq cut'
  /\ \A k \in Calls : At(k, "invite") =>
       \/ At(k, "invite")' /\ call'[k].email = call[k].email
       \/ call[k].email \in invited'
       \/ call[k].slug \in cut'

LEMMA EntranceKept ==
  ASSUME TInv, KnownAccounts, ApprovedCanEnter, KeepsEntrance, crossed \subseteq crossed'
  PROVE  ApprovedCanEnter'
<1> SUFFICES ASSUME NEW a \in Applications \ crossed', application'[a].status = "APPROVED"
             PROVE  LET e == application[a].email  o == application[a].slug IN
                    /\ account'[e] # NoAccount
                    /\ account'[e].org = o =>
                         \/ e \in invited' \/ o \in cut'
                         \/ \E k \in Calls : At(k, "invite")' /\ call'[k].email = e
  BY DEF ApprovedCanEnter, KeepsEntrance
<1> DEFINE e == application[a].email
           o == application[a].slug
<1>1. a \notin crossed /\ application[a].status = "APPROVED"
  BY DEF KeepsEntrance
<1>2. /\ account[e] # NoAccount
      /\ account[e].org = o =>
           \/ e \in invited \/ o \in cut
           \/ \E k \in Calls : At(k, "invite") /\ call[k].email = e
  BY <1>1 DEF ApprovedCanEnter
<1>3. e \in Emails
  BY <1>1 DEF TInv, TypeOK, RowsComplete, ApplicationRow
<1>4. account[e].org # None /\ account'[e].org = account[e].org
  BY <1>2, <1>3, WithoutOrganisation DEF KeepsEntrance
<1>5. account'[e] # NoAccount
  BY <1>4 DEF NoAccount
<1>6. ASSUME account[e].org = o, NEW k \in Calls, At(k, "invite"), call[k].email = e
      PROVE  \/ e \in invited' \/ o \in cut'
             \/ \E j \in Calls : At(j, "invite")' /\ call'[j].email = e
  <2>1. call[k].slug = o
    BY <1>6 DEF KnownAccounts
  <2> QED BY <1>6, <2>1 DEF KeepsEntrance
<1> QED
  BY <1>2, <1>4, <1>5, <1>6 DEF KeepsEntrance

LEMMA ApprovedEnters ==
  ASSUME TInv, Current, KnownAccounts, ApprovedCanEnter, crossed \subseteq crossed',
         NEW k \in Calls, Approves(k)
  PROVE  ApprovedCanEnter'
<1>1. /\ call[k].slug \in Slugs /\ call[k].email \in Emails /\ At(k, "decide")
      /\ call[k].application \in Applications
      /\ call[k].existing \in Slugs \cup {Elsewhere, None}
      /\ call[k].existing # None => account[call[k].email].org = call[k].existing
  BY RememberedFields DEF Approves, At, Reviewing, TInv, KnownAccounts
<1>2. CASE UNCHANGED tables
  <2>1. KeepsEntrance
    BY <1>2 DEF Approves, Turns, At, Idle, Approval, KeepsEntrance, tables, history
  <2> QED BY <2>1, EntranceKept
<1>3. CASE /\ Approval(k) /\ ~Taken(k)
           /\ \/ UsedElsewhere(k)
              \/ At(k, "invite")' /\ call'[k].email = call[k].email
  <2> DEFINE b == call[k].application
             d == call[k].email
  <2>1. /\ \A a \in Applications :
             /\ application'[a].slug = application[a].slug
             /\ application'[a].email = application[a].email
             /\ a # b => application'[a].status = application[a].status
    BY <1>1, <1>3 DEF Approval, TInv, TypeOK, ApplicationRow
  <2>2. /\ \A e \in Emails : account[e].org # None => account'[e].org = account[e].org
        /\ account'[d].org = IF call[k].existing = None THEN call[k].slug ELSE call[k].existing
    BY <1>1, <1>3, WithoutOrganisation
    DEF Approval, Opens, Taken, TInv, TypeOK, Account
  <2>3. \/ UsedElsewhere(k)
        \/ At(k, "invite")' /\ call'[k].email = d
    BY <1>3
  <2>4. /\ \A j \in Calls : At(j, "invite") => call'[j] = call[j]
        /\ UNCHANGED <<invited, cut>>
    BY <1>1 DEF Approves, Turns, At, history
  <2> SUFFICES ASSUME NEW a \in Applications \ crossed', application'[a].status = "APPROVED"
               PROVE  LET e == application[a].email  o == application[a].slug IN
                      /\ account'[e] # NoAccount
                      /\ account'[e].org = o =>
                           \/ e \in invited \/ o \in cut
                           \/ \E j \in Calls : At(j, "invite")' /\ call'[j].email = e
    BY <2>1, <2>4 DEF ApprovedCanEnter
  <2>5. CASE a = b
    <3>1. application[a].slug = call[k].slug /\ application[a].email = d
      BY <1>1, <2>5 DEF Current, At, Reviewing
    <3>2. account'[d].org # None
      BY <1>1, <2>2, Markers
    <3>3. account'[d].org = call[k].slug => ~UsedElsewhere(k)
      BY <1>1, <2>2 DEF UsedElsewhere
    <3> QED BY <2>3, <3>1, <3>2, <3>3 DEF NoAccount
  <2>6. CASE a # b
    <3> DEFINE e == application[a].email
    <3>1. application[a].status = "APPROVED" /\ a \notin crossed
      BY <2>1, <2>6
    <3>2. e \in Emails /\ account[e] # NoAccount
      BY <3>1 DEF ApprovedCanEnter, TInv, TypeOK, RowsComplete, ApplicationRow
    <3>3. account[e].org # None /\ account'[e].org = account[e].org
      BY <2>2, <3>2, WithoutOrganisation
    <3>4. account[e].org = application[a].slug =>
            \/ e \in invited \/ application[a].slug \in cut
            \/ \E j \in Calls : At(j, "invite") /\ call[j].email = e
      BY <3>1 DEF ApprovedCanEnter
    <3>5. account[e].org = application[a].slug =>
            \/ e \in invited \/ application[a].slug \in cut
            \/ \E j \in Calls : At(j, "invite")' /\ call'[j].email = e
      BY <2>4, <3>4 DEF At
    <3> QED BY <3>3, <3>5 DEF NoAccount
  <2> QED BY <2>5, <2>6
<1> QED BY <1>2, <1>3 DEF Approves, Turns, At


\* Every step but an approval keeps the entrance.
LEMMA EnterStep ==
  ASSUME TInv, Works, Records, 
         ~\E k \in Calls : Approves(k)
  PROVE  KeepsEntrance
<1> USE Markers DEF TInv, tables, history
<1>1. ASSUME NEW a \in Applications, createTypeformInquiry(a) PROVE KeepsEntrance
  BY <1>1, RememberedFields
  DEF createTypeformInquiry, At, KeepsEntrance, Account, TypeOK, ApplicationRow,
      RowsComplete, Reviewing, SubmittingSome, Inquired, Idle
<1>2. ASSUME NEW o \in Slugs, NEW status \in Administered, setTenantStatus(o, status)
      PROVE  KeepsEntrance
  BY <1>2, RememberedFields
  DEF setTenantStatus, At, KeepsEntrance, Account, TypeOK, ApplicationRow, RowsComplete,
      Reviewing, SubmittingSome, Inquired, Idle
<1>3. ASSUME NEW e \in Emails, register(e) PROVE KeepsEntrance
  BY <1>3, RememberedFields, WithoutOrganisation
  DEF register, At, KeepsEntrance, Account, TypeOK, ApplicationRow, RowsComplete,
      Reviewing, SubmittingSome, Inquired, Idle
<1>4. ASSUME NEW e \in Emails, requestPasswordReset(e) PROVE KeepsEntrance
  BY <1>4, RememberedFields, WithoutOrganisation
  DEF requestPasswordReset, Issue, At, KeepsEntrance, Account, TypeOK, ApplicationRow,
      RowsComplete, Reviewing, SubmittingSome, Inquired, Idle
<1>5. ASSUME NEW k \in Calls, NEW p \in Responses, handlePayload(k, p) PROVE KeepsEntrance
  BY <1>5, RememberedFields
  DEF handlePayload, Begin, At, KeepsEntrance, Account, TypeOK, ApplicationRow,
      RowsComplete, Reviewing, SubmittingSome, Inquired, Idle
<1>6. ASSUME NEW k \in Calls, LooksUp(k) PROVE KeepsEntrance
  BY <1>6, RememberedFields
  DEF LooksUp, Turns, At, KeepsEntrance, Account, TypeOK, ApplicationRow, RowsComplete,
      Reviewing, SubmittingSome, Inquired, Idle
<1>7. ASSUME NEW k \in Calls, slugLoop(k) PROVE KeepsEntrance
  BY <1>7, RememberedFields
  DEF slugLoop, Go, At, KeepsEntrance, Account, TypeOK, ApplicationRow, RowsComplete,
      Reviewing, SubmittingSome, Inquired, Idle
<1>8. ASSUME NEW k \in Calls, Creates(k) PROVE KeepsEntrance
  BY <1>8, RememberedFields
  DEF Creates, Turns, At, KeepsEntrance, Account, TypeOK, ApplicationRow, RowsComplete,
      Reviewing, SubmittingSome, Inquired, Idle
<1>9. ASSUME NEW k \in Calls, linkApplication(k) PROVE KeepsEntrance
  BY <1>9, RememberedFields
  DEF linkApplication, Go, Finish, At, KeepsEntrance, Account, TypeOK, ApplicationRow,
      RowsComplete, Reviewing, SubmittingSome, Inquired, Idle
<1>10. ASSUME NEW k \in Calls, NEW a \in Applications, approve(k, a) PROVE KeepsEntrance
  BY <1>10, RememberedFields
  DEF approve, Pending, Read, Begin, At, KeepsEntrance, Account, TypeOK, ApplicationRow,
      RowsComplete, Reviewing, SubmittingSome, Inquired, Idle
<1>11. ASSUME NEW k \in Calls, NEW a \in Applications, reject(k, a) PROVE KeepsEntrance
  BY <1>11, RememberedFields
  DEF reject, Pending, Read, Begin, At, KeepsEntrance, Account, TypeOK, ApplicationRow,
      RowsComplete, Reviewing, SubmittingSome, Inquired, Idle
<1>12. ASSUME NEW k \in Calls, findExisting(k) PROVE KeepsEntrance
  BY <1>12, RememberedFields
  DEF findExisting, Go, At, KeepsEntrance, Account, TypeOK, ApplicationRow,
      RowsComplete, Reviewing, SubmittingSome, Inquired, Idle
<1>13. ASSUME NEW k \in Calls, Approves(k) PROVE KeepsEntrance
  BY <1>13, RememberedFields
  DEF Approves, Approval, Turns, At, KeepsEntrance, Account, TypeOK, ApplicationRow,
      RowsComplete, Reviewing, SubmittingSome, Inquired, Idle
<1>14. ASSUME NEW k \in Calls, invite(k) PROVE KeepsEntrance
  BY <1>14, RememberedFields, WithoutOrganisation
  DEF invite, Issue, Go, Finish, At, KeepsEntrance, Account, TypeOK, ApplicationRow,
      RowsComplete, Reviewing, SubmittingSome, Inquired, Idle
<1>15. ASSUME NEW k \in Calls, rejectWrite(k) PROVE KeepsEntrance
  BY <1>15, RememberedFields
  DEF rejectWrite, Go, Finish, At, KeepsEntrance, Account, TypeOK, ApplicationRow,
      RowsComplete, Reviewing, SubmittingSome, Inquired, Idle
<1>16. ASSUME NEW k \in Calls, NEW e \in Emails, resetPassword(k, e) PROVE KeepsEntrance
  BY <1>16, RememberedFields
  DEF resetPassword, Begin, At, KeepsEntrance, Account, TypeOK, ApplicationRow,
      RowsComplete, Reviewing, SubmittingSome, Inquired, Idle
<1>17. ASSUME NEW k \in Calls, resetWrite(k) PROVE KeepsEntrance
  BY <1>17, RememberedFields
  DEF resetWrite, Spend, Go, Finish, At, KeepsEntrance, Account, TypeOK, ApplicationRow,
      RowsComplete, Reviewing, SubmittingSome, Inquired, Idle
<1>18. ASSUME NEW k \in Calls, Fail(k) PROVE KeepsEntrance
  BY <1>18, RememberedFields
  DEF Fail, Go, Finish, At, KeepsEntrance, Account, TypeOK, ApplicationRow,
      RowsComplete, Reviewing, SubmittingSome, Inquired, Idle
<1> QED
  BY <1>1, <1>2, <1>3, <1>4, <1>5, <1>6, <1>7, <1>8, <1>9, <1>10, <1>11, <1>12, <1>13,
     <1>14, <1>15, <1>16, <1>17, <1>18, StepCases, Zenon

\* Only resetWrite uses a token.
LEMMA TokensStep ==
  ASSUME TInv, OwnTokens, TokenUsedOnce, Works, Records, doubled \subseteq doubled'
  PROVE  TokenUsedOnce'
<1> USE Markers DEF TInv, tables, history
<1>1. ASSUME NEW a \in Applications, createTypeformInquiry(a) PROVE TokenUsedOnce'
  BY <1>1, RememberedFields
  DEF createTypeformInquiry, At, TokenUsedOnce, OwnTokens, Resetting, TypeOK,
      ApplicationRow, RowsComplete, Reviewing, SubmittingSome, Inquired, Idle
<1>2. ASSUME NEW o \in Slugs, NEW status \in Administered, setTenantStatus(o, status)
      PROVE  TokenUsedOnce'
  BY <1>2, RememberedFields
  DEF setTenantStatus, At, TokenUsedOnce, OwnTokens, Resetting, TypeOK, ApplicationRow,
      RowsComplete, Reviewing, SubmittingSome, Inquired, Idle
<1>3. ASSUME NEW e \in Emails, register(e) PROVE TokenUsedOnce'
  BY <1>3, RememberedFields, WithoutOrganisation
  DEF register, At, TokenUsedOnce, OwnTokens, Resetting, TypeOK, ApplicationRow,
      RowsComplete, Reviewing, SubmittingSome, Inquired, Idle
<1>4. ASSUME NEW e \in Emails, requestPasswordReset(e) PROVE TokenUsedOnce'
  BY <1>4, RememberedFields, WithoutOrganisation
  DEF requestPasswordReset, Issue, At, TokenUsedOnce, OwnTokens, Resetting, TypeOK,
      ApplicationRow, RowsComplete, Reviewing, SubmittingSome, Inquired, Idle
<1>5. ASSUME NEW k \in Calls, NEW p \in Responses, handlePayload(k, p)
      PROVE  TokenUsedOnce'
  BY <1>5, RememberedFields
  DEF handlePayload, Begin, At, TokenUsedOnce, OwnTokens, Resetting, TypeOK,
      ApplicationRow, RowsComplete, Reviewing, SubmittingSome, Inquired, Idle
<1>6. ASSUME NEW k \in Calls, LooksUp(k) PROVE TokenUsedOnce'
  BY <1>6, RememberedFields
  DEF LooksUp, Turns, At, TokenUsedOnce, OwnTokens, Resetting, TypeOK, ApplicationRow,
      RowsComplete, Reviewing, SubmittingSome, Inquired, Idle
<1>7. ASSUME NEW k \in Calls, slugLoop(k) PROVE TokenUsedOnce'
  BY <1>7, RememberedFields
  DEF slugLoop, Go, At, TokenUsedOnce, OwnTokens, Resetting, TypeOK, ApplicationRow,
      RowsComplete, Reviewing, SubmittingSome, Inquired, Idle
<1>8. ASSUME NEW k \in Calls, Creates(k) PROVE TokenUsedOnce'
  BY <1>8, RememberedFields
  DEF Creates, Turns, At, TokenUsedOnce, OwnTokens, Resetting, TypeOK, ApplicationRow,
      RowsComplete, Reviewing, SubmittingSome, Inquired, Idle
<1>9. ASSUME NEW k \in Calls, linkApplication(k) PROVE TokenUsedOnce'
  BY <1>9, RememberedFields
  DEF linkApplication, Go, Finish, At, TokenUsedOnce, OwnTokens, Resetting, TypeOK,
      ApplicationRow, RowsComplete, Reviewing, SubmittingSome, Inquired, Idle
<1>10. ASSUME NEW k \in Calls, NEW a \in Applications, approve(k, a) PROVE TokenUsedOnce'
  BY <1>10, RememberedFields
  DEF approve, Pending, Read, Begin, At, TokenUsedOnce, OwnTokens, Resetting, TypeOK,
      ApplicationRow, RowsComplete, Reviewing, SubmittingSome, Inquired, Idle
<1>11. ASSUME NEW k \in Calls, NEW a \in Applications, reject(k, a) PROVE TokenUsedOnce'
  BY <1>11, RememberedFields
  DEF reject, Pending, Read, Begin, At, TokenUsedOnce, OwnTokens, Resetting, TypeOK,
      ApplicationRow, RowsComplete, Reviewing, SubmittingSome, Inquired, Idle
<1>12. ASSUME NEW k \in Calls, findExisting(k) PROVE TokenUsedOnce'
  BY <1>12, RememberedFields
  DEF findExisting, Go, At, TokenUsedOnce, OwnTokens, Resetting, TypeOK, ApplicationRow,
      RowsComplete, Reviewing, SubmittingSome, Inquired, Idle
<1>13. ASSUME NEW k \in Calls, Approves(k) PROVE TokenUsedOnce'
  BY <1>13, RememberedFields
  DEF Approves, Approval, Turns, At, TokenUsedOnce, OwnTokens, Resetting, TypeOK,
      ApplicationRow, RowsComplete, Reviewing, SubmittingSome, Inquired, Idle
<1>14. ASSUME NEW k \in Calls, invite(k) PROVE TokenUsedOnce'
  BY <1>14, RememberedFields, WithoutOrganisation
  DEF invite, Issue, Go, Finish, At, TokenUsedOnce, OwnTokens, Resetting, TypeOK,
      ApplicationRow, RowsComplete, Reviewing, SubmittingSome, Inquired, Idle
<1>15. ASSUME NEW k \in Calls, rejectWrite(k) PROVE TokenUsedOnce'
  BY <1>15, RememberedFields
  DEF rejectWrite, Go, Finish, At, TokenUsedOnce, OwnTokens, Resetting, TypeOK,
      ApplicationRow, RowsComplete, Reviewing, SubmittingSome, Inquired, Idle
<1>16. ASSUME NEW k \in Calls, NEW e \in Emails, resetPassword(k, e) PROVE TokenUsedOnce'
  BY <1>16, RememberedFields
  DEF resetPassword, Begin, At, TokenUsedOnce, OwnTokens, Resetting, TypeOK,
      ApplicationRow, RowsComplete, Reviewing, SubmittingSome, Inquired, Idle
<1>17. ASSUME NEW k \in Calls, resetWrite(k) PROVE TokenUsedOnce'
  BY <1>17, RememberedFields
  DEF resetWrite, Spend, Go, Finish, At, TokenUsedOnce, OwnTokens, Resetting, TypeOK,
      ApplicationRow, RowsComplete, Reviewing, SubmittingSome, Inquired, Idle
<1>18. ASSUME NEW k \in Calls, Fail(k) PROVE TokenUsedOnce'
  BY <1>18, RememberedFields
  DEF Fail, Go, Finish, At, TokenUsedOnce, OwnTokens, Resetting, TypeOK, ApplicationRow,
      RowsComplete, Reviewing, SubmittingSome, Inquired, Idle
<1> QED
  BY <1>1, <1>2, <1>3, <1>4, <1>5, <1>6, <1>7, <1>8, <1>9, <1>10, <1>11, <1>12, <1>13,
     <1>14, <1>15, <1>16, <1>17, <1>18, StepCases, Zenon

-----------------------------------------------------------------------------
(* The invariant, and what follows from it. *)

IInv == TInv /\ Overlaps /\ OwnSlugs /\ Current /\ KnownAccounts /\ OwnTokens /\ Fresh

LEMMA InitIInv == Init => IInv
<1> SUFFICES ASSUME Init PROVE IInv
  OBVIOUS
<1> USE Markers DEF Init, NoApplication, NoAccount, Idle
<1>1. TypeOK
  BY SlugsCounted
  DEF TypeOK, ApplicationRow, OrganisationStatus, Account, Memory
<1>2. RowsComplete BY DEF RowsComplete, Reviewing
<1>3. Overlaps BY DEF Overlaps, Submitting, Resetting, At
<1>4. OwnSlugs /\ Current BY DEF OwnSlugs, Current, Reviewing, SubmittingSome, At
<1>5. KnownAccounts BY DEF KnownAccounts, At
<1>6. OwnTokens BY DEF OwnTokens, Resetting, At
<1>7. Fresh BY DEF Fresh, SubmittingSome
<1> QED BY <1>1, <1>2, <1>3, <1>4, <1>5, <1>6, <1>7 DEF IInv, TInv

LEMMA NextIInv == IInv /\ [Next]_vars => IInv'
<1>1. ASSUME IInv, Next PROVE IInv'
  <2>1. /\ Works /\ Records /\ TInv /\ Overlaps
        /\ crossed \subseteq crossed' /\ doubled \subseteq doubled'
    BY <1>1, RecordsTyped DEF Next, IInv, TInv
  <2>2. TypeOK' /\ RowsComplete'
    BY <2>1, TypeStep, RowsStep
  <2>3. Overlaps'
    BY <2>1, <2>2, OverlapsStep
  <2>4. OwnSlugs' /\ Current'
    BY <1>1, <2>1, OwnSlugsStep, CurrentStep DEF IInv
  <2>5. KnownAccounts' /\ OwnTokens' /\ Fresh'
    BY <1>1, <2>1, KnownAccountsStep, OwnTokensStep, FreshStep DEF IInv
  <2> QED BY <2>2, <2>3, <2>4, <2>5 DEF IInv, TInv
<1>2. ASSUME IInv, UNCHANGED vars PROVE IInv'
  BY <1>2
  DEF vars, tables, history, IInv, TInv, TypeOK, RowsComplete, Overlaps, OwnSlugs,
      Current,
      KnownAccounts, OwnTokens, Fresh, Reviewing, SubmittingSome, Inquired, Submitting,
      Resetting, At
<1> QED BY <1>1, <1>2

LEMMA AlwaysIInv == Spec => []IInv
  BY InitIInv, NextIInv, PTL DEF Spec

\* Every step leaves every variable, and what the handlers remember, in its type.
THEOREM TypeCorrect == Spec => []TypeOK
<1>1. IInv => TypeOK BY DEF IInv, TInv
<1> QED BY <1>1, AlwaysIInv, PTL

\* A decided application and its organisation agree, however many reviews,
\* submissions and failures overlap (approve and reject of
\* tenant-application.service): approved is TRIAL, rejected SUSPENDED, submitted
\* PENDING, unless an administrator wrote the organisation or two submissions of
\* the inquiry overlapped.
THEOREM DecisionsAlwaysAgree == Spec => []DecisionsAgree
<1>1. Init => DecisionsAgree
  BY DEF Init, NoApplication, DecisionsAgree
<1>2. IInv /\ DecisionsAgree /\ [Next]_vars => DecisionsAgree'
  <2>1. ASSUME IInv, DecisionsAgree, Next PROVE DecisionsAgree'
    BY <2>1, DecisionsStep, RecordsTyped DEF Next, IInv, TInv
  <2>2. ASSUME DecisionsAgree, UNCHANGED vars PROVE DecisionsAgree'
    BY <2>2 DEF vars, tables, history, DecisionsAgree
  <2> QED BY <2>1, <2>2
<1> QED BY <1>1, <1>2, AlwaysIInv, PTL DEF Spec

\* An inquiry leaves no organisation behind that nobody can review, however
\* often its forms are delivered (handlePayload of typeform.service).
THEOREM NoOrganisationIsOrphaned == Spec => []NoOrphans
<1>1. Init => NoOrphans
  BY DEF Init, NoOrphans
<1>2. IInv /\ NoOrphans /\ [Next]_vars => NoOrphans'
  <2>1. ASSUME IInv, NoOrphans, Next PROVE NoOrphans'
    BY <2>1, OrphansStep, RecordsTyped DEF Next, IInv, TInv
  <2>2. ASSUME NoOrphans, UNCHANGED vars PROVE NoOrphans'
    BY <2>2 DEF vars, tables, history, NoOrphans, At
  <2> QED BY <2>1, <2>2
<1> QED BY <1>1, <1>2, AlwaysIInv, PTL DEF Spec

\* Whoever is approved has an account, also when his address registers, or is
\* approved elsewhere, between the look for it and the transaction; and he is
\* sent a token, unless the address is another organisation's or the handler
\* failed after the transaction.
THEOREM TheApprovedCanEnter == Spec => []ApprovedCanEnter
<1>1. Init => ApprovedCanEnter
  BY DEF Init, NoApplication, ApprovedCanEnter
<1>2. IInv /\ ApprovedCanEnter /\ [Next]_vars => ApprovedCanEnter'
  <2>1. ASSUME IInv, ApprovedCanEnter, Next PROVE ApprovedCanEnter'
    <3>1. /\ TInv /\ Current /\ KnownAccounts /\ Works /\ Records
          /\ crossed \subseteq crossed'
      BY <2>1, RecordsTyped DEF Next, IInv, TInv
    <3>2. CASE \E k \in Calls : Approves(k)
      BY <2>1, <3>1, <3>2, ApprovedEnters
    <3>3. CASE ~\E k \in Calls : Approves(k)
      BY <2>1, <3>1, <3>3, EnterStep, EntranceKept
    <3> QED BY <3>2, <3>3
  <2>2. ASSUME ApprovedCanEnter, UNCHANGED vars PROVE ApprovedCanEnter'
    BY <2>2 DEF vars, tables, history, ApprovedCanEnter, At
  <2> QED BY <2>1, <2>2
<1> QED BY <1>1, <1>2, AlwaysIInv, PTL DEF Spec

\* A reset token sets one password (resetPassword of auth.service), unless two
\* uses of it overlap: the write goes by the user's id, not by the token.
THEOREM TokensAreUsedOnce == Spec => []TokenUsedOnce
<1>1. Init => TokenUsedOnce
  BY DEF Init, TokenUsedOnce
<1>2. IInv /\ TokenUsedOnce /\ [Next]_vars => TokenUsedOnce'
  <2>1. ASSUME IInv, TokenUsedOnce, Next PROVE TokenUsedOnce'
    BY <2>1, TokensStep, RecordsTyped DEF Next, IInv, TInv
  <2>2. ASSUME TokenUsedOnce, UNCHANGED vars PROVE TokenUsedOnce'
    BY <2>2 DEF vars, tables, history, TokenUsedOnce
  <2> QED BY <2>1, <2>2
<1> QED BY <1>1, <1>2, AlwaysIInv, PTL DEF Spec

LEMMA DecidedStep ==
  ASSUME IInv, Next, NEW a \in Applications, Decided(a), application'[a] # application[a]
  PROVE  \E k \in Calls : a \in ReadOf(k) /\ stale[k]
<1> DEFINE G == \E k \in Calls : a \in ReadOf(k) /\ stale[k]
<1>1. TypeOK /\ RowsComplete /\ Fresh /\ Works
  BY DEF IInv, TInv, Next
<1>2. application[a].slug # None
  BY <1>1 DEF RowsComplete, Decided
<1>3. \A k \in Calls : SubmittingSome(k) /\ Inquired(k) = a => a \in ReadOf(k) /\ stale[k]
  BY <1>1, <1>2, Remembered DEF Fresh, SubmittingSome, ReadOf, At, Inquired, TypeOK
<1>4. \A k \in Calls :
        call[k].op \in {"decide", "refuse"} /\ call[k].application = a => a \in ReadOf(k) /\ stale[k]
  BY <1>1, Remembered DEF Fresh, Decided, ReadOf, At, TypeOK
<1>5. ASSUME NEW b \in Applications, createTypeformInquiry(b) PROVE G
  BY <1>1, <1>5 DEF createTypeformInquiry, Decided, NoApplication, TypeOK
<1>6. ASSUME NEW k \in Calls, linkApplication(k) PROVE G
  <2>1. Inquired(k) \in Applications /\ SubmittingSome(k)
    BY <1>1, <1>6, RememberedFields DEF linkApplication, SubmittingSome, At
  <2>2. Inquired(k) = a
    BY <1>1, <1>6, <2>1 DEF linkApplication, TypeOK, Inquired
  <2> QED BY <1>3, <2>1, <2>2
<1>7. ASSUME NEW k \in Calls, Approves(k) PROVE G
  <2>1. At(k, "decide") /\ call[k].application \in Applications
    BY <1>1, <1>7, RememberedFields DEF Approves, Reviewing, At
  <2>2. call[k].application = a
    BY <1>1, <1>7, <2>1 DEF Approves, Approval, TypeOK, tables
  <2> QED BY <1>4, <2>1, <2>2 DEF At
<1>8. ASSUME NEW k \in Calls, rejectWrite(k) PROVE G
  <2>1. At(k, "refuse") /\ call[k].application \in Applications
    BY <1>1, <1>8, RememberedFields DEF rejectWrite, Reviewing, At
  <2>2. call[k].application = a
    BY <1>1, <1>8, <2>1 DEF rejectWrite, TypeOK
  <2> QED BY <1>4, <2>1, <2>2 DEF At
<1>9. ASSUME UNCHANGED application PROVE G
  BY <1>9
<1> QED
  BY <1>1, <1>5, <1>6, <1>7, <1>8, <1>9, StepCases, Zenon
  DEF setTenantStatus, register, requestPasswordReset, Issue, handlePayload, LooksUp,
      slugLoop,
      Creates, approve, reject, Read, findExisting, invite, resetPassword, resetWrite, Fail,
      tables

\* A decided application changes only by a review or a submission that read it
\* before it was decided: no handler that starts after a decision undoes it.
THEOREM DecisionsStay == Spec => DecidedOnce
<1>1. ASSUME IInv, [Next]_vars, NEW a \in Applications, Decided(a),
             application'[a] # application[a]
      PROVE  \E k \in Calls : a \in ReadOf(k) /\ stale[k]
  BY <1>1, DecidedStep DEF vars, tables
<1>2. IInv /\ [Next]_vars =>
        [\A a \in Applications :
           /\ application[a].status \in {"APPROVED", "REJECTED"}
           /\ application'[a] # application[a]
           => \E k \in Calls : a \in ReadOf(k) /\ stale[k]]_vars
  BY <1>1 DEF Decided
<1> QED BY <1>2, AlwaysIInv, PTL DEF Spec, DecidedOnce

==============================================================================
