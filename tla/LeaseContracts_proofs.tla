----------------------- MODULE LeaseContracts_proofs -----------------------
(***************************************************************************)
(* Proofs about LeaseContracts.                                            *)
(*                                                                         *)
(* StepCases splits a step into the actions, without what it records for   *)
(* the history variables raced and stale; those are read off Works and     *)
(* Overtaken where they matter.                                            *)
(***************************************************************************)
EXTENDS LeaseContracts, FiniteSetTheorems, TLAPS

Step == Works \/ Stop \/ \E r \in Requests : Fail(r)

\* Whatever each action establishes, every step does.
LEMMA StepCases ==
  ASSUME Step, NEW G,
         \A c \in Contracts, t \in Tenants, s \in Created : create(c, t, s) => G,
         \A c \in Contracts, s \in Edits : update(c, s) => G,
         \A c \in Contracts : remove(c) => G,
         \A c \in Contracts, r \in Requests : sign(r, c) \/ terminate(r, c) \/ renew(r, c) => G,
         \A r \in Requests : signWrite(r) => G,
         \A r \in Requests : terminateWrite(r) => G,
         \A r \in Requests : renewWrite(r) => G,
         \A r \in Requests : signCount(r) => G,
         \A r \in Requests : startFind(r) => G,
         \A r \in Requests : startCreate(r) => G,
         \A r \in Requests, ok \in BOOLEAN : startMail(r, ok) => G,
         \A r \in Requests : startFlag(r) => G,
         Morning => G,
         \A t \in Tenants, d \in Days : jobMail(t, d) => G,
         \A t \in Tenants, d \in Days : jobRefused(t, d) => G,
         jobFlag => G,
         Stop => G,
         \A r \in Requests : Fail(r) => G
  PROVE  G
  BY DEF Step, Works, Starts, Goes, Drip

-----------------------------------------------------------------------------
(* Types. *)

\* All but the last two history variables, which every step sets alike; and a
\* contract that exists has its tenant.
Types ==
  /\ contract \in [Contracts -> Row]
  /\ sequence \in [Tenants -> Sequence]
  /\ request \in [Requests -> Request \cup {Idle}]
  /\ job \in Job
  /\ stops \in 0..MaxStops
  /\ mailed \in [Tenants -> [Mails -> 0..2]]
  /\ cut \subseteq Tenants \X Mails
  /\ \A c \in Contracts : Exists(c) => contract[c].tenant \in Tenants

\* What a request in flight remembers.
LEMMA Remembered ==
  ASSUME Types, NEW r \in Requests
  PROVE  /\ request[r].op \in {"sign", "terminate", "renew"} =>
              request[r] \in Request /\ request[r].contract \in Contracts
         /\ request[r].op \in {"count", "start", "create", "mail", "flag"} =>
              /\ request[r] \in Request /\ request[r].contract \in Contracts
              /\ request[r].tenant \in Tenants
              /\ request[r] = [op |-> request[r].op, contract |-> request[r].contract,
                               tenant |-> request[r].tenant]
  BY DEF Types, Request, Idle

\* A request goes on, and the contracts stay.
LEMMA GoTypes ==
  ASSUME Types, NEW r \in Requests, NEW m \in Request \cup {Idle}, Go(r, m),
         UNCHANGED <<contract, sequence, job, stops, mailed, cut>>
  PROVE  Types'
  BY DEF Types, Go, Exists

\* One contract is written.
LEMMA WriteTypes ==
  ASSUME Types, NEW c \in Contracts, NEW row \in Row,
         row.status \in ContractStatus => row.tenant \in Tenants,
         contract' = [contract EXCEPT ![c] = row],
         UNCHANGED <<sequence, job, stops, mailed, cut>>,
         request' \in [Requests -> Request \cup {Idle}]
  PROVE  Types'
  BY DEF Types, Exists

LEMMA UpdateTypes ==
  ASSUME Types, NEW c \in Contracts, Exists(c), NEW s \in ContractStatus
  PROVE  /\ [contract[c] EXCEPT !.status = s] \in Row
         /\ [contract[c] EXCEPT !.status = s].tenant \in Tenants
         /\ [contract EXCEPT ![c].status = s]
              = [contract EXCEPT ![c] = [contract[c] EXCEPT !.status = s]]
         /\ contract[c].tenant \in Tenants
  BY DEF Types, Row

\* Only a mail is counted.
LEMMA AcceptedTypes ==
  ASSUME Types, NEW t \in Tenants, NEW d \in Mails, Accepted(t, d)
  PROVE  /\ mailed' \in [Tenants -> [Mails -> 0..2]]
         /\ mailed'[t][d] = IF mailed[t][d] = 0 THEN 1 ELSE 2
         /\ \A u \in Tenants, e \in Mails : <<u, e>> # <<t, d>> => mailed'[u][e] = mailed[u][e]
  <1>1. mailed[t] \in [Mails -> 0..2]
    BY DEF Types
  <1>2. mailed' = [mailed EXCEPT ![t] = [mailed[t] EXCEPT ![d] = IF @ = 0 THEN 1 ELSE 2]]
    BY DEF Accepted
  <1> QED
    BY <1>1, <1>2 DEF Types

LEMMA DaysAreMails == Days \subseteq Mails /\ 0 \in Mails /\ 0 \notin Days
  BY DaysInOrder DEF Mails

LEMMA FlagTypes ==
  ASSUME Types, NEW r \in Requests
  PROVE  Flags(r) \subseteq Tenants \X Mails
  <1>1. CASE At(r, "flag")
    <2>1. request[r].tenant \in Tenants
      BY <1>1, Remembered DEF At
    <2> QED
      BY <1>1, <2>1, DaysAreMails DEF Flags
  <1>2. CASE ~At(r, "flag")
    BY <1>2 DEF Flags
  <1> QED
    BY <1>1, <1>2

LEMMA TypeStep ==
  ASSUME Types, Step
  PROVE  Types'
  <1>1. ASSUME NEW c \in Contracts, NEW t \in Tenants, NEW s \in Created, create(c, t, s)
        PROVE  Types'
    <2>1. [status |-> s, tenant |-> t] \in Row
      BY StatusesValidated DEF Row
    <2> QED
      BY <1>1, <2>1, WriteTypes DEF create, history, Types
  <1>2. ASSUME NEW c \in Contracts, NEW s \in Edits, update(c, s) PROVE Types'
    <2>1. s \in ContractStatus
      BY StatusesValidated
    <2> QED
      BY <1>2, <2>1, UpdateTypes, WriteTypes DEF update, history, Types
  <1>3. ASSUME NEW c \in Contracts, remove(c) PROVE Types'
    <2>1. [status |-> "deleted", tenant |-> Nobody] \in Row
      BY DEF Row
    <2> QED
      BY <1>3, <2>1, WriteTypes DEF remove, history, Types, ContractStatus
  <1>4. ASSUME NEW c \in Contracts, NEW r \in Requests, sign(r, c) \/ terminate(r, c) \/ renew(r, c)
        PROVE  Types'
    <2>1. PICK op \in {"sign", "terminate", "renew"} : Read(r, c, op)
      BY <1>4 DEF sign, terminate, renew
    <2>2. [op |-> op, contract |-> c] \in Request
      BY DEF Request
    <2> QED
      BY <2>1, <2>2, GoTypes DEF Read, Begin, Go, tables, history
  <1>5. ASSUME NEW r \in Requests, signWrite(r) PROVE Types'
    <2> DEFINE c == request[r].contract
    <2>1. c \in Contracts /\ Exists(c)
      BY <1>5, Remembered DEF signWrite, signAs, Write, At
    <2>2. contract[c].tenant \in Tenants
      BY <2>1 DEF Types
    <2>3. [op |-> "count", contract |-> c, tenant |-> contract[c].tenant] \in Request
      BY <2>1, <2>2 DEF Request
    <2>4. request' \in [Requests -> Request \cup {Idle}]
      BY <1>5, <2>3 DEF signWrite, signAs, Go, Types
    <2>5. "ACTIVE" \in ContractStatus
      BY DEF ContractStatus
    <2> QED
      BY <1>5, <2>1, <2>4, <2>5, UpdateTypes, WriteTypes DEF signWrite, signAs, Write, history
  <1>6. ASSUME NEW r \in Requests, terminateWrite(r) PROVE Types'
    <2>1. request[r].contract \in Contracts /\ Exists(request[r].contract)
      BY <1>6, Remembered DEF terminateWrite, Write, At
    <2>2. request' \in [Requests -> Request \cup {Idle}] /\ "TERMINATED" \in ContractStatus
      BY <1>6 DEF terminateWrite, Finish, Go, Types, ContractStatus
    <2> QED
      BY <1>6, <2>1, <2>2, UpdateTypes, WriteTypes DEF terminateWrite, Write, history
  <1>7. ASSUME NEW r \in Requests, renewWrite(r) PROVE Types'
    <2>1. request[r].contract \in Contracts /\ Exists(request[r].contract)
      BY <1>7, Remembered DEF renewWrite, Write, At
    <2>2. request' \in [Requests -> Request \cup {Idle}] /\ "RENEWED" \in ContractStatus
      BY <1>7 DEF renewWrite, Finish, Go, Types, ContractStatus
    <2> QED
      BY <1>7, <2>1, <2>2, UpdateTypes, WriteTypes DEF renewWrite, Write, history
  <1>8. ASSUME NEW r \in Requests, signCount(r) PROVE Types'
    <2>1. [request[r] EXCEPT !.op = "start"] \in Request
      BY <1>8, Remembered DEF signCount, At, Request
    <2> QED
      BY <1>8, <2>1, GoTypes DEF signCount, Finish, tables, history
  <1>9. ASSUME NEW r \in Requests, startFind(r) PROVE Types'
    <2>1. [request[r] EXCEPT !.op = "create"] \in Request
      BY <1>9, Remembered DEF startFind, At, Request
    <2> QED
      BY <1>9, <2>1, GoTypes DEF startFind, Finish, tables, history
  <1>10. ASSUME NEW r \in Requests, startCreate(r) PROVE Types'
    <2>1. [request[r] EXCEPT !.op = "mail"] \in Request /\ request[r].tenant \in Tenants
      BY <1>10, Remembered DEF startCreate, At, Request
    <2>2. [NoSequence EXCEPT !.enrolled = TRUE] \in Sequence
      <3>1. 0 \in 0..LastDay /\ {} \in SUBSET Mails
        BY DaysInOrder
      <3>2. NoSequence \in Sequence
        BY <3>1 DEF NoSequence, Sequence
      <3> QED
        BY <3>2 DEF Sequence
    <2>3. /\ sequence' \in [Tenants -> Sequence]
          /\ request' \in [Requests -> Request \cup {Idle}]
      BY <1>10, <2>1, <2>2 DEF startCreate, Finish, Go, Types
    <2> QED
      BY <1>10, <2>3 DEF startCreate, history, Types, Exists
  <1>11. ASSUME NEW r \in Requests, NEW ok \in BOOLEAN, startMail(r, ok) PROVE Types'
    <2>1. [request[r] EXCEPT !.op = "flag"] \in Request /\ request[r].tenant \in Tenants
      BY <1>11, Remembered DEF startMail, At, Request
    <2>2. mailed' \in [Tenants -> [Mails -> 0..2]]
      BY <1>11, <2>1, AcceptedTypes, DaysAreMails DEF startMail, Types
    <2>3. request' \in [Requests -> Request \cup {Idle}]
      BY <1>11, <2>1 DEF startMail, Finish, Go, Types
    <2> QED
      BY <1>11, <2>2, <2>3 DEF startMail, tables, Types, Exists
  <1>12. ASSUME NEW r \in Requests, startFlag(r) PROVE Types'
    <2>1. request[r].tenant \in Tenants
      BY <1>12, Remembered DEF startFlag, At
    <2>2. [sequence[request[r].tenant] EXCEPT !.sent = @ \cup {0}] \in Sequence
      BY <2>1, DaysAreMails DEF Types, Sequence
    <2>3. /\ sequence' \in [Tenants -> Sequence]
          /\ request' \in [Requests -> Request \cup {Idle}]
      BY <1>12, <2>1, <2>2 DEF startFlag, Finish, Go, Types
    <2> QED
      BY <1>12, <2>3 DEF startFlag, history, Types, Exists
  <1>13. ASSUME Morning PROVE Types'
    <2>1. ASSUME NEW t \in Tenants PROVE Older[t] \in Sequence
      <3>1. sequence[t] \in Sequence
        BY DEF Types
      <3>2. CASE sequence[t].enrolled /\ sequence[t].age < LastDay
        <4>1. sequence[t].age + 1 \in 0..LastDay
          BY <3>1, <3>2, DaysInOrder DEF Sequence
        <4>2. [sequence[t] EXCEPT !.age = sequence[t].age + 1] \in Sequence
          BY <3>1, <4>1 DEF Sequence
        <4> QED
          BY <3>2, <4>2 DEF Older
      <3> QED
        BY <3>1, <3>2 DEF Older
    <2>2. sequence' \in [Tenants -> Sequence] /\ job' \in Job
      BY <1>13, <2>1 DEF Morning, Older, Job
    <2> QED
      BY <1>13, <2>2 DEF Morning, history, Types, Exists
  <1>14. ASSUME NEW t \in Tenants, NEW d \in Days, jobMail(t, d) PROVE Types'
    <2>1. job' \in Job
      BY <1>14 DEF jobMail, Job, Types
    <2>2. mailed' \in [Tenants -> [Mails -> 0..2]]
      BY <1>14, AcceptedTypes, DaysAreMails DEF jobMail
    <2> QED
      BY <1>14, <2>1, <2>2 DEF jobMail, tables, Types, Exists
  <1>15. ASSUME NEW t \in Tenants, NEW d \in Days, jobRefused(t, d) PROVE Types'
    <2>1. job' \in Job
      BY <1>15 DEF jobRefused, Job, Types
    <2> QED
      BY <1>15, <2>1 DEF jobRefused, tables, history, Types, Exists
  <1>16. ASSUME jobFlag PROVE Types'
    <2>1. job' \in Job /\ job.flag \in Tenants \X Days
      BY <1>16 DEF jobFlag, Job, Types
    <2>2. [sequence[job.flag[1]] EXCEPT !.sent = @ \cup {job.flag[2]}] \in Sequence
      <3>1. sequence[job.flag[1]] \in Sequence /\ job.flag[2] \in Mails
        BY <2>1, DaysAreMails DEF Types
      <3>2. sequence[job.flag[1]].sent \cup {job.flag[2]} \in SUBSET Mails
        BY <3>1 DEF Sequence
      <3> QED
        BY <3>1, <3>2 DEF Sequence
    <2>3. sequence' \in [Tenants -> Sequence]
      BY <1>16, <2>1, <2>2 DEF jobFlag, Types
    <2> QED
      BY <1>16, <2>1, <2>3 DEF jobFlag, history, Types, Exists
  <1>17. ASSUME Stop PROVE Types'
    <2>1. \A r \in Requests : Flags(r) \subseteq Tenants \X Mails
      BY FlagTypes
    <2>2. job.flag # Nobody => {job.flag} \subseteq Tenants \X Mails
      BY DaysAreMails DEF Types, Job
    <2>3. cut' \subseteq Tenants \X Mails
      <3> DEFINE flags == UNION {Flags(r) : r \in Requests}
      <3>1. flags \subseteq Tenants \X Mails
        BY <2>1
      <3>2. cut' = cut \cup flags \cup ({job.flag} \ {Nobody})
        BY <1>17 DEF Stop
      <3> HIDE DEF flags
      <3> QED
        BY <2>2, <3>1, <3>2 DEF Types
    <2>4. /\ request' \in [Requests -> Request \cup {Idle}]
          /\ job' \in Job /\ stops' \in 0..MaxStops
      BY <1>17, DaysInOrder DEF Stop, Job, NoJob, Types
    <2> QED
      BY <1>17, <2>3, <2>4 DEF Stop, tables, Types, Exists
  <1>18. ASSUME NEW r \in Requests, Fail(r) PROVE Types'
    <2>1. Flags(r) \subseteq Tenants \X Mails
      BY FlagTypes
    <2>2. request' \in [Requests -> Request \cup {Idle}]
      BY <1>18 DEF Fail, Finish, Go, Types
    <2> QED
      BY <1>18, <2>1, <2>2 DEF Fail, tables, Types, Exists
  <1> QED
    BY StepCases, <1>1, <1>2, <1>3, <1>4, <1>5, <1>6, <1>7, <1>8, <1>9, <1>10, <1>11, <1>12,
       <1>13, <1>14, <1>15, <1>16, <1>17, <1>18

TInv == Types /\ raced \subseteq Tenants /\ stale \in [Requests -> BOOLEAN]

LEMMA TypesAreTypeOK == TInv => TypeOK
  BY DEF TInv, Types, TypeOK

LEMMA TypeInit == Init => TInv
  <1> SUFFICES ASSUME Init PROVE TInv
    OBVIOUS
  <1>1. NoContract \in Row /\ \A c \in Contracts : ~Exists(c)
    BY DEF Init, NoContract, Row, Exists, ContractStatus
  <1>2. NoSequence \in Sequence
    <2>1. 0 \in 0..LastDay /\ {} \in SUBSET Mails
      BY DaysInOrder
    <2> QED
      BY <2>1 DEF NoSequence, Sequence
  <1>3. stops \in 0..MaxStops
    BY DaysInOrder DEF Init
  <1>4. NoJob \in Job
    BY DEF NoJob, Job
  <1> QED
    BY <1>1, <1>2, <1>3, <1>4 DEF Init, TInv, Types

\* What a step records.
LEMMA Recorded ==
  ASSUME TInv, [Next]_vars
  PROVE  /\ Step \/ UNCHANGED vars
         /\ raced \subseteq raced' /\ raced' \subseteq Tenants
         /\ stale' \in [Requests -> BOOLEAN]
  BY DEF TInv, Next, Step, Works, Stop, Fail, Overtaken, vars

LEMMA TypeNext == TInv /\ [Next]_vars => TInv'
  <1> SUFFICES ASSUME TInv, [Next]_vars PROVE TInv'
    OBVIOUS
  <1>1. CASE Step
    BY <1>1, TypeStep, Recorded DEF TInv
  <1>2. CASE UNCHANGED vars
    BY <1>2 DEF TInv, Types, Exists, vars, tables, history
  <1> QED
    BY <1>1, <1>2, Recorded

\* In every reachable state the variables have their types.
THEOREM TypeCorrect == Spec => []TypeOK
  BY TypeInit, TypeNext, TypesAreTypeOK, PTL DEF Spec

-----------------------------------------------------------------------------
(* The onboarding of a tenant with a contract in force. *)

\* The signature of c by t that is still to be counted, or to start what it
\* was counted for.
Counting(r, c, t) ==
  request[r].op \in {"count", "start", "create"}
  /\ request[r].contract = c /\ request[r].tenant = t

Racers == \A t \in Tenants : Racing(t) => t \in raced
InForce(c, t) == contract[c] = [status |-> "ACTIVE", tenant |-> t]
Counted ==
  Configured => \A t \in Tenants \ raced, c \in Contracts :
    InForce(c, t) => sequence[t].enrolled \/ \E r \in Requests : Counting(r, c, t)
SInv == TInv /\ Racers /\ Counted

LEMMA CountingSigns ==
  ASSUME NEW r \in Requests, NEW c \in Contracts, NEW t \in Tenants, Counting(r, c, t)
  PROVE  Signing(r, t)
  BY DEF Counting, Signing, Idle

LEMMA RacersStep ==
  ASSUME Racers, raced \subseteq raced', Step
  PROVE  Racers'
  <1>1. CASE Works
    BY <1>1 DEF Works, Racers
  <1>2. CASE Stop
    BY <1>2 DEF Stop, Racers, Racing, Signing
  <1>3. ASSUME NEW r \in Requests, Fail(r) PROVE Racers'
    <2>1. \A q \in Requests, t \in Tenants : Signing(q, t)' => Signing(q, t)
      BY <1>3 DEF Fail, Finish, Go, Signing, tables
    <2> QED
      BY <2>1 DEF Racers, Racing
  <1> QED
    BY <1>1, <1>2, <1>3 DEF Step

\* What is enough for Counted to be kept.
LEMMA CountedKept ==
  ASSUME Counted, raced \subseteq raced',
         \A t \in Tenants \ raced', c \in Contracts :
           InForce(c, t)' => InForce(c, t) \/ \E r \in Requests : Counting(r, c, t)',
         \A t \in Tenants : sequence[t].enrolled => sequence'[t].enrolled,
         \A r \in Requests, t \in Tenants \ raced', c \in Contracts :
           Counting(r, c, t) /\ InForce(c, t) => Counting(r, c, t)' \/ sequence'[t].enrolled
  PROVE  Counted'
  BY DEF Counted

\* The same for a step that leaves contracts and onboardings alone.
LEMMA CountedGoes ==
  ASSUME Counted, raced \subseteq raced', UNCHANGED tables, NEW r \in Requests,
         \A q \in Requests \ {r} : request'[q] = request[q],
         \A t \in Tenants \ raced', c \in Contracts :
           Counting(r, c, t) /\ InForce(c, t) => Counting(r, c, t)' \/ sequence[t].enrolled
  PROVE  Counted'
  <1>1. \A q \in Requests \ {r}, t \in Tenants, c \in Contracts :
          Counting(q, c, t) => Counting(q, c, t)'
    BY DEF Counting
  <1> QED
    BY <1>1, CountedKept DEF InForce, tables

\* Two contracts of a tenant are in force: one of them was not signed by r.
LEMMA AnotherInForce ==
  ASSUME NEW t \in Tenants, NEW c \in Contracts, InForce(c, t), ~First(t)
  PROVE  \E d \in Contracts \ {c} : InForce(d, t)
  <1> DEFINE S == {d \in Contracts : contract[d] = [status |-> "ACTIVE", tenant |-> t]}
  <1>1. Cardinality(S) # 1
    BY DEF First
  <1>2. Cardinality({c}) = 1
    BY FS_Singleton
  <1>3. S # {c} /\ c \in S
    BY <1>1, <1>2 DEF InForce
  <1> QED
    BY <1>3 DEF InForce


\* POST, PATCH and DELETE: what they put in force without a signature is raced.
LEMMA CountedTables ==
  ASSUME Counted, raced \subseteq raced', request' = request, sequence' = sequence,
         NEW c \in Contracts, contract \in [Contracts -> Row],
         NEW row, contract' = [contract EXCEPT ![c] = row],
         row.status = "ACTIVE" =>
           row.tenant = contract[c].tenant \/ contract[c].status # "ACTIVE",
         \A t \in Tenants : Unsigned(t) => t \in raced'
  PROVE  Counted'
  <1>1. \A t \in Tenants \ raced', d \in Contracts : InForce(d, t)' => InForce(d, t)
    <2> SUFFICES ASSUME NEW t \in Tenants \ raced', NEW d \in Contracts, InForce(d, t)'
                 PROVE  InForce(d, t)
      OBVIOUS
    <2>1. contract[d].status = "ACTIVE"
      BY DEF Unsigned, InForce
    <2>2. CASE d = c
      <3>1. row = [status |-> "ACTIVE", tenant |-> t]
        BY <2>2 DEF InForce
      <3> QED
        BY <2>1, <2>2, <3>1 DEF InForce, Row
    <2>3. CASE d # c
      BY <2>3 DEF InForce
    <2> QED
      BY <2>2, <2>3
  <1> QED
    BY <1>1, CountedKept DEF Counting

LEMMA UnsignedIsRaced ==
  ASSUME Step
  PROVE  \A t \in Tenants : Unsigned(t) => t \in raced'
  <1>1. CASE Works
    BY <1>1 DEF Works
  <1>2. CASE Stop \/ \E r \in Requests : Fail(r)
    <2>1. contract' = contract
      BY <1>2 DEF Stop, Fail, tables
    <2> QED
      BY <2>1 DEF Unsigned
  <1> QED
    BY <1>1, <1>2 DEF Step

LEMMA CountedStep ==
  ASSUME Types, Racers, Counted, raced \subseteq raced', Step
  PROVE  Counted'
  <1>0. /\ \A t \in Tenants : Unsigned(t) => t \in raced'
        /\ contract \in [Contracts -> Row] /\ request \in [Requests -> Request \cup {Idle}]
    BY UnsignedIsRaced DEF Types
  <1>1. ASSUME NEW c \in Contracts, NEW t \in Tenants, NEW s \in Created, create(c, t, s)
        PROVE  Counted'
    <2>1. contract[c].status # "ACTIVE"
      BY <1>1 DEF create, NoContract
    <2> QED
      BY <1>0, <1>1, <2>1, CountedTables DEF create
  <1>2. ASSUME NEW c \in Contracts, NEW s \in Edits, update(c, s) PROVE Counted'
    <2> DEFINE row == [contract[c] EXCEPT !.status = s]
    <2>1. contract' = [contract EXCEPT ![c] = row] /\ row.tenant = contract[c].tenant
      BY <1>0, <1>2 DEF update, Row
    <2> HIDE DEF row
    <2> QED
      BY <1>0, <1>2, <2>1, CountedTables DEF update
  <1>3. ASSUME NEW c \in Contracts, remove(c) PROVE Counted'
    <2> DEFINE row == [status |-> "deleted", tenant |-> Nobody]
    <2>1. contract' = [contract EXCEPT ![c] = row] /\ row.status # "ACTIVE"
      BY <1>3 DEF remove
    <2> HIDE DEF row
    <2> QED
      BY <1>0, <1>3, <2>1, CountedTables DEF remove
  <1>4. ASSUME NEW c \in Contracts, NEW r \in Requests, sign(r, c) \/ terminate(r, c) \/ renew(r, c)
        PROVE  Counted'
    <2>1. PICK op \in {"sign", "terminate", "renew"} : Read(r, c, op)
      BY <1>4 DEF sign, terminate, renew
    <2>2. request[r] = Idle /\ \A q \in Requests \ {r} : request'[q] = request[q]
      BY <1>0, <2>1 DEF Read, Begin
    <2> QED
      BY <2>1, <2>2, CountedGoes DEF Read, Counting, Idle
  <1>5. ASSUME NEW r \in Requests, signWrite(r) PROVE Counted'
    <2> DEFINE c == request[r].contract
               u == contract[c].tenant
    <2>1. /\ At(r, "sign") /\ c \in Contracts /\ Exists(c) /\ sequence' = sequence
          /\ contract' = [contract EXCEPT ![c].status = "ACTIVE"]
          /\ request' = [request EXCEPT ![r] = [op |-> "count", contract |-> c, tenant |-> u]]
      BY <1>5, Remembered DEF signWrite, signAs, Write, At, Go
    <2>2. request'[r] = [op |-> "count", contract |-> c, tenant |-> u]
      BY <1>0, <2>1
    <2>3. \A t \in Tenants, d \in Contracts : InForce(d, t)' => InForce(d, t) \/ Counting(r, d, t)'
      <3> SUFFICES ASSUME NEW t \in Tenants, NEW d \in Contracts, InForce(d, t)', ~InForce(d, t)
                   PROVE  Counting(r, d, t)'
        OBVIOUS
      <3>1. d = c
        BY <2>1 DEF InForce
      <3>2. contract'[c].tenant = u
        BY <1>0, <2>1 DEF Row
      <3>3. t = u
        BY <3>1, <3>2 DEF InForce
      <3> QED
        BY <2>2, <3>1, <3>3 DEF Counting
    <2>4. \A q \in Requests, t \in Tenants, d \in Contracts : Counting(q, d, t) => Counting(q, d, t)'
      BY <1>0, <2>1 DEF Counting, At
    <2> QED
      BY <2>1, <2>3, <2>4, CountedKept
  <1>6. ASSUME NEW r \in Requests, terminateWrite(r) \/ renewWrite(r) PROVE Counted'
    <2>1. PICK op \in {"terminate", "renew"}, s \in {"TERMINATED", "RENEWED"} :
            Write(r, op, s) /\ Finish(r)
      BY <1>6 DEF terminateWrite, renewWrite
    <2>2. \A t \in Tenants, d \in Contracts : InForce(d, t)' => InForce(d, t)
      <3>1. request[r].contract \in Contracts
        BY <2>1, Remembered DEF Write, At
      <3> QED
        BY <1>0, <2>1, <3>1 DEF Write, InForce, Row
    <2>3. \A q \in Requests, t \in Tenants, d \in Contracts : Counting(q, d, t) => Counting(q, d, t)'
      BY <1>0, <2>1 DEF Write, Finish, Go, Counting, At
    <2> QED
      BY <2>1, <2>2, <2>3, CountedKept DEF Write
  <1>7. ASSUME NEW r \in Requests, signCount(r) PROVE Counted'
    <2>1. \A q \in Requests \ {r} : request'[q] = request[q]
      BY <1>0, <1>7 DEF signCount, Finish, Go
    <2>2. ASSUME Configured, NEW t \in Tenants \ raced', NEW c \in Contracts, Counting(r, c, t), InForce(c, t)
          PROVE  Counting(r, c, t)' \/ sequence[t].enrolled
      <3>1. CASE First(t)
        <4>1. request'[r] = [request[r] EXCEPT !.op = "start"]
          BY <1>0, <1>7, <2>2, <3>1 DEF signCount, Go, Counting
        <4>2. request[r] \in Request
          BY <1>7, Remembered DEF signCount, At
        <4> QED
          BY <2>2, <4>1, <4>2 DEF Counting, Request
      <3>2. CASE ~First(t)
        <4>1. PICK d \in Contracts \ {c} : InForce(d, t)
          BY <2>2, <3>2, AnotherInForce
        <4>2. CASE \E q \in Requests : Counting(q, d, t)
          <5>1. PICK q \in Requests : Counting(q, d, t)
            BY <4>2
          <5>2. q # r
            BY <2>2, <4>1, <5>1 DEF Counting
          <5>3. Signing(q, t) /\ Signing(r, t)
            BY <2>2, <4>1, <5>1, CountingSigns
          <5> QED
            BY <5>2, <5>3 DEF Racers, Racing
        <4>3. CASE sequence[t].enrolled
          BY <4>3
        <4> QED
          BY <2>2, <4>1, <4>2, <4>3 DEF Counted
      <3> QED
        BY <3>1, <3>2
    <2>3. CASE Configured
      BY <1>7, <2>1, <2>2, <2>3, CountedGoes DEF signCount
    <2>4. CASE ~Configured
      BY <2>4 DEF Counted
    <2> QED
      BY <2>3, <2>4
  <1>8. ASSUME NEW r \in Requests, startFind(r) PROVE Counted'
    <2>1. request[r] \in Request /\ \A q \in Requests \ {r} : request'[q] = request[q]
      BY <1>0, <1>8, Remembered DEF startFind, Finish, Go, At
    <2>2. ASSUME Configured
          PROVE  \A t \in Tenants, c \in Contracts :
                   Counting(r, c, t) => Counting(r, c, t)' \/ sequence[t].enrolled
      BY <1>0, <1>8, <2>1, <2>2 DEF startFind, Go, Counting, Request
    <2>3. CASE Configured
      BY <1>8, <2>1, <2>2, <2>3, CountedGoes DEF startFind
    <2>4. CASE ~Configured
      BY <2>4 DEF Counted
    <2> QED
      BY <2>3, <2>4
  <1>9. ASSUME NEW r \in Requests, startCreate(r) PROVE Counted'
    <2>1. request[r].tenant \in Tenants
      BY <1>9, Remembered DEF startCreate, At
    <2>2. /\ \A t \in Tenants : sequence[t].enrolled => sequence'[t].enrolled
          /\ sequence'[request[r].tenant].enrolled
      BY <1>9, <2>1 DEF startCreate, Unique, NoSequence, Types
    <2>3. \A q \in Requests \ {r} : request'[q] = request[q]
      BY <1>0, <1>9 DEF startCreate, Finish, Go
    <2>4. \A q \in Requests, t \in Tenants, c \in Contracts :
            Counting(q, c, t) => Counting(q, c, t)' \/ sequence'[t].enrolled
      BY <2>2, <2>3 DEF Counting
    <2> QED
      BY <1>9, <2>2, <2>4, CountedKept DEF startCreate, InForce
  <1>10. ASSUME NEW r \in Requests, NEW ok \in BOOLEAN, startMail(r, ok) PROVE Counted'
    <2>1. /\ ~\E c \in Contracts, t \in Tenants : Counting(r, c, t)
          /\ \A q \in Requests \ {r} : request'[q] = request[q]
      BY <1>0, <1>10 DEF startMail, Finish, Go, Counting, At
    <2> QED
      BY <1>10, <2>1, CountedGoes DEF startMail
  <1>11. ASSUME NEW r \in Requests, startFlag(r) PROVE Counted'
    <2>1. request[r].tenant \in Tenants
      BY <1>11, Remembered DEF startFlag, At
    <2>2. \A t \in Tenants : sequence[t].enrolled => sequence'[t].enrolled
      BY <1>11, <2>1 DEF startFlag, Types, Sequence
    <2>3. \A q \in Requests, t \in Tenants, c \in Contracts : Counting(q, c, t) => Counting(q, c, t)'
      BY <1>0, <1>11 DEF startFlag, Finish, Go, Counting, At
    <2> QED
      BY <1>11, <2>2, <2>3, CountedKept DEF startFlag, InForce
  <1>12. ASSUME Morning PROVE Counted'
    <2>1. \A t \in Tenants : sequence[t].enrolled => sequence'[t].enrolled
      BY <1>12 DEF Morning, Older, Types, Sequence
    <2> QED
      BY <1>12, <2>1, CountedKept DEF Morning, InForce, Counting
  <1>13. ASSUME NEW t \in Tenants, NEW d \in Days, jobMail(t, d) \/ jobRefused(t, d) PROVE Counted'
    <2>1. UNCHANGED <<contract, sequence, request>>
      BY <1>13 DEF jobMail, jobRefused, tables
    <2> QED
      BY <2>1, CountedKept DEF InForce, Counting
  <1>14. ASSUME jobFlag PROVE Counted'
    <2>1. job.flag[1] \in Tenants
      BY <1>14 DEF jobFlag, Types, Job
    <2>2. \A t \in Tenants : sequence[t].enrolled => sequence'[t].enrolled
      BY <1>14, <2>1 DEF jobFlag, Types, Sequence
    <2> QED
      BY <1>14, <2>2, CountedKept DEF jobFlag, InForce, Counting
  <1>15. ASSUME Stop PROVE Counted'
    <2>1. \A r \in Requests, t \in Tenants, c \in Contracts : Counting(r, c, t) => t \in raced'
      BY <1>15, CountingSigns DEF Stop
    <2>2. UNCHANGED <<contract, sequence>>
      BY <1>15 DEF Stop, tables
    <2> QED
      BY <2>1, <2>2, CountedKept DEF InForce
  <1>16. ASSUME NEW r \in Requests, Fail(r) PROVE Counted'
    <2>1. \A t \in Tenants, c \in Contracts : Counting(r, c, t) => t \in raced'
      BY <1>16, CountingSigns DEF Fail
    <2>2. \A q \in Requests \ {r} : request'[q] = request[q]
      BY <1>0, <1>16 DEF Fail, Finish, Go
    <2> QED
      BY <1>16, <2>1, <2>2, CountedGoes DEF Fail
  <1> QED
    BY StepCases, <1>1, <1>2, <1>3, <1>4, <1>5, <1>6, <1>7, <1>8, <1>9, <1>10, <1>11, <1>12,
       <1>13, <1>14, <1>15, <1>16

LEMMA SignedInit == Init => SInv
  <1> SUFFICES ASSUME Init PROVE SInv
    OBVIOUS
  <1>1. Racers
    BY DEF Init, Racers, Racing, Signing
  <1>2. Counted
    BY DEF Init, Counted, InForce, NoContract
  <1> QED
    BY <1>1, <1>2, TypeInit DEF SInv

LEMMA SignedNext == SInv /\ [Next]_vars => SInv'
  <1> SUFFICES ASSUME SInv, [Next]_vars PROVE SInv'
    OBVIOUS
  <1>1. TInv'
    BY TypeNext DEF SInv
  <1>2. CASE Step
    BY <1>1, <1>2, Recorded, RacersStep, CountedStep DEF SInv, TInv
  <1>3. CASE UNCHANGED vars
    BY <1>1, <1>3 DEF SInv, Racers, Racing, Signing, Counted, InForce, Counting, vars, tables
  <1> QED
    BY <1>2, <1>3, Recorded DEF SInv

LEMMA SignedImplies == SInv => SignedMeansOnboarded
  <1> SUFFICES ASSUME SInv, Configured, NEW t \in Tenants \ raced, NEW c \in Contracts,
                      contract[c] = [status |-> "ACTIVE", tenant |-> t],
                      \A r \in Requests : ~Signing(r, t)
               PROVE  sequence[t].enrolled
    BY DEF SignedMeansOnboarded
  <1> QED
    BY CountingSigns DEF SInv, Counted, InForce

\* A tenant with a contract in force is onboarded, unless his signatures raced.
THEOREM SignedTenantsAreOnboarded == Spec => []SignedMeansOnboarded
  BY SignedInit, SignedNext, SignedImplies, PTL DEF Spec

-----------------------------------------------------------------------------
(* A mail is accepted once. *)

OfDayZero(r) == request[r].op \in {"mail", "flag"}

\* The first mail of an onboarding is sent by the one request that created it.
DayZero ==
  \A r \in Requests : OfDayZero(r) =>
    LET t == request[r].tenant IN
    /\ sequence[t].enrolled
    /\ IF At(r, "mail") THEN mailed[t][0] = 0 ELSE mailed[t][0] > 0
    /\ \A q \in Requests : OfDayZero(q) /\ request[q].tenant = t => q = r

\* What the job has still to send is neither flagged nor about to be.
Todo ==
  /\ \A t \in Tenants, d \in Days : <<t, d>> \in job.todo =>
       sequence[t].enrolled /\ d \notin sequence[t].sent /\ job.flag # <<t, d>>
  /\ \A t \in Tenants, d \in Days : job.flag = <<t, d>> => mailed[t][d] > 0

Awaited(t, d) ==
  \/ d = 0 /\ \E r \in Requests : At(r, "flag") /\ request[r].tenant = t
  \/ d # 0 /\ job.flag = <<t, d>>

\* What was accepted is flagged, will be, or lost its flag.
Accounts(t, d) ==
  /\ mailed[t][d] > 0 =>
       sequence[t].enrolled /\ (d \in sequence[t].sent \/ <<t, d>> \in cut \/ Awaited(t, d))
  /\ d \in sequence[t].sent => mailed[t][d] > 0
  /\ mailed[t][d] > 1 => <<t, d>> \in cut
Accounted == \A t \in Tenants, d \in Mails : Accounts(t, d)

MInv == DayZero /\ Todo /\ Accounted

LEMMA MailFacts ==
  ASSUME Types
  PROVE  /\ \A t \in Tenants : sequence[t] \in Sequence
         /\ \A t \in Tenants, d \in Mails : mailed[t][d] \in 0..2
         /\ job.todo \subseteq Tenants \X Days
         /\ job.flag \in (Tenants \X Days) \cup {Nobody}
         /\ \A r \in Requests : OfDayZero(r) => request[r].tenant \in Tenants
         /\ request \in [Requests -> Request \cup {Idle}]
  BY Remembered DEF Types, Job, OfDayZero

\* Steps that neither mail nor flag, and leave the job alone.
LEMMA MailAside ==
  ASSUME Types, MInv, UNCHANGED <<job, mailed, cut>>, NEW r \in Requests,
         \A q \in Requests \ {r} : request'[q] = request[q],
         request'[r].op \notin {"mail", "flag"}, ~OfDayZero(r),
         UNCHANGED sequence
  PROVE  MInv'
  <1>1. DayZero'
    BY DEF MInv, DayZero, OfDayZero, At
  <1>2. Todo'
    BY DEF MInv, Todo
  <1>3. Accounted'
    BY DEF MInv, Accounted, Accounts, Awaited, OfDayZero, At
  <1> QED
    BY <1>1, <1>2, <1>3 DEF MInv

LEMMA MailStep ==
  ASSUME Types, MInv, Step
  PROVE  MInv'
  <1>0. /\ request \in [Requests -> Request \cup {Idle}]
        /\ Days \subseteq Mails /\ 0 \in Mails /\ 0 \notin Days /\ Mails = {0} \cup Days
        /\ \A t \in Tenants, d \in Mails : mailed[t][d] \in 0..2
        /\ \A t \in Tenants : sequence[t] \in Sequence
    BY MailFacts, DaysAreMails DEF Mails
  <1>1. ASSUME UNCHANGED <<sequence, request, job, mailed, cut>> PROVE MInv'
    BY <1>1 DEF MInv, DayZero, OfDayZero, At, Todo, Accounted, Accounts, Awaited
  <1>2. ASSUME NEW c \in Contracts, NEW t \in Tenants, NEW s \in Created, create(c, t, s)
        PROVE  MInv'
    BY <1>1, <1>2 DEF create, history
  <1>3. ASSUME NEW c \in Contracts, NEW s \in Edits, update(c, s) PROVE MInv'
    BY <1>1, <1>3 DEF update, history
  <1>4. ASSUME NEW c \in Contracts, remove(c) PROVE MInv'
    BY <1>1, <1>4 DEF remove, history
  <1>5. ASSUME NEW c \in Contracts, NEW r \in Requests, sign(r, c) \/ terminate(r, c) \/ renew(r, c)
        PROVE  MInv'
    <2>1. PICK op \in {"sign", "terminate", "renew"} : Read(r, c, op)
      BY <1>5 DEF sign, terminate, renew
    <2>2. /\ ~OfDayZero(r) /\ request'[r].op \notin {"mail", "flag"}
          /\ \A q \in Requests \ {r} : request'[q] = request[q]
      BY <1>0, <2>1 DEF Read, Begin, OfDayZero, Idle
    <2> QED
      BY <2>1, <2>2, MailAside DEF Read, tables, history
  <1>6. ASSUME NEW r \in Requests, signWrite(r) \/ terminateWrite(r) \/ renewWrite(r) PROVE MInv'
    <2>1. /\ ~OfDayZero(r) /\ request'[r].op \notin {"mail", "flag"}
          /\ \A q \in Requests \ {r} : request'[q] = request[q]
          /\ UNCHANGED <<sequence, job, mailed, cut>>
      BY <1>0, <1>6 DEF signWrite, signAs, terminateWrite, renewWrite, Write, Finish, Go, At,
         OfDayZero, Idle, history
    <2> QED
      BY <2>1, MailAside
  <1>7. ASSUME NEW r \in Requests, signCount(r) \/ startFind(r) PROVE MInv'
    <2>1. request[r] \in Request
      BY <1>7, Remembered DEF signCount, startFind, At
    <2>2. /\ ~OfDayZero(r) /\ request'[r].op \notin {"mail", "flag"}
          /\ \A q \in Requests \ {r} : request'[q] = request[q]
          /\ UNCHANGED <<sequence, job, mailed, cut>>
      BY <1>0, <1>7, <2>1 DEF signCount, startFind, Finish, Go, At, OfDayZero, Idle, Request,
         tables, history
    <2> QED
      BY <2>2, MailAside
  <1>8. ASSUME NEW r \in Requests, startCreate(r) PROVE MInv'
    <2> DEFINE t == request[r].tenant
    <2>1. t \in Tenants /\ request[r] \in Request /\ ~OfDayZero(r)
      BY <1>8, Remembered DEF startCreate, At, OfDayZero
    <2>2. CASE Unique(t)
      <3>1. /\ request' = [request EXCEPT ![r] = [request[r] EXCEPT !.op = "mail"]]
            /\ sequence' = [sequence EXCEPT ![t] = [NoSequence EXCEPT !.enrolled = TRUE]]
            /\ ~sequence[t].enrolled /\ UNCHANGED <<job, mailed, cut>>
        BY <1>8, <2>2 DEF startCreate, Unique, Go, history
      <3>2. request'[r].op = "mail" /\ request'[r].tenant = t
        BY <1>0, <2>1, <3>1 DEF Request
      <3>3. sequence'[t].enrolled /\ sequence'[t].sent = {}
        BY <2>1, <3>1 DEF NoSequence, Types
      <3>4. \A u \in Tenants \ {t} : sequence'[u] = sequence[u]
        BY <3>1 DEF Types
      <3>5. ASSUME NEW d \in Mails PROVE mailed[t][d] = 0
        <4>1. Accounts(t, d) /\ mailed[t][d] \in 0..2
          BY <1>0, <2>1 DEF MInv, Accounted
        <4> QED
          BY <3>1, <4>1 DEF Accounts
      <3>6. \A q \in Requests \ {r} : request'[q] = request[q]
        BY <1>0, <3>1
      <3>7. DayZero'
        BY <1>0, <3>1, <3>2, <3>3, <3>4, <3>5, <3>6, MailFacts DEF MInv, DayZero, OfDayZero, At
      <3>8. Todo'
        BY <3>1, <3>3, <3>4 DEF MInv, Todo
      <3>9. Accounted'
        <4> SUFFICES ASSUME NEW u \in Tenants, NEW d \in Mails PROVE Accounts(u, d)'
          BY DEF Accounted
        <4>1. CASE u = t
          BY <3>1, <3>3, <3>5, <4>1 DEF Accounts
        <4>2. CASE u # t
          <5>1. Awaited(u, d) => Awaited(u, d)'
            BY <2>1, <3>1, <3>6 DEF Awaited, At, OfDayZero
          <5> QED
            BY <3>1, <3>4, <4>2, <5>1 DEF MInv, Accounted, Accounts
        <4> QED
          BY <4>1, <4>2
      <3> QED
        BY <3>7, <3>8, <3>9 DEF MInv
    <2>3. CASE ~Unique(t)
      <3>1. /\ request'[r] = Idle /\ \A q \in Requests \ {r} : request'[q] = request[q]
            /\ UNCHANGED <<sequence, job, mailed, cut>>
        BY <1>0, <1>8, <2>3 DEF startCreate, Finish, Go, history
      <3> QED
        BY <2>1, <3>1, MailAside DEF Idle
    <2> QED
      BY <2>2, <2>3
  <1>9. ASSUME NEW r \in Requests, NEW ok \in BOOLEAN, startMail(r, ok) PROVE MInv'
    <2> DEFINE t == request[r].tenant
    <2>1. /\ t \in Tenants /\ request[r] \in Request /\ OfDayZero(r) /\ mailed[t][0] = 0
          /\ UNCHANGED <<sequence, job, cut>>
      BY <1>9, Remembered DEF startMail, At, OfDayZero, MInv, DayZero, tables
    <2>2. CASE ok
      <3>1. request' = [request EXCEPT ![r] = [request[r] EXCEPT !.op = "flag"]]
        BY <1>9, <2>2 DEF startMail, Go
      <3>2. /\ request'[r].op = "flag" /\ request'[r].tenant = t
            /\ \A q \in Requests \ {r} : request'[q] = request[q]
        BY <1>0, <2>1, <3>1 DEF Request
      <3>3. /\ mailed'[t][0] = 1
            /\ \A u \in Tenants, e \in Mails : <<u, e>> # <<t, 0>> => mailed'[u][e] = mailed[u][e]
        BY <1>0, <1>9, <2>1, <2>2, AcceptedTypes DEF startMail
      <3>4. DayZero'
        BY <1>0, <2>1, <3>2, <3>3, MailFacts DEF MInv, DayZero, OfDayZero, At
      <3>5. Todo'
        BY <1>0, <2>1, <3>3 DEF MInv, Todo
      <3>6. Accounted'
        <4> SUFFICES ASSUME NEW u \in Tenants, NEW d \in Mails PROVE Accounts(u, d)'
          BY DEF Accounted
        <4>1. Awaited(u, d) => Awaited(u, d)'
          <5>1. At(r, "mail")
            BY <1>9 DEF startMail
          <5> QED
            BY <2>1, <3>2, <5>1 DEF Awaited, At
        <4>2. CASE <<u, d>> = <<t, 0>>
          <5>1. u = t /\ d = 0
            BY <4>2
          <5>2. Awaited(u, d)'
            BY <3>2, <5>1 DEF Awaited, At
          <5>3. sequence'[u].enrolled
            BY <2>1, <5>1 DEF MInv, DayZero
          <5> QED
            BY <3>3, <5>1, <5>2, <5>3 DEF Accounts
        <4>3. CASE <<u, d>> # <<t, 0>>
          BY <2>1, <3>3, <4>1, <4>3 DEF MInv, Accounted, Accounts
        <4> QED
          BY <4>2, <4>3
      <3> QED
        BY <3>4, <3>5, <3>6 DEF MInv
    <2>3. CASE ~ok
      <3>1. /\ request'[r] = Idle /\ \A q \in Requests \ {r} : request'[q] = request[q]
            /\ mailed' = mailed /\ At(r, "mail")
        BY <1>0, <1>9, <2>3 DEF startMail, Finish, Go
      <3>2. DayZero'
        BY <2>1, <3>1 DEF MInv, DayZero, OfDayZero, At, Idle
      <3>3. Todo'
        BY <2>1, <3>1 DEF MInv, Todo
      <3>4. Accounted'
        BY <2>1, <3>1 DEF MInv, Accounted, Accounts, Awaited, At
      <3> QED
        BY <3>2, <3>3, <3>4 DEF MInv
    <2> QED
      BY <2>2, <2>3
  <1>10. ASSUME NEW r \in Requests, startFlag(r) PROVE MInv'
    <2> DEFINE t == request[r].tenant
    <2>1. /\ t \in Tenants /\ OfDayZero(r) /\ At(r, "flag") /\ mailed[t][0] > 0
          /\ UNCHANGED <<job, mailed, cut>>
      BY <1>10, Remembered DEF startFlag, At, OfDayZero, MInv, DayZero, history
    <2>2. /\ sequence'[t].enrolled = sequence[t].enrolled
          /\ sequence'[t].sent = sequence[t].sent \cup {0}
          /\ \A u \in Tenants \ {t} : sequence'[u] = sequence[u]
      BY <1>0, <1>10, <2>1 DEF startFlag, Types, Sequence
    <2>3. request'[r] = Idle /\ \A q \in Requests \ {r} : request'[q] = request[q]
      BY <1>0, <1>10 DEF startFlag, Finish, Go
    <2>4. DayZero'
      BY <2>1, <2>2, <2>3, MailFacts DEF MInv, DayZero, OfDayZero, At, Idle
    <2>5. Todo'
      BY <1>0, <2>1, <2>2 DEF MInv, Todo
    <2>6. Accounted'
      <3> SUFFICES ASSUME NEW u \in Tenants, NEW d \in Mails PROVE Accounts(u, d)'
        BY DEF Accounted
      <3>1. Accounts(u, d)
        BY DEF MInv, Accounted
      <3>2. CASE <<u, d>> = <<t, 0>>
        <4>1. u = t /\ d = 0 /\ d \in sequence'[u].sent
          BY <2>2, <3>2
        <4> QED
          BY <2>1, <2>2, <3>1, <4>1 DEF Accounts
      <3>3. CASE <<u, d>> # <<t, 0>>
        <4>1. sequence'[u].enrolled = sequence[u].enrolled
              /\ (d \in sequence'[u].sent <=> d \in sequence[u].sent)
          BY <2>2, <3>3
        <4>2. Awaited(u, d) => Awaited(u, d)'
          BY <2>1, <2>3, <3>3 DEF Awaited, At
        <4> QED
          BY <2>1, <3>1, <4>1, <4>2 DEF Accounts
      <3> QED
        BY <3>2, <3>3
    <2> QED
      BY <2>4, <2>5, <2>6 DEF MInv
  <1>11. ASSUME Morning PROVE MInv'
    <2>1. \A t \in Tenants : /\ sequence'[t].enrolled = sequence[t].enrolled
                            /\ sequence'[t].sent = sequence[t].sent
      BY <1>0, <1>11 DEF Morning, Older, Sequence
    <2>2. /\ job.flag = Nobody /\ job'.flag = Nobody /\ UNCHANGED <<request, mailed, cut>>
          /\ \A t \in Tenants, d \in Days : <<t, d>> \in job'.todo => Due(t, d)
      BY <1>11 DEF Morning, NoJob, history
    <2>3. \A t \in Tenants, d \in Days : Nobody # <<t, d>>
      BY NobodyIsNoTenant
    <2>4. DayZero'
      BY <2>1, <2>2, MailFacts DEF MInv, DayZero, OfDayZero, At
    <2>5. Todo'
      BY <2>1, <2>2, <2>3 DEF Todo, Due
    <2>6. Accounted'
      <3> SUFFICES ASSUME NEW t \in Tenants, NEW d \in Mails PROVE Accounts(t, d)'
        BY DEF Accounted
      <3>1. Awaited(t, d) => Awaited(t, d)'
        BY <2>2 DEF Awaited, At
      <3> QED
        BY <2>1, <2>2, <3>1 DEF MInv, Accounted, Accounts
    <2> QED
      BY <2>4, <2>5, <2>6 DEF MInv
  <1>12. ASSUME NEW t \in Tenants, NEW d \in Days, jobMail(t, d) PROVE MInv'
    <2>1. /\ job.flag = Nobody /\ <<t, d>> \in job.todo
          /\ job'.flag = <<t, d>> /\ job'.todo = job.todo \ {<<t, d>>}
          /\ UNCHANGED <<sequence, request, cut>>
      BY <1>12 DEF jobMail, NextMail, tables
    <2>2. /\ mailed'[t][d] = IF mailed[t][d] = 0 THEN 1 ELSE 2
          /\ \A u \in Tenants, e \in Mails : <<u, e>> # <<t, d>> => mailed'[u][e] = mailed[u][e]
      BY <1>0, <1>12, AcceptedTypes DEF jobMail
    <2>3. /\ sequence[t].enrolled /\ d \notin sequence[t].sent
          /\ mailed[t][d] = 0 \/ <<t, d>> \in cut
      <3>1. sequence[t].enrolled /\ d \notin sequence[t].sent
        BY <2>1 DEF MInv, Todo
      <3>2. ~Awaited(t, d)
        BY <1>0, <2>1, NobodyIsNoTenant DEF Awaited
      <3> QED
        BY <1>0, <3>1, <3>2 DEF MInv, Accounted, Accounts
    <2>4. DayZero'
      BY <1>0, <2>1, <2>2, MailFacts DEF MInv, DayZero, OfDayZero, At
    <2>5. Todo'
      BY <1>0, <2>1, <2>2 DEF MInv, Todo
    <2>6. Accounted'
      <3> SUFFICES ASSUME NEW u \in Tenants, NEW e \in Mails PROVE Accounts(u, e)'
        BY DEF Accounted
      <3>1. CASE <<u, e>> = <<t, d>>
        BY <1>0, <2>1, <2>2, <2>3, <3>1 DEF Accounts, Awaited
      <3>2. CASE <<u, e>> # <<t, d>>
        <4>1. e # 0 => job.flag # <<u, e>>
          BY <1>0, <2>1, NobodyIsNoTenant
        <4> QED
          BY <2>1, <2>2, <3>2, <4>1 DEF MInv, Accounted, Accounts, Awaited, At
      <3> QED
        BY <3>1, <3>2
    <2> QED
      BY <2>4, <2>5, <2>6 DEF MInv
  <1>13. ASSUME NEW t \in Tenants, NEW d \in Days, jobRefused(t, d) PROVE MInv'
    <2>1. /\ job'.flag = job.flag /\ job'.todo \subseteq job.todo
          /\ UNCHANGED <<sequence, request, mailed, cut>>
      BY <1>13 DEF jobRefused, tables, history, Types, Job
    <2> QED
      BY <2>1 DEF MInv, DayZero, OfDayZero, At, Todo, Accounted, Accounts, Awaited
  <1>14. ASSUME jobFlag PROVE MInv'
    <2>1. PICK t \in Tenants, d \in Days : job.flag = <<t, d>>
      BY <1>14, MailFacts DEF jobFlag
    <2>2. /\ job'.flag = Nobody /\ job'.todo = job.todo /\ UNCHANGED <<request, mailed, cut>>
      BY <1>14 DEF jobFlag, history, Types, Job
    <2>3. /\ sequence'[t].enrolled = sequence[t].enrolled
          /\ sequence'[t].sent = sequence[t].sent \cup {d}
          /\ \A u \in Tenants \ {t} : sequence'[u] = sequence[u]
      BY <1>0, <1>14, <2>1 DEF jobFlag, Types, Sequence
    <2>4. mailed[t][d] > 0 /\ <<t, d>> \notin job.todo
      BY <2>1 DEF MInv, Todo
    <2>5. DayZero'
      BY <2>2, <2>3, MailFacts DEF MInv, DayZero, OfDayZero, At
    <2>6. Todo'
      BY <2>2, <2>3, <2>4, NobodyIsNoTenant DEF MInv, Todo
    <2>7. Accounted'
      <3> SUFFICES ASSUME NEW u \in Tenants, NEW e \in Mails PROVE Accounts(u, e)'
        BY DEF Accounted
      <3>1. CASE <<u, e>> = <<t, d>>
        BY <2>1, <2>2, <2>3, <2>4, <3>1 DEF MInv, Accounted, Accounts
      <3>2. CASE <<u, e>> # <<t, d>>
        <4>1. sequence'[u].enrolled = sequence[u].enrolled
              /\ (e \in sequence'[u].sent <=> e \in sequence[u].sent)
          BY <2>3, <3>2
        <4>2. Awaited(u, e) => Awaited(u, e)'
          BY <2>1, <2>2, <3>2 DEF Awaited, At
        <4> QED
          BY <2>2, <4>1, <4>2 DEF MInv, Accounted, Accounts
      <3> QED
        BY <3>1, <3>2
    <2> QED
      BY <2>5, <2>6, <2>7 DEF MInv
  <1>15. ASSUME Stop PROVE MInv'
    <2>1. /\ \A r \in Requests : request'[r] = Idle
          /\ job'.todo = {} /\ job'.flag = Nobody /\ UNCHANGED <<sequence, mailed>>
      BY <1>15 DEF Stop, NoJob, tables
    <2>2. cut \subseteq cut' /\ \A t \in Tenants, d \in Mails : Awaited(t, d) => <<t, d>> \in cut'
      <3>1. \A r \in Requests : Flags(r) \subseteq cut'
        BY <1>15 DEF Stop
      <3>2. job.flag # Nobody => job.flag \in cut'
        BY <1>15 DEF Stop
      <3>3. cut \subseteq cut'
        BY <1>15 DEF Stop
      <3>4. ASSUME NEW t \in Tenants, NEW d \in Mails, Awaited(t, d) PROVE <<t, d>> \in cut'
        <4>1. CASE d = 0
          BY <3>1, <3>4, <4>1 DEF Awaited, Flags
        <4>2. CASE d # 0
          BY <1>0, <3>2, <3>4, <4>2, NobodyIsNoTenant DEF Awaited
        <4> QED
          BY <4>1, <4>2
      <3> QED
        BY <3>3, <3>4
    <2>3. DayZero'
      BY <2>1 DEF DayZero, OfDayZero, Idle
    <2>4. Todo'
      BY <2>1, NobodyIsNoTenant DEF Todo
    <2>5. Accounted'
      BY <2>1, <2>2 DEF MInv, Accounted, Accounts
    <2> QED
      BY <2>3, <2>4, <2>5 DEF MInv
  <1>16. ASSUME NEW r \in Requests, Fail(r) PROVE MInv'
    <2>1. /\ request'[r] = Idle /\ \A q \in Requests \ {r} : request'[q] = request[q]
          /\ cut' = cut \cup Flags(r) /\ UNCHANGED <<sequence, job, mailed>>
      BY <1>0, <1>16 DEF Fail, Finish, Go, tables
    <2>2. \A t \in Tenants, d \in Mails : Awaited(t, d) => Awaited(t, d)' \/ <<t, d>> \in cut'
      BY <2>1 DEF Awaited, Flags, At
    <2>3. DayZero'
      BY <2>1 DEF MInv, DayZero, OfDayZero, At, Idle
    <2>4. Todo'
      BY <2>1 DEF MInv, Todo
    <2>5. Accounted'
      BY <2>1, <2>2 DEF MInv, Accounted, Accounts
    <2> QED
      BY <2>3, <2>4, <2>5 DEF MInv
  <1> QED
    BY StepCases, <1>2, <1>3, <1>4, <1>5, <1>6, <1>7, <1>8, <1>9, <1>10, <1>11, <1>12, <1>13,
       <1>14, <1>15, <1>16

LEMMA MailInit == Init => MInv
  <1> SUFFICES ASSUME Init PROVE MInv
    OBVIOUS
  <1>1. DayZero /\ Todo
    BY NobodyIsNoTenant DEF Init, DayZero, OfDayZero, Idle, Todo, NoJob
  <1>2. Accounted
    BY DEF Init, Accounted, Accounts, NoSequence
  <1> QED
    BY <1>1, <1>2 DEF MInv

LEMMA MailNext == TInv /\ MInv /\ [Next]_vars => MInv'
  <1> SUFFICES ASSUME TInv, MInv, [Next]_vars PROVE MInv'
    OBVIOUS
  <1>1. CASE Step
    BY <1>1, MailStep DEF TInv
  <1>2. CASE UNCHANGED vars
    BY <1>2 DEF MInv, DayZero, OfDayZero, At, Todo, Accounted, Accounts, Awaited, vars, tables, history
  <1> QED
    BY <1>1, <1>2, Recorded

\* A mail is accepted once, unless its flag was lost, and flagged if accepted.
THEOREM MailsGoOutOnce == Spec => []MailedOnce
  <1>1. MInv => MailedOnce
    BY DEF MInv, Accounted, Accounts, MailedOnce
  <1> QED
    BY <1>1, TypeInit, TypeNext, MailInit, MailNext, PTL DEF Spec

-----------------------------------------------------------------------------
(* What has ended stays ended. *)

\* A signature that nothing overtook will find the draft that it read.
FreshSigns ==
  \A r \in Requests : At(r, "sign") /\ ~stale[r] =>
    contract[request[r].contract].status = "DRAFT"

LEMMA FreshInit == Init => FreshSigns
  BY DEF Init, FreshSigns, At, Idle

\* A request that signs now and did not has read the draft in this step.
LEMMA SignsNow ==
  ASSUME TInv, Step, NEW r \in Requests, At(r, "sign")', request'[r] # request[r]
  PROVE  \E c \in Contracts : sign(r, c)
  <1>0. request \in [Requests -> Request \cup {Idle}]
    BY DEF TInv, Types
  <1>1. ASSUME request' = request PROVE FALSE
    BY <1>1
  <1>2. ASSUME NEW q \in Requests, NEW m, Go(q, m), m.op # "sign" PROVE FALSE
    BY <1>0, <1>2 DEF Go, At
  <1>3. Idle.op # "sign"
    BY DEF Idle
  <1>4. ASSUME NEW c \in Contracts, NEW q \in Requests, sign(q, c) \/ terminate(q, c) \/ renew(q, c)
        PROVE  \E d \in Contracts : sign(r, d)
    <2>1. CASE sign(q, c)
      <3>1. q = r
        BY <1>0, <2>1 DEF sign, Read, Begin
      <3> QED
        BY <2>1, <3>1
    <2>2. CASE terminate(q, c) \/ renew(q, c)
      BY <1>0, <2>2 DEF terminate, renew, Read, Begin, At
    <2> QED
      BY <1>4, <2>1, <2>2
  <1>5. ASSUME NEW q \in Requests, signWrite(q) PROVE FALSE
    BY <1>2, <1>5 DEF signWrite, signAs
  <1>6. ASSUME NEW q \in Requests, terminateWrite(q) \/ renewWrite(q) \/ startFlag(q) \/ Fail(q)
        PROVE  FALSE
    BY <1>2, <1>3, <1>6 DEF terminateWrite, renewWrite, startFlag, Fail, Finish
  <1>7. ASSUME NEW q \in Requests, signCount(q) \/ startFind(q) \/ startCreate(q)
                                   \/ \E ok \in BOOLEAN : startMail(q, ok)
        PROVE  FALSE
    <2>1. request[q] \in Request
      BY <1>7, Remembered DEF TInv, signCount, startFind, startCreate, startMail, At
    <2>2. [request[q] EXCEPT !.op = "start"].op # "sign"
          /\ [request[q] EXCEPT !.op = "create"].op # "sign"
          /\ [request[q] EXCEPT !.op = "mail"].op # "sign"
          /\ [request[q] EXCEPT !.op = "flag"].op # "sign"
      BY <2>1 DEF Request
    <2> QED
      BY <1>2, <1>3, <1>7, <2>2 DEF signCount, startFind, startCreate, startMail, Finish
  <1>8. ASSUME Stop PROVE FALSE
    BY <1>3, <1>8 DEF Stop, At
  <1> QED
    BY StepCases, <1>1, <1>4, <1>5, <1>6, <1>7, <1>8
       DEF create, update, remove, Morning, jobMail, jobRefused, jobFlag, tables

LEMMA FreshNext == TInv /\ FreshSigns /\ [Next]_vars => FreshSigns'
  <1> SUFFICES ASSUME TInv, FreshSigns, [Next]_vars, NEW r \in Requests,
                      At(r, "sign")', ~stale'[r]
               PROVE  contract'[request'[r].contract].status = "DRAFT"
    BY DEF FreshSigns
  <1>1. CASE UNCHANGED vars
    BY <1>1 DEF FreshSigns, At, vars, tables
  <1>2. CASE Next /\ request'[r] = request[r]
    <2>1. /\ request[r] # Idle /\ ~stale[r]
          /\ contract'[request[r].contract] = contract[request[r].contract]
      BY <1>2 DEF Next, Overtaken, At, Idle, TInv
    <2> QED
      BY <1>2, <2>1 DEF FreshSigns, At
  <1>3. CASE Next /\ request'[r] # request[r]
    <2>1. PICK c \in Contracts : sign(r, c)
      BY <1>3, SignsNow DEF Next, Step
    <2> QED
      BY <2>1 DEF sign, Signable, Read, Begin, TInv, Types, tables
  <1> QED
    BY <1>1, <1>2, <1>3

\* A contract that is put in force by a handler in flight was put so by sign.
LEMMA PutInForce ==
  ASSUME TInv, Step, NEW c \in Contracts, contract[c].status \in Ended,
         contract'[c].status = "ACTIVE", request' # request
  PROVE  \E r \in Requests : At(r, "sign") /\ request[r].contract = c
  <1> DEFINE G == \E r \in Requests : At(r, "sign") /\ request[r].contract = c
  <1>1. contract' # contract
    BY DEF Ended
  <1>2. ASSUME NEW r \in Requests, signWrite(r) PROVE G
    BY <1>2 DEF signWrite, signAs, Write, Ended, TInv, Types
  <1>3. ASSUME NEW r \in Requests, terminateWrite(r) \/ renewWrite(r) PROVE FALSE
    <2>1. PICK op \in {"terminate", "renew"}, s \in {"TERMINATED", "RENEWED"} : Write(r, op, s)
      BY <1>3 DEF terminateWrite, renewWrite
    <2>2. contract'[c] = contract[c] \/ contract'[c].status = s
      BY <2>1 DEF Write, TInv, Types, Row
    <2> QED
      BY <2>2 DEF Ended
  <1>4. ASSUME NEW d \in Contracts, NEW r \in Requests, sign(r, d) \/ terminate(r, d) \/ renew(r, d)
        PROVE  FALSE
    BY <1>1, <1>4 DEF sign, terminate, renew, Read, tables
  <1>5. ASSUME NEW r \in Requests, signCount(r) \/ startFind(r) \/ startCreate(r) \/ startFlag(r)
                                   \/ (\E ok \in BOOLEAN : startMail(r, ok)) \/ Fail(r)
        PROVE  FALSE
    BY <1>1, <1>5 DEF signCount, startFind, startCreate, startFlag, startMail, Fail, tables
  <1>6. ASSUME Stop \/ Morning \/ jobFlag PROVE FALSE
    BY <1>1, <1>6 DEF Stop, Morning, jobFlag, tables
  <1>7. ASSUME NEW t \in Tenants, NEW d \in Days, jobMail(t, d) \/ jobRefused(t, d) PROVE FALSE
    BY <1>1, <1>7 DEF jobMail, jobRefused, tables
  <1> HIDE DEF G
  <1>8. G
    BY StepCases, <1>2, <1>3, <1>4, <1>5, <1>6, <1>7 DEF create, update, remove
  <1> QED
    BY <1>8 DEF G

\* An ended contract is in force again only by a PATCH or by a stale signature.
THEOREM EndedContractsStayEnded == Spec => EndedStaysEnded
  <1>1. TInv /\ FreshSigns /\ [Next]_vars =>
          [\A c \in Contracts :
             /\ contract[c].status \in Ended
             /\ contract'[c].status = "ACTIVE"
             /\ request' # request
             => \E r \in Requests : At(r, "sign") /\ request[r].contract = c /\ stale[r]]_vars
    <2> SUFFICES ASSUME TInv, FreshSigns, Next, NEW c \in Contracts,
                        contract[c].status \in Ended, contract'[c].status = "ACTIVE",
                        request' # request
                 PROVE  \E r \in Requests : At(r, "sign") /\ request[r].contract = c /\ stale[r]
      OBVIOUS
    <2>1. PICK r \in Requests : At(r, "sign") /\ request[r].contract = c
      BY PutInForce DEF Next, Step
    <2>2. stale[r]
      BY <2>1 DEF FreshSigns, Ended
    <2> QED
      BY <2>1, <2>2
  <1> QED
    BY <1>1, TypeInit, TypeNext, FreshInit, FreshNext, PTL DEF Spec, EndedStaysEnded
=============================================================================
