------------------------------ MODULE Sessions ------------------------------
(***************************************************************************)
(* Sessions of one browser tab: login, refresh, logout and revocation in   *)
(* backend/src/auth/auth.service.ts, and the tab's side of them in         *)
(* frontend/src/api/client.ts and frontend/src/store (authStore.ts,        *)
(* authStorage.ts, authSession.ts).                                        *)
(*                                                                         *)
(* The access and the refresh token of one answer are signed together, and *)
(* carry the session and the second: signed twice in one second they are   *)
(* the same string.  A Token stands for either.  A tab keeps its tokens in *)
(* its own sessionStorage, so that other tabs and devices of the account   *)
(* matter here only as callers of revoke.                                  *)
(***************************************************************************)
EXTENDS Integers, FiniteSets

CONSTANTS
  Sessions,        \* rows of user_sessions, each created once
  Calls,           \* how many API calls of the tab are in flight at once
  Exchanges,       \* how many refresh-token requests are in flight at once
  Life,            \* seconds for which an access token is accepted
  RefreshLife,     \* seconds for which a refresh token is
  MaxTime,         \* bound: the clock stops here
  Onward,          \* bound: whether anything new begins once activities overlapped
  Faults,          \* answers get lost, the tab is reloaded while it waits
  Elsewhere,       \* the session of another device
  Nothing

ASSUME TimesAreNumbers ==
  {Life, RefreshLife, MaxTime} \subseteq Nat /\ {Faults, Onward} \subseteq BOOLEAN
ASSUME MarkersDiffer ==
  /\ Elsewhere \notin Sessions
  /\ Nothing \notin [session : Sessions, at : 0..MaxTime]
  /\ Nothing \notin [access : [session : Sessions, at : 0..MaxTime],
                     refresh : [session : Sessions, at : 0..MaxTime]]

VARIABLES
  now,             \* the clock, in seconds
  row,             \* the user_sessions table
  stored,          \* access_token and refresh_token in sessionStorage
  shown,           \* access_token of the auth store, persisted in auth-storage
  call,            \* API calls of the tab
  exchange,        \* POST /auth/refresh-token, on both sides
  restore,         \* restoreSession: what it captured, and how far it is
  visit,           \* login or logout in flight
  left,            \* history: sessions whose logout was answered
  crossed          \* history: two of the tab's activities overlapped, or one was lost or failed

vars == <<now, row, stored, shown, call, exchange, restore, visit, left, crossed>>
page == <<call, restore, visit>>

-----------------------------------------------------------------------------
Time == 0..MaxTime
Token == [session : Sessions, at : Time]
Pair == [access : Token, refresh : Token]
Row == [status : {"none", "unsigned", "live", "gone"}, at : Time]
Idle == [step |-> "idle"]

Call == [step : {"sent", "waits"}, with : Token]
Exchange == [by : {"call", "restore", "nobody"}, with : Token, gives : Token,
             step : {"sent", "checked", "answered", "refused"}]
Restore == [step : {"me", "refresh"}, with : Pair]
Visit == [op : {"login"}, step : {"sent"}]
  \cup [op : {"login"}, step : {"created", "answered"}, gives : Token]
  \cup [op : {"logout"}, step : {"sent", "answered", "failed"}, with : Token]

TypeOK ==
  /\ now \in Time
  /\ row \in [Sessions -> Row]
  /\ stored \in Pair \cup {Nothing}
  /\ shown \in Token \cup {Nothing}
  /\ call \in [Calls -> Call \cup {Idle}]
  /\ exchange \in [Exchanges -> Exchange \cup {Idle}]
  /\ restore \in Restore \cup {Idle}
  /\ visit \in Visit \cup {Idle}
  /\ left \subseteq Sessions
  /\ crossed \in BOOLEAN

Init ==
  /\ now = 0
  /\ row = [s \in Sessions |-> [status |-> "none", at |-> 0]]
  /\ stored = Nothing
  /\ shown = Nothing
  /\ call = [k \in Calls |-> Idle]
  /\ exchange = [e \in Exchanges |-> Idle]
  /\ restore = Idle
  /\ visit = Idle
  /\ left = {}
  /\ crossed = FALSE

Expired(t) == now >= t.at + Life
\* What jwtService.verify says of a refresh token.
Verified(t) == now < t.at + RefreshLife
Signed(s) == [session |-> s, at |-> now]
Both(t) == [access |-> t, refresh |-> t]

\* The session row still holds this refresh token.
Usable(t) == row[t.session].status = "live" /\ row[t.session].at = t.at

Active(e) == exchange[e] # Idle
Of(e, who) == Active(e) /\ exchange[e].by = who
At(e, who, step) == Of(e, who) /\ exchange[e].step = step
Visiting(op, step) == visit # Idle /\ visit.op = op /\ visit.step = step

clearAuthStorage == stored' = Nothing /\ shown' = Nothing

-----------------------------------------------------------------------------
(* The server. *)

\* Only an unused slot; the request carries the refresh token it was given.
Post(who, t) ==
  \E e \in Exchanges :
    /\ ~Active(e)
    /\ exchange' = [exchange EXCEPT ![e] =
         [by |-> who, with |-> t, gives |-> t, step |-> "sent"]]

\* refreshToken up to the signature.  A token past its time is refused before
\* the row is looked at.  (A database that fails is a refusal as well: for the
\* tab it is the refresh that is lost.)
findSession(e) ==
  /\ Active(e) /\ exchange[e].step = "sent"
  /\ LET t == exchange[e].with IN
     exchange' = [exchange EXCEPT ![e] =
       IF Verified(t) /\ Usable(t) THEN [@ EXCEPT !.step = "checked", !.gives = Signed(t.session)]
       ELSE [@ EXCEPT !.step = "refused"]]
  /\ UNCHANGED <<now, row, stored, shown, page, left>>

\* Mutant: a row that is gone is made again.
RotatableAlways(s) == TRUE
\* An update by id throws when the row is gone; refreshToken then answers 401.
Rotatable(s) == row[s].status \in {"unsigned", "live"}

rotateUserSession(e) ==
  /\ Active(e) /\ exchange[e].step = "checked"
  /\ LET t == exchange[e].gives IN
     IF Rotatable(t.session)
     THEN /\ row' = [row EXCEPT ![t.session] = [status |-> "live", at |-> t.at]]
          /\ exchange' = [exchange EXCEPT ![e].step = "answered"]
     ELSE /\ exchange' = [exchange EXCEPT ![e].step = "refused"]
          /\ UNCHANGED row
  /\ UNCHANGED <<now, stored, shown, page, left>>

Delete(S) == row' = [s \in Sessions |->
  IF s \in S /\ row[s].status \in {"unsigned", "live"}
  THEN [row[s] EXCEPT !.status = "gone"] ELSE row[s]]

\* DELETE /auth/sessions/:id, sent from another session.
revokeSession(s) ==
  /\ row[s].status \in {"unsigned", "live"}
  /\ Delete({s})
  /\ UNCHANGED <<now, stored, shown, page, exchange, left>>

\* POST /auth/sessions/revoke-others, from another device or from this tab.
revokeOtherSessions(current) ==
  /\ current # Elsewhere => stored # Nothing /\ stored.access.session = current
  /\ Delete(Sessions \ {current})
  /\ UNCHANGED <<now, stored, shown, page, exchange, left>>

Tick ==
  /\ now < MaxTime
  /\ crossed => Onward
  /\ now' = now + 1
  /\ UNCHANGED <<row, stored, shown, page, exchange, left>>

-----------------------------------------------------------------------------
(* The tab. *)

\* Mutant: every 401 starts a refresh of its own.
InFlightNever == FALSE
\* A refresh that the interceptor has started and that has not ended.
InFlight == \E e \in Exchanges : Of(e, "call")

Send(k) ==
  /\ call[k] = Idle
  /\ crossed => Onward
  /\ stored # Nothing
  /\ call' = [call EXCEPT ![k] = [step |-> "sent", with |-> stored.access]]
  /\ UNCHANGED <<now, row, stored, shown, exchange, restore, visit, left>>

\* Answered, with anything but a 401.
Answered(k) ==
  /\ call[k] # Idle /\ call[k].step = "sent"
  /\ call' = [call EXCEPT ![k] = Idle]
  /\ UNCHANGED <<now, row, stored, shown, exchange, restore, visit, left>>

\* The interceptor on a 401: it waits for the refresh in flight, starts one
\* with the refresh token now stored, or gives up when there is none.
Rejected(k) ==
  /\ call[k] # Idle /\ call[k].step = "sent" /\ Expired(call[k].with)
  /\ \/ /\ InFlight
        /\ call' = [call EXCEPT ![k].step = "waits"]
        /\ UNCHANGED <<stored, shown, exchange>>
     \/ /\ ~InFlight /\ stored # Nothing
        /\ Post("call", stored.refresh)
        /\ call' = [call EXCEPT ![k].step = "waits"]
        /\ UNCHANGED <<stored, shown>>
     \/ /\ ~InFlight /\ stored = Nothing
        /\ call' = [call EXCEPT ![k] = Idle]
        /\ IF restore = Idle THEN clearAuthStorage ELSE UNCHANGED <<stored, shown>>
        /\ UNCHANGED exchange
  /\ UNCHANGED <<now, row, restore, visit, left>>

\* Mutant: the promise is not given to those who wait.
WokenNone == call
\* Every call that waits goes on: a retry changes nothing, whatever it is answered.
Woken == [k \in Calls |-> IF call[k] # Idle /\ call[k].step = "waits" THEN Idle ELSE call[k]]

\* Mutant: the refresh token is not stored.
KeepRefresh(t) == [access |-> t, refresh |-> IF stored = Nothing THEN t ELSE stored.refresh]
\* writeTokens: both tokens of the answer, over whatever is stored.
writeTokens(t) == Both(t)

\* refreshAccessToken is answered; the auth store is not told.
Refreshed(e) ==
  /\ At(e, "call", "answered")
  /\ stored' = writeTokens(exchange[e].gives)
  /\ call' = Woken
  /\ exchange' = [exchange EXCEPT ![e] = Idle]
  /\ UNCHANGED <<now, row, shown, restore, visit, left>>

\* It answers null, for a 401 as for a failure: the calls that wait end the
\* session of the tab, unless it is being restored.
GiveUp ==
  /\ call' = Woken
  /\ IF restore = Idle THEN clearAuthStorage ELSE UNCHANGED <<stored, shown>>
  /\ UNCHANGED <<now, row, restore, visit, left>>

RefreshRefused(e) ==
  /\ At(e, "call", "refused")
  /\ exchange' = [exchange EXCEPT ![e] = Idle]
  /\ GiveUp

\* Nobody hears the answer any more, the server goes on.
Abandoned(e) == exchange' = [exchange EXCEPT ![e].by = "nobody"]

RefreshLost(e) ==
  /\ Faults
  /\ Of(e, "call")
  /\ Abandoned(e)
  /\ GiveUp

\* A request nobody waits for ends, or had not reached the server.
Forgotten(e) ==
  /\ Of(e, "nobody")
  /\ exchange' = [exchange EXCEPT ![e] = Idle]
  /\ UNCHANGED <<now, row, stored, shown, page, left>>

-----------------------------------------------------------------------------
(* restoreSession, which runs when the page is loaded. *)

\* applySession and the end of restoreSession.
applySession(p) ==
  /\ stored' = p
  /\ shown' = p.access
  /\ restore' = Idle

\* What GET /auth/me answered, or that it failed otherwise than by 401: what
\* was captured is applied once more.
Confirmed ==
  /\ restore # Idle /\ restore.step = "me"
  /\ applySession(restore.with)
  /\ UNCHANGED <<now, row, call, exchange, visit, left>>

\* On its 401 the refresh is sent directly, not through refreshAccessToken.
Unconfirmed ==
  /\ restore # Idle /\ restore.step = "me" /\ Expired(restore.with.access)
  /\ Post("restore", restore.with.refresh)
  /\ restore' = [restore EXCEPT !.step = "refresh"]
  /\ UNCHANGED <<now, row, stored, shown, call, visit, left>>

Restored(e) ==
  /\ At(e, "restore", "answered")
  /\ applySession(Both(exchange[e].gives))
  /\ exchange' = [exchange EXCEPT ![e] = Idle]
  /\ UNCHANGED <<now, row, call, visit, left>>

\* There is a cached user whenever there are tokens: what was captured is
\* applied, the refresh token that was refused included.
RestoreRefused(e) ==
  /\ At(e, "restore", "refused")
  /\ applySession(restore.with)
  /\ exchange' = [exchange EXCEPT ![e] = Idle]
  /\ UNCHANGED <<now, row, call, visit, left>>

RestoreLost(e) ==
  /\ Faults
  /\ Of(e, "restore")
  /\ applySession(restore.with)
  /\ Abandoned(e)
  /\ UNCHANGED <<now, row, call, visit, left>>

Quiet ==
  /\ \A e \in Exchanges : ~Active(e)
  /\ restore = Idle /\ visit = Idle

\* The page is loaded again: what was in flight has nobody to answer.  The
\* access token persisted with the store takes the place of the stored one
\* (merge); restoreSession captures both tokens.
Reload ==
  /\ Faults \/ Quiet
  /\ crossed => Onward
  /\ call' = [k \in Calls |-> Idle]
  /\ visit' = Idle
  /\ exchange' = [e \in Exchanges |->
       IF Active(e) THEN [exchange[e] EXCEPT !.by = "nobody"] ELSE Idle]
  /\ IF stored = Nothing THEN restore' = Idle /\ UNCHANGED <<stored, shown>>
     ELSE LET token == IF shown = Nothing THEN stored.access ELSE shown
              p == [access |-> token, refresh |-> stored.refresh] IN
          /\ stored' = p
          /\ shown' = token
          /\ restore' = [step |-> "me", with |-> p]
  /\ UNCHANGED <<now, row, left>>

-----------------------------------------------------------------------------
(* Login and logout. *)

Login ==
  /\ visit = Idle
  /\ crossed => Onward
  /\ clearAuthStorage
  /\ visit' = [op |-> "login", step |-> "sent"]
  /\ UNCHANGED <<now, row, call, exchange, restore, left>>

\* issueSessionTokens: a row with a random token, then the signed one.
createSession(s) ==
  /\ Visiting("login", "sent")
  /\ row[s].status = "none"
  /\ row' = [row EXCEPT ![s].status = "unsigned"]
  /\ visit' = [op |-> "login", step |-> "created", gives |-> Signed(s)]
  /\ UNCHANGED <<now, stored, shown, call, exchange, restore, left>>

signSession ==
  /\ Visiting("login", "created")
  /\ Rotatable(visit.gives.session)
  /\ row' = [row EXCEPT ![visit.gives.session] = [status |-> "live", at |-> visit.gives.at]]
  /\ visit' = [visit EXCEPT !.step = "answered"]
  /\ UNCHANGED <<now, stored, shown, call, exchange, restore, left>>

LoggedIn ==
  /\ Visiting("login", "answered")
  /\ stored' = Both(visit.gives)
  /\ shown' = visit.gives
  /\ visit' = Idle
  /\ UNCHANGED <<now, row, call, exchange, restore, left>>

\* A wrong password, a row revoked before it was signed, or an answer lost.
LoginFailed ==
  /\ \/ Visiting("login", "sent")
     \/ Visiting("login", "created") /\ (Faults \/ ~Rotatable(visit.gives.session))
     \/ Visiting("login", "answered") /\ Faults
  /\ clearAuthStorage
  /\ visit' = Idle
  /\ UNCHANGED <<now, row, call, exchange, restore, left>>

Logout ==
  /\ visit = Idle
  /\ crossed => Onward
  /\ stored # Nothing
  /\ visit' = [op |-> "logout", step |-> "sent", with |-> stored.refresh]
  /\ UNCHANGED <<now, row, stored, shown, call, exchange, restore, left>>

\* Mutant: the answer is given and the row stays.
DeleteNone(t) == UNCHANGED row
\* The rows with that refresh token: none, if it has been rotated since.
deleteUserSessionByToken(t) == Delete(IF Usable(t) THEN {t.session} ELSE {})

\* The row is left when the token no longer verifies, and when its deletion
\* fails: the answer is true all the same.
serveLogout ==
  /\ Visiting("logout", "sent")
  /\ \/ /\ IF Verified(visit.with) THEN deleteUserSessionByToken(visit.with)
           ELSE UNCHANGED row
        /\ visit' = [visit EXCEPT !.step = "answered"]
     \/ /\ Faults /\ Verified(visit.with)
        /\ visit' = [visit EXCEPT !.step = "failed"]
        /\ UNCHANGED row
  /\ UNCHANGED <<now, stored, shown, call, exchange, restore, left>>

\* Whatever the answer, the tab forgets its tokens.
LoggedOut ==
  /\ visit # Idle /\ visit.op = "logout"
  /\ visit.step \in {"answered", "failed"} \/ Faults
  /\ clearAuthStorage
  /\ visit' = Idle
  /\ left' = left \cup {s \in {visit.with.session} : visit.step \in {"answered", "failed"}}
  /\ UNCHANGED <<now, row, call, exchange, restore>>

-----------------------------------------------------------------------------
\* Two of the tab's activities overlap, other than calls that share a refresh;
\* or a logout that deleted nothing is answered like one that did.
Crossing ==
  \/ Visiting("logout", "failed")
  \/ \E e \in Exchanges : Of(e, "nobody")
  \/ \E e \in Exchanges : Of(e, "call") /\ restore # Idle
  \/ \E e \in Exchanges : Active(e) /\ visit # Idle
  \/ restore # Idle /\ visit # Idle

Serve == \E e \in Exchanges : findSession(e) \/ rotateUserSession(e)
Hear == \E e \in Exchanges :
  Refreshed(e) \/ RefreshRefused(e) \/ Restored(e) \/ RestoreRefused(e) \/ Forgotten(e)
Lose == \E e \in Exchanges : RefreshLost(e) \/ RestoreLost(e)
Page == \E k \in Calls : Send(k) \/ Answered(k) \/ Rejected(k)
Restoring == Confirmed \/ Unconfirmed
LoginStep == \E s \in Sessions : createSession(s)
LogStep == LoginStep \/ signSession \/ LoggedIn \/ LoginFailed \/ serveLogout \/ LoggedOut
Others ==
  \/ \E s \in Sessions : revokeSession(s)
  \/ \E s \in Sessions \cup {Elsewhere} : revokeOtherSessions(s)

Step ==
  Serve \/ Hear \/ Lose \/ Page \/ Restoring \/ Reload \/ Login \/ Logout \/ LogStep
  \/ Others \/ Tick

Next == Step /\ crossed' = (crossed \/ Crossing')

Spec == Init /\ [][Next]_vars

-----------------------------------------------------------------------------
(* Properties. *)

\* A tab at rest holds the refresh token that its session's row holds, unless
\* the session was revoked: however many calls are refused at once, and
\* whatever revocations and new logins come in between.  Beyond that, two of
\* the tab's activities must have overlapped, or an answer been lost.
KeepsItsSession ==
  ~crossed /\ Quiet /\ stored # Nothing =>
    row[stored.refresh.session].status = "gone" \/ Usable(stored.refresh)

\* What the tab is given to keep is only taken from it by logout, by a new
\* login, because the session is gone on the server, or because the tab did not
\* refresh for as long as a refresh token is accepted.
EndsOnlyAsTold ==
  [][~crossed' /\ stored # Nothing /\ stored' = Nothing =>
       \/ visit # Idle \/ visit' # Idle
       \/ row[stored.refresh.session].status = "gone"
       \/ ~Verified(stored.refresh)]_vars

\* The row is gone, or nobody can refresh with what it holds any more.
Ended(s) ==
  \/ row[s].status = "gone"
  \/ row[s].status = "live" /\ now >= row[s].at + RefreshLife

\* Once a logout is answered, no refresh token of its session is of use and the
\* tab has forgotten it.  The row itself stays if the token had run out.  A
\* refresh that overlaps the logout breaks both: the row was rotated before the
\* deletion by token, and its late answer is stored; and so does a deletion
\* that fails, which is answered like one that did not.
LogoutEnds ==
  ~crossed => \A s \in left :
    Ended(s) /\ (stored # Nothing => s \notin {stored.access.session, stored.refresh.session})

\* A session that is gone is never live again and yields no further token,
\* also to the refresh that had found it before it was revoked.
GoneYieldsNothing ==
  [][\A s \in Sessions : row[s].status = "gone" =>
       /\ row'[s].status = "gone"
       /\ \A e \in Exchanges : Active(e) /\ exchange'[e] # Idle =>
            ~(/\ exchange[e].step = "checked" /\ exchange'[e].step = "answered"
              /\ exchange[e].with.session = s)]_vars

\* A call waits only for a refresh that is still in flight and whose end, answer
\* or failure, will be heard: no call waits for ever.
WaitersAreHeard == (\E k \in Calls : call[k] # Idle /\ call[k].step = "waits") =>
  \E e \in Exchanges : Of(e, "call")

\* frontend/src/api/client.ts:45: "One refresh at a time - parallel 401s must
\* not invalidate the session."  A page that is loaded with an expired access
\* token refreshes twice: once in restoreSession, once for its first calls.
ParallelRefusalsKeepTheSession ==
  Quiet /\ stored # Nothing =>
    row[stored.refresh.session].status = "gone" \/ Usable(stored.refresh)
=============================================================================
