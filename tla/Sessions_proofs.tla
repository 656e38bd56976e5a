--------------------------- MODULE Sessions_proofs ---------------------------
(***************************************************************************)
(* Proofs about Sessions.                                                  *)
(*                                                                         *)
(* While no two activities of the tab have overlapped, at most one refresh *)
(* is in flight, with the token the tab stores, and what is captured by a  *)
(* restoration or a logout is still what is stored.  Orderly says so and   *)
(* follows what the row of the session then holds.                         *)
(***************************************************************************)
EXTENDS Sessions, TLAPS

NotGone(s) == row[s].status = "live"
Kept(t) == NotGone(t.session) => row[t.session].at = t.at
Once(t) == row[t.session].status \in {"live", "gone"}

\* At most one refresh, and it exchanges what is stored.
OneExchange ==
  /\ \A e, f \in Exchanges : Active(e) /\ Active(f) => e = f
  /\ \A e \in Exchanges : Active(e) =>
       /\ exchange[e].by # "nobody"
       /\ exchange[e].by = "restore" => restore # Idle /\ restore.step = "refresh"
       /\ stored # Nothing /\ exchange[e].with = stored.refresh
       /\ visit = Idle

\* What the row holds while a refresh is under way, and when none is.
RowFollows ==
  /\ stored # Nothing => Once(stored.refresh)
  /\ stored # Nothing /\ (\A e \in Exchanges : ~Active(e)) => Kept(stored.refresh)
  /\ \A e \in Exchanges : Active(e) =>
       /\ exchange[e].step \in {"sent", "checked", "refused"} => Kept(stored.refresh)
       /\ exchange[e].step = "answered" => Kept(exchange[e].gives)
       /\ exchange[e].step = "refused" =>
            ~NotGone(exchange[e].with.session) \/ ~Verified(exchange[e].with)

\* One session at a time in the tab.
OneSession ==
  stored # Nothing =>
    /\ stored.access.session = stored.refresh.session
    /\ shown # Nothing => shown.session = stored.refresh.session

\* What was captured is still stored.
Captured ==
  /\ restore # Idle => visit = Idle /\ stored # Nothing /\ restore.with = stored
  /\ visit # Idle /\ visit.op = "login" =>
       /\ stored = Nothing
       /\ visit.step # "sent" =>
            /\ row[visit.gives.session].status # "none"
            /\ visit.gives.session \notin left
       /\ visit.step = "answered" => Once(visit.gives) /\ Kept(visit.gives)
  /\ visit # Idle /\ visit.op = "logout" =>
       /\ stored # Nothing /\ visit.with = stored.refresh
       /\ visit.step = "answered" => Ended(visit.with.session)

LeftIsGone ==
  \A s \in left :
    /\ Ended(s)
    /\ stored # Nothing => stored.refresh.session # s

Orderly == OneExchange /\ RowFollows /\ OneSession /\ Captured /\ LeftIsGone

\* A refresh renews the session it was sent for.
SameSession == \A e \in Exchanges : Active(e) => exchange[e].gives.session = exchange[e].with.session

-----------------------------------------------------------------------------
(* Types. *)

LEMMA StepCases ==
  ASSUME Step, NEW G,
         \A e \in Exchanges : findSession(e) => G,
         \A e \in Exchanges : rotateUserSession(e) => G,
         \A e \in Exchanges : Refreshed(e) => G,
         \A e \in Exchanges : RefreshRefused(e) => G,
         \A e \in Exchanges : Restored(e) => G,
         \A e \in Exchanges : RestoreRefused(e) => G,
         \A e \in Exchanges : Forgotten(e) => G,
         \A e \in Exchanges : RefreshLost(e) => G,
         \A e \in Exchanges : RestoreLost(e) => G,
         \A k \in Calls : Send(k) => G,
         \A k \in Calls : Answered(k) => G,
         \A k \in Calls : Rejected(k) => G,
         Confirmed => G,
         Unconfirmed => G,
         Reload => G,
         Login => G,
         Logout => G,
         \A s \in Sessions : createSession(s) => G,
         signSession => G,
         LoggedIn => G,
         LoginFailed => G,
         serveLogout => G,
         LoggedOut => G,
         \A s \in Sessions : revokeSession(s) => G,
         \A c \in Sessions \cup {Elsewhere} : revokeOtherSessions(c) => G,
         Tick => G
  PROVE  G
  BY DEF Step, Serve, Hear, Lose, Page, Restoring, LogStep, LoginStep, Others

\* All but the last history variable, which every step sets alike.
Types ==
  /\ now \in Time
  /\ row \in [Sessions -> Row]
  /\ stored \in Pair \cup {Nothing}
  /\ shown \in Token \cup {Nothing}
  /\ call \in [Calls -> Call \cup {Idle}]
  /\ exchange \in [Exchanges -> Exchange \cup {Idle}]
  /\ restore \in Restore \cup {Idle}
  /\ visit \in Visit \cup {Idle}
  /\ left \subseteq Sessions

\* The refresh of a restoration is the one that the restoration waits for.
OneRestorer ==
  \A e \in Exchanges : Of(e, "restore") =>
    /\ restore # Idle /\ restore.step = "refresh"
    /\ \A f \in Exchanges : Of(f, "restore") => e = f

LEMMA TypeStep ==
  ASSUME Types, OneRestorer, Step
  PROVE  Types'
  <1> USE TimesAreNumbers
  <1>1. ASSUME NEW e \in Exchanges, findSession(e) PROVE Types'
    <2>1. exchange[e] \in Exchange
      BY <1>1 DEF findSession, Active, Types
    <2>2. Signed(exchange[e].with.session) \in Token
      BY <2>1 DEF Exchange, Token, Signed, Types
    <2>3. /\ [exchange[e] EXCEPT !.step = "checked", !.gives = Signed(exchange[e].with.session)]
              \in Exchange
          /\ [exchange[e] EXCEPT !.step = "refused"] \in Exchange
      BY <2>1, <2>2 DEF Exchange
    <2>4. /\ exchange' = [exchange EXCEPT ![e] = exchange'[e]] /\ exchange'[e] \in Exchange
          /\ UNCHANGED <<now, row, stored, shown, page, left>>
      BY <1>1, <2>3 DEF findSession, Types
    <2> QED
      BY <2>4 DEF Types, page
  <1>2. ASSUME NEW e \in Exchanges, rotateUserSession(e) PROVE Types'
    <2>1. exchange[e] \in Exchange
      BY <1>2 DEF rotateUserSession, Active, Types
    <2>2. exchange[e].gives \in Token
      BY <2>1 DEF Exchange
    <2> DEFINE t == exchange[e].gives
    <2>3. CASE Rotatable(t.session)
      <3>1. [status |-> "live", at |-> t.at] \in Row
        BY <2>2 DEF Row, Token
      <3>2. [exchange[e] EXCEPT !.step = "answered"] \in Exchange
        BY <2>1 DEF Exchange
      <3>3. /\ row' = [row EXCEPT ![t.session] = [status |-> "live", at |-> t.at]]
            /\ exchange' = [exchange EXCEPT ![e] = [exchange[e] EXCEPT !.step = "answered"]]
            /\ UNCHANGED <<now, stored, shown, page, left>>
        BY <1>2, <2>3 DEF rotateUserSession
      <3> QED
        BY <3>1, <3>2, <3>3 DEF Types, page
    <2>4. CASE ~Rotatable(t.session)
      <3>1. [exchange[e] EXCEPT !.step = "refused"] \in Exchange
        BY <2>1 DEF Exchange
      <3>2. /\ exchange' = [exchange EXCEPT ![e] = [exchange[e] EXCEPT !.step = "refused"]]
            /\ UNCHANGED <<row, now, stored, shown, page, left>>
        BY <1>2, <2>4 DEF rotateUserSession
      <3> QED
        BY <3>1, <3>2 DEF Types, page
    <2> QED
      BY <2>3, <2>4
  <1>3. ASSUME NEW e \in Exchanges, Refreshed(e) PROVE Types'
    BY <1>3 DEF Types, Exchange, Call, Restore, Visit, Pair, Token, Row, Time, page, Idle, Refreshed, At, Of, Active, Woken, writeTokens, Both
  <1>4. ASSUME NEW e \in Exchanges, RefreshRefused(e) PROVE Types'
    BY <1>4 DEF Types, Exchange, Call, Restore, Visit, Pair, Token, Row, Time, page, Idle, RefreshRefused, At, Of, Active, GiveUp, Woken, clearAuthStorage
  <1>5. ASSUME NEW e \in Exchanges, Restored(e) PROVE Types'
    BY <1>5 DEF Types, Exchange, Call, Restore, Visit, Pair, Token, Row, Time, page, Idle, Restored, At, Of, Active, applySession, Both
  <1>6. ASSUME NEW e \in Exchanges, RestoreRefused(e) PROVE Types'
    <2>1. restore \in Restore
      BY <1>6 DEF RestoreRefused, At, OneRestorer, Types
    <2>2. restore.with \in Pair /\ restore.with.access \in Token
      BY <2>1 DEF Restore, Pair
    <2> QED
      BY <1>6, <2>2 DEF Types, Exchange, page, Idle, RestoreRefused, At, Of, Active, applySession
  <1>7. ASSUME NEW e \in Exchanges, Forgotten(e) PROVE Types'
    BY <1>7 DEF Types, Exchange, Call, Restore, Visit, Pair, Token, Row, Time, page, Idle, Forgotten, Of, Active
  <1>8. ASSUME NEW e \in Exchanges, RefreshLost(e) PROVE Types'
    BY <1>8 DEF Types, Exchange, Call, Restore, Visit, Pair, Token, Row, Time, page, Idle, RefreshLost, Of, Active, Abandoned, GiveUp, Woken, clearAuthStorage
  <1>9. ASSUME NEW e \in Exchanges, RestoreLost(e) PROVE Types'
    <2>1. restore \in Restore
      BY <1>9 DEF RestoreLost, At, OneRestorer, Types
    <2>2. restore.with \in Pair /\ restore.with.access \in Token
      BY <2>1 DEF Restore, Pair
    <2> QED
      BY <1>9, <2>2 DEF Types, Exchange, page, Idle, RestoreLost, Of, Active, applySession, Abandoned
  <1>10. ASSUME NEW k \in Calls, Send(k) PROVE Types'
    BY <1>10 DEF Types, Exchange, Call, Restore, Visit, Pair, Token, Row, Time, page, Idle, Send
  <1>11. ASSUME NEW k \in Calls, Answered(k) PROVE Types'
    BY <1>11 DEF Types, Exchange, Call, Restore, Visit, Pair, Token, Row, Time, page, Idle, Answered
  <1>12. ASSUME NEW k \in Calls, Rejected(k) PROVE Types'
    <2>1. call[k] \in Call
      BY <1>12 DEF Rejected, Types
    <2>2. [call[k] EXCEPT !.step = "waits"] \in Call
      BY <2>1 DEF Call
    <2>3. UNCHANGED <<now, row, restore, visit, left>>
      BY <1>12 DEF Rejected
    <2>4. CASE /\ call' = [call EXCEPT ![k].step = "waits"]
               /\ UNCHANGED <<stored, shown, exchange>>
      BY <2>2, <2>3, <2>4 DEF Types
    <2>5. CASE /\ stored # Nothing
               /\ Post("call", stored.refresh)
               /\ call' = [call EXCEPT ![k].step = "waits"]
               /\ UNCHANGED <<stored, shown>>
      <3>1. stored.refresh \in Token
        BY <2>5 DEF Types, Pair
      <3>2. PICK e \in Exchanges : exchange' = [exchange EXCEPT ![e] =
              [by |-> "call", with |-> stored.refresh, gives |-> stored.refresh, step |-> "sent"]]
        BY <2>5 DEF Post
      <3>3. [by |-> "call", with |-> stored.refresh, gives |-> stored.refresh, step |-> "sent"]
              \in Exchange
        BY <3>1 DEF Exchange
      <3> QED
        BY <2>2, <2>3, <2>5, <3>2, <3>3 DEF Types
    <2>6. CASE /\ call' = [call EXCEPT ![k] = Idle]
               /\ IF restore = Idle THEN clearAuthStorage ELSE UNCHANGED <<stored, shown>>
               /\ UNCHANGED exchange
      BY <2>3, <2>6 DEF Types, clearAuthStorage
    <2> QED
      BY <1>12, <2>4, <2>5, <2>6 DEF Rejected
  <1>13. ASSUME Confirmed PROVE Types'
    BY <1>13 DEF Types, Exchange, Call, Restore, Visit, Pair, Token, Row, Time, page, Idle, Confirmed, applySession
  <1>14. ASSUME Unconfirmed PROVE Types'
    BY <1>14 DEF Types, Exchange, Call, Restore, Visit, Pair, Token, Row, Time, page, Idle, Unconfirmed, Post, Active
  <1>15. ASSUME Reload PROVE Types'
    <2> DEFINE y == [e \in Exchanges |->
                       IF Active(e) THEN [exchange[e] EXCEPT !.by = "nobody"] ELSE Idle]
    <2>1. /\ exchange' = y /\ call' = [k \in Calls |-> Idle] /\ visit' = Idle
          /\ UNCHANGED <<now, row, left>>
      BY <1>15 DEF Reload
    <2>2. y \in [Exchanges -> Exchange \cup {Idle}]
      BY DEF Types, Active, Exchange
    <2>3. CASE stored = Nothing
      BY <1>15, <2>1, <2>2, <2>3 DEF Reload, Types
    <2>4. CASE stored # Nothing
      <3> DEFINE token == IF shown = Nothing THEN stored.access ELSE shown
                 p == [access |-> token, refresh |-> stored.refresh]
      <3>1. token \in Token /\ p \in Pair
        BY <2>4 DEF Types, Pair
      <3>2. [step |-> "me", with |-> p] \in Restore
        BY <3>1 DEF Restore
      <3>3. stored' = p /\ shown' = token /\ restore' = [step |-> "me", with |-> p]
        BY <1>15, <2>4 DEF Reload
      <3> QED
        BY <2>1, <2>2, <3>1, <3>2, <3>3 DEF Types
    <2> QED
      BY <2>3, <2>4
  <1>16. ASSUME Login PROVE Types'
    BY <1>16 DEF Types, Exchange, Call, Restore, Visit, Pair, Token, Row, Time, page, Idle, Login, clearAuthStorage
  <1>17. ASSUME Logout PROVE Types'
    BY <1>17 DEF Types, Exchange, Call, Restore, Visit, Pair, Token, Row, Time, page, Idle, Logout
  <1>18. ASSUME NEW s \in Sessions, createSession(s) PROVE Types'
    BY <1>18 DEF Types, Exchange, Call, Restore, Visit, Pair, Token, Row, Time, page, Idle, createSession, Visiting, Signed
  <1>19. ASSUME signSession PROVE Types'
    BY <1>19 DEF Types, Exchange, Call, Restore, Visit, Pair, Token, Row, Time, page, Idle, signSession, Visiting
  <1>20. ASSUME LoggedIn PROVE Types'
    BY <1>20 DEF Types, Exchange, Call, Restore, Visit, Pair, Token, Row, Time, page, Idle, LoggedIn, Visiting, Both
  <1>21. ASSUME LoginFailed PROVE Types'
    BY <1>21 DEF Types, Exchange, Call, Restore, Visit, Pair, Token, Row, Time, page, Idle, LoginFailed, clearAuthStorage, Visiting
  <1>22. ASSUME serveLogout PROVE Types'
    BY <1>22 DEF Types, Exchange, Call, Restore, Visit, Pair, Token, Row, Time, page, Idle, serveLogout, Visiting, deleteUserSessionByToken, Delete
  <1>23. ASSUME LoggedOut PROVE Types'
    BY <1>23 DEF Types, Exchange, Call, Restore, Visit, Pair, Token, Row, Time, page, Idle, LoggedOut, clearAuthStorage
  <1>24. ASSUME NEW s \in Sessions, revokeSession(s) PROVE Types'
    BY <1>24 DEF Types, Exchange, Call, Restore, Visit, Pair, Token, Row, Time, page, Idle, revokeSession, Delete
  <1>25. ASSUME NEW c \in Sessions \cup {Elsewhere}, revokeOtherSessions(c) PROVE Types'
    BY <1>25 DEF Types, Exchange, Call, Restore, Visit, Pair, Token, Row, Time, page, Idle, revokeOtherSessions, Delete
  <1>26. ASSUME Tick PROVE Types'
    BY <1>26 DEF Types, Exchange, Call, Restore, Visit, Pair, Token, Row, Time, page, Idle, Tick
  <1> QED
    BY StepCases, <1>1, <1>2, <1>3, <1>4, <1>5, <1>6, <1>7, <1>8, <1>9, <1>10, <1>11, <1>12, <1>13, <1>14, <1>15, <1>16, <1>17, <1>18, <1>19, <1>20, <1>21, <1>22, <1>23, <1>24, <1>25, <1>26

\* The restorer and the session of an exchange, which overlaps do not disturb.
LEMMA ExchangeStep ==
  ASSUME Types, OneRestorer, SameSession, Step
  PROVE  OneRestorer' /\ SameSession'
  <1>1. ASSUME NEW e \in Exchanges, findSession(e) PROVE OneRestorer' /\ SameSession'
    <2> DEFINE x == exchange[e]
               checked == [x EXCEPT !.step = "checked", !.gives = Signed(x.with.session)]
               refused == [x EXCEPT !.step = "refused"]
    <2>1. x \in Exchange /\ x # Idle
      BY <1>1 DEF findSession, Active, Types
    <2>2. exchange' = [exchange EXCEPT ![e] = checked] \/ exchange' = [exchange EXCEPT ![e] = refused]
      BY <1>1 DEF findSession
    <2>3. restore' = restore
      BY <1>1 DEF findSession, page
    <2>4. /\ checked.by = x.by /\ checked.with = x.with /\ checked.step = "checked"
          /\ checked.gives.session = x.with.session
          /\ refused.by = x.by /\ refused.with = x.with /\ refused.step = "refused"
          /\ refused.gives = x.gives
      BY <2>1 DEF Exchange, Signed
    <2>5. x.gives.session = x.with.session
      BY <2>1 DEF SameSession, Active
    <2> HIDE DEF checked, refused
    <2>6. /\ exchange' = [exchange EXCEPT ![e] = x'] /\ x' # Idle
          /\ x'.by = x.by /\ x'.gives.session = x'.with.session
      BY <2>2, <2>4, <2>5 DEF Types, Idle
    <2> HIDE DEF x
    <2> QED
      BY <2>1, <2>3, <2>6 DEF OneRestorer, SameSession, Of, Active, Types, x
  <1>2. ASSUME NEW e \in Exchanges, rotateUserSession(e) PROVE OneRestorer' /\ SameSession'
    <2> DEFINE x == exchange[e]
    <2>1. x \in Exchange /\ x # Idle
      BY <1>2 DEF rotateUserSession, Active, Types
    <2>2. /\ exchange' = [exchange EXCEPT ![e] = x'] /\ x' # Idle /\ restore' = restore
          /\ x'.by = x.by /\ x'.with = x.with /\ x'.gives = x.gives
      BY <1>2, <2>1 DEF rotateUserSession, page, Types, Exchange, Idle
    <2> QED
      BY <2>1, <2>2 DEF OneRestorer, SameSession, Of, Active, Types
  <1>3. ASSUME NEW e \in Exchanges, Refreshed(e) PROVE OneRestorer' /\ SameSession'
    BY <1>3 DEF Types, OneRestorer, SameSession, Idle, page, Refreshed, At, Of, Active, Woken, writeTokens, Both
  <1>4. ASSUME NEW e \in Exchanges, RefreshRefused(e) PROVE OneRestorer' /\ SameSession'
    BY <1>4 DEF Types, OneRestorer, SameSession, Idle, page, RefreshRefused, At, Of, Active, GiveUp, Woken, clearAuthStorage
  <1>5. ASSUME NEW e \in Exchanges, Restored(e) PROVE OneRestorer' /\ SameSession'
    BY <1>5 DEF Types, OneRestorer, SameSession, Idle, page, Restored, At, Of, Active, applySession, Both
  <1>6. ASSUME NEW e \in Exchanges, RestoreRefused(e) PROVE OneRestorer' /\ SameSession'
    BY <1>6 DEF Types, OneRestorer, SameSession, Idle, page, RestoreRefused, At, Of, Active, applySession
  <1>7. ASSUME NEW e \in Exchanges, Forgotten(e) PROVE OneRestorer' /\ SameSession'
    BY <1>7 DEF Types, OneRestorer, SameSession, Idle, page, Forgotten, Of, Active
  <1>8. ASSUME NEW e \in Exchanges, RefreshLost(e) PROVE OneRestorer' /\ SameSession'
    BY <1>8 DEF Types, OneRestorer, SameSession, Idle, page, RefreshLost, Of, Active, Abandoned, GiveUp, Woken, clearAuthStorage
  <1>9. ASSUME NEW e \in Exchanges, RestoreLost(e) PROVE OneRestorer' /\ SameSession'
    BY <1>9 DEF Types, OneRestorer, SameSession, Idle, page, RestoreLost, Of, Active, applySession, Abandoned
  <1>10. ASSUME NEW k \in Calls, Send(k) PROVE OneRestorer' /\ SameSession'
    BY <1>10 DEF Types, OneRestorer, SameSession, Idle, page, Send, Of, Active
  <1>11. ASSUME NEW k \in Calls, Answered(k) PROVE OneRestorer' /\ SameSession'
    BY <1>11 DEF Types, OneRestorer, SameSession, Idle, page, Answered, Of, Active
  <1>12. ASSUME NEW k \in Calls, Rejected(k) PROVE OneRestorer' /\ SameSession'
    BY <1>12 DEF Types, OneRestorer, SameSession, Idle, page, Rejected, Post, Active, clearAuthStorage, InFlight, Of
  <1>13. ASSUME Confirmed PROVE OneRestorer' /\ SameSession'
    BY <1>13 DEF Types, OneRestorer, SameSession, Idle, page, Confirmed, applySession, Of, Active
  <1>14. ASSUME Unconfirmed PROVE OneRestorer' /\ SameSession'
    BY <1>14 DEF Types, OneRestorer, SameSession, Idle, page, Unconfirmed, Post, Active, Of
  <1>15. ASSUME Reload PROVE OneRestorer' /\ SameSession'
    BY <1>15 DEF Types, OneRestorer, SameSession, Idle, page, Reload, Active, Of
  <1>16. ASSUME Login PROVE OneRestorer' /\ SameSession'
    BY <1>16 DEF Types, OneRestorer, SameSession, Idle, page, Login, clearAuthStorage, Of, Active
  <1>17. ASSUME Logout PROVE OneRestorer' /\ SameSession'
    BY <1>17 DEF Types, OneRestorer, SameSession, Idle, page, Logout, Of, Active
  <1>18. ASSUME NEW s \in Sessions, createSession(s) PROVE OneRestorer' /\ SameSession'
    BY <1>18 DEF Types, OneRestorer, SameSession, Idle, page, createSession, Visiting, Signed, Of, Active
  <1>19. ASSUME signSession PROVE OneRestorer' /\ SameSession'
    BY <1>19 DEF Types, OneRestorer, SameSession, Idle, page, signSession, Visiting, Of, Active
  <1>20. ASSUME LoggedIn PROVE OneRestorer' /\ SameSession'
    BY <1>20 DEF Types, OneRestorer, SameSession, Idle, page, LoggedIn, Visiting, Both, Of, Active
  <1>21. ASSUME LoginFailed PROVE OneRestorer' /\ SameSession'
    BY <1>21 DEF Types, OneRestorer, SameSession, Idle, page, LoginFailed, clearAuthStorage, Of, Active, Visiting
  <1>22. ASSUME serveLogout PROVE OneRestorer' /\ SameSession'
    BY <1>22 DEF Types, OneRestorer, SameSession, Idle, page, serveLogout, Visiting, deleteUserSessionByToken, Delete, Usable, Of, Active
  <1>23. ASSUME LoggedOut PROVE OneRestorer' /\ SameSession'
    BY <1>23 DEF Types, OneRestorer, SameSession, Idle, page, LoggedOut, clearAuthStorage, Of, Active
  <1>24. ASSUME NEW s \in Sessions, revokeSession(s) PROVE OneRestorer' /\ SameSession'
    BY <1>24 DEF Types, OneRestorer, SameSession, Idle, page, revokeSession, Delete, Of, Active
  <1>25. ASSUME NEW c \in Sessions \cup {Elsewhere}, revokeOtherSessions(c) PROVE OneRestorer' /\ SameSession'
    BY <1>25 DEF Types, OneRestorer, SameSession, Idle, page, revokeOtherSessions, Delete, Of, Active
  <1>26. ASSUME Tick PROVE OneRestorer' /\ SameSession'
    BY <1>26 DEF Types, OneRestorer, SameSession, Idle, page, Tick, Of, Active
  <1> QED
    BY StepCases, <1>1, <1>2, <1>3, <1>4, <1>5, <1>6, <1>7, <1>8, <1>9, <1>10, <1>11, <1>12, <1>13, <1>14, <1>15, <1>16, <1>17, <1>18, <1>19, <1>20, <1>21, <1>22, <1>23, <1>24, <1>25, <1>26

-----------------------------------------------------------------------------
(* Order. *)

LEMMA FindSessionOrderly ==
  ASSUME Types, OneRestorer, SameSession, Orderly, ~Crossing, NEW e \in Exchanges, findSession(e), ~Crossing'
  PROVE  Orderly'
  <1>1. OneExchange'
    <2>1. /\ Active(e) /\ visit = Idle /\ stored # Nothing /\ exchange[e].with = stored.refresh
          /\ \A f \in Exchanges : Active(f) => f = e
      BY DEF findSession, Active, Orderly, OneExchange, RowFollows
    <2>2. /\ exchange'[e].with = exchange[e].with /\ exchange'[e].by = exchange[e].by
          /\ \A f \in Exchanges \ {e} : exchange'[f] = exchange[f]
          /\ UNCHANGED <<stored, restore, visit>>
      BY <2>1 DEF findSession, Active, Types, Exchange, page
    <2> QED
      BY <2>1, <2>2 DEF Orderly, OneExchange, Active, Of
  <1>2. RowFollows'
    <2> DEFINE t == exchange[e].with
    <2>1. /\ Active(e) /\ exchange[e].step = "sent" /\ t \in Token
          /\ exchange[e] \in Exchange
      BY DEF findSession, Active, Types, Exchange
    <2>2. /\ stored # Nothing /\ t = stored.refresh
          /\ \A f \in Exchanges : Active(f) => f = e
          /\ Once(t) /\ Kept(t)
      BY <2>1 DEF Orderly, OneExchange, RowFollows
    <2>3. row' = row /\ stored' = stored /\ now' = now
      BY DEF findSession
    <2>4. \A f \in Exchanges \ {e} : exchange'[f] = exchange[f]
      BY DEF findSession, Types
    <2>5. CASE Verified(t) /\ Usable(t)
      <3>1. exchange'[e].step = "checked" /\ exchange'[e].with = t
        BY <2>1, <2>5 DEF findSession, Types, Exchange
      <3> QED
        BY <2>1, <2>2, <2>3, <2>4, <3>1 DEF RowFollows, Active, Idle, Kept, Once, NotGone
    <2>6. CASE ~(Verified(t) /\ Usable(t))
      <3>1. exchange'[e].step = "refused" /\ exchange'[e].with = t
        BY <2>1, <2>6 DEF findSession, Types, Exchange
      <3>2. ~NotGone(t.session) \/ ~Verified(t)
        BY <2>2, <2>6 DEF Usable, Kept, NotGone
      <3>3. ~NotGone(t.session)' \/ ~Verified(t)'
        BY <2>3, <3>1, <3>2 DEF NotGone, Verified
      <3> QED
        BY <2>1, <2>2, <2>3, <2>4, <3>1, <3>3 DEF RowFollows, Active, Idle, Kept, Once, NotGone
    <2> QED
      BY <2>5, <2>6
  <1>3. OneSession'
    BY DEF Types, OneRestorer, SameSession, Orderly, OneExchange, RowFollows, OneSession, Captured, LeftIsGone, Ended, Verified, Visiting, Crossing, Kept, Once, NotGone, Of, Active, Idle, page, findSession, Signed, Usable
  <1>4. Captured'
    BY DEF Types, OneRestorer, SameSession, Orderly, OneExchange, RowFollows, OneSession, Captured, LeftIsGone, Ended, Verified, Visiting, Crossing, Kept, Once, NotGone, Of, Active, Idle, page, findSession, Signed, Usable
  <1>5. LeftIsGone'
    BY DEF Types, OneRestorer, SameSession, Orderly, OneExchange, RowFollows, OneSession, Captured, LeftIsGone, Ended, Verified, Visiting, Crossing, Kept, Once, NotGone, Of, Active, Idle, page, findSession, Signed, Usable
  <1> QED
    BY <1>1, <1>2, <1>3, <1>4, <1>5 DEF Orderly

LEMMA RotateUserSessionOrderly ==
  ASSUME Types, OneRestorer, SameSession, Orderly, ~Crossing,
         NEW e \in Exchanges, rotateUserSession(e), ~Crossing'
  PROVE  Orderly'
  <1> DEFINE t == exchange[e].gives
             x == exchange[e]
  <1>1. /\ Active(e) /\ x.step = "checked" /\ x \in Exchange /\ t \in Token
        /\ exchange' = [exchange EXCEPT ![e] = x'] /\ x' \in Exchange
        /\ x'.by = x.by /\ x'.with = x.with /\ x'.gives = t
        /\ x'.step \in {"answered", "refused"}
        /\ x'.step = "answered" => Rotatable(t.session)
        /\ row' = IF Rotatable(t.session)
                  THEN [row EXCEPT ![t.session] = [status |-> "live", at |-> t.at]] ELSE row
        /\ x'.step = "refused" => ~Rotatable(t.session)
        /\ UNCHANGED <<now, stored, shown, restore, visit, left>>
    BY DEF rotateUserSession, Active, Types, Exchange, page
  <1>2. /\ stored # Nothing /\ x.with = stored.refresh /\ visit = Idle
        /\ \A f \in Exchanges : Active(f) => f = e
        /\ Once(x.with) /\ t.session = x.with.session
    BY <1>1 DEF Orderly, OneExchange, RowFollows, SameSession
  <1>3. /\ Active(e)' /\ \A f \in Exchanges \ {e} : exchange'[f] = exchange[f]
        /\ \A f \in Exchanges : Active(f)' => f = e
    BY <1>1, <1>2 DEF Active, Types, Exchange, Idle
  <1>4. OneExchange'
    BY <1>1, <1>2, <1>3 DEF Orderly, OneExchange
  <1>5. RowFollows'
    <2>1. CASE Rotatable(t.session)
      <3>1. row'[t.session] = [status |-> "live", at |-> t.at] /\ x'.step = "answered"
        BY <1>1, <2>1 DEF Types, Token
      <3>2. Once(stored.refresh)' /\ Kept(x.gives)'
        BY <1>1, <1>2, <3>1 DEF Once, Kept
      <3> QED
        BY <1>1, <1>2, <1>3, <3>1, <3>2 DEF RowFollows
    <2>2. CASE ~Rotatable(t.session)
      <3>1. row' = row /\ x'.step = "refused" /\ ~NotGone(t.session)
        BY <1>1, <2>2 DEF Rotatable, NotGone
      <3> QED
        BY <1>1, <1>2, <1>3, <3>1 DEF RowFollows, Once, NotGone, Kept
    <2> QED
      BY <2>1, <2>2
  <1>6. OneSession' /\ Captured'
    BY <1>1, <1>2 DEF Orderly, OneSession, Captured, Idle
  <1>7. LeftIsGone'
    <2>1. x.with.session \notin left
      BY <1>2 DEF Orderly, LeftIsGone
    <2>2. \A s \in left : row'[s] = row[s]
      BY <1>1, <1>2, <2>1 DEF Types
    <2> QED
      BY <1>1, <2>2 DEF Orderly, LeftIsGone, Ended
  <1> QED
    BY <1>4, <1>5, <1>6, <1>7 DEF Orderly

LEMMA RefreshedOrderly ==
  ASSUME Types, OneRestorer, SameSession, Orderly, ~Crossing, NEW e \in Exchanges, Refreshed(e), ~Crossing'
  PROVE  Orderly'
  <1>1. OneExchange'
    BY DEF Types, OneRestorer, SameSession, Orderly, OneExchange, RowFollows, OneSession, Captured, LeftIsGone, Ended, Verified, Visiting, Crossing, Kept, Once, NotGone, Of, Active, Idle, page, Refreshed, At, Woken, writeTokens, Both
  <1>2. RowFollows'
    BY DEF Types, OneRestorer, SameSession, Orderly, OneExchange, RowFollows, OneSession, Captured, LeftIsGone, Ended, Verified, Visiting, Crossing, Kept, Once, NotGone, Of, Active, Idle, page, Refreshed, At, Woken, writeTokens, Both
  <1>3. OneSession'
    BY DEF Types, OneRestorer, SameSession, Orderly, OneExchange, RowFollows, OneSession, Captured, LeftIsGone, Ended, Verified, Visiting, Crossing, Kept, Once, NotGone, Of, Active, Idle, page, Refreshed, At, Woken, writeTokens, Both
  <1>4. Captured'
    BY DEF Types, OneRestorer, SameSession, Orderly, OneExchange, RowFollows, OneSession, Captured, LeftIsGone, Ended, Verified, Visiting, Crossing, Kept, Once, NotGone, Of, Active, Idle, page, Refreshed, At, Woken, writeTokens, Both
  <1>5. LeftIsGone'
    BY DEF Types, OneRestorer, SameSession, Orderly, OneExchange, RowFollows, OneSession, Captured, LeftIsGone, Ended, Verified, Visiting, Crossing, Kept, Once, NotGone, Of, Active, Idle, page, Refreshed, At, Woken, writeTokens, Both
  <1> QED
    BY <1>1, <1>2, <1>3, <1>4, <1>5 DEF Orderly

LEMMA RefreshRefusedOrderly ==
  ASSUME Types, OneRestorer, SameSession, Orderly, ~Crossing, NEW e \in Exchanges, RefreshRefused(e), ~Crossing'
  PROVE  Orderly'
  <1>1. OneExchange'
    BY DEF Types, OneRestorer, SameSession, Orderly, OneExchange, RowFollows, OneSession, Captured, LeftIsGone, Ended, Verified, Visiting, Crossing, Kept, Once, NotGone, Of, Active, Idle, page, RefreshRefused, At, GiveUp, Woken, clearAuthStorage
  <1>2. RowFollows'
    BY DEF Types, OneRestorer, SameSession, Orderly, OneExchange, RowFollows, OneSession, Captured, LeftIsGone, Ended, Verified, Visiting, Crossing, Kept, Once, NotGone, Of, Active, Idle, page, RefreshRefused, At, GiveUp, Woken, clearAuthStorage
  <1>3. OneSession'
    BY DEF Types, OneRestorer, SameSession, Orderly, OneExchange, RowFollows, OneSession, Captured, LeftIsGone, Ended, Verified, Visiting, Crossing, Kept, Once, NotGone, Of, Active, Idle, page, RefreshRefused, At, GiveUp, Woken, clearAuthStorage
  <1>4. Captured'
    BY DEF Types, OneRestorer, SameSession, Orderly, OneExchange, RowFollows, OneSession, Captured, LeftIsGone, Ended, Verified, Visiting, Crossing, Kept, Once, NotGone, Of, Active, Idle, page, RefreshRefused, At, GiveUp, Woken, clearAuthStorage
  <1>5. LeftIsGone'
    BY DEF Types, OneRestorer, SameSession, Orderly, OneExchange, RowFollows, OneSession, Captured, LeftIsGone, Ended, Verified, Visiting, Crossing, Kept, Once, NotGone, Of, Active, Idle, page, RefreshRefused, At, GiveUp, Woken, clearAuthStorage
  <1> QED
    BY <1>1, <1>2, <1>3, <1>4, <1>5 DEF Orderly

LEMMA RestoredOrderly ==
  ASSUME Types, OneRestorer, SameSession, Orderly, ~Crossing, NEW e \in Exchanges, Restored(e), ~Crossing'
  PROVE  Orderly'
  <1>1. OneExchange'
    BY DEF Types, OneRestorer, SameSession, Orderly, OneExchange, RowFollows, OneSession, Captured, LeftIsGone, Ended, Verified, Visiting, Crossing, Kept, Once, NotGone, Of, Active, Idle, page, Restored, At, applySession, Both
  <1>2. RowFollows'
    BY DEF Types, OneRestorer, SameSession, Orderly, OneExchange, RowFollows, OneSession, Captured, LeftIsGone, Ended, Verified, Visiting, Crossing, Kept, Once, NotGone, Of, Active, Idle, page, Restored, At, applySession, Both
  <1>3. OneSession'
    BY DEF Types, OneRestorer, SameSession, Orderly, OneExchange, RowFollows, OneSession, Captured, LeftIsGone, Ended, Verified, Visiting, Crossing, Kept, Once, NotGone, Of, Active, Idle, page, Restored, At, applySession, Both
  <1>4. Captured'
    BY DEF Types, OneRestorer, SameSession, Orderly, OneExchange, RowFollows, OneSession, Captured, LeftIsGone, Ended, Verified, Visiting, Crossing, Kept, Once, NotGone, Of, Active, Idle, page, Restored, At, applySession, Both
  <1>5. LeftIsGone'
    BY DEF Types, OneRestorer, SameSession, Orderly, OneExchange, RowFollows, OneSession, Captured, LeftIsGone, Ended, Verified, Visiting, Crossing, Kept, Once, NotGone, Of, Active, Idle, page, Restored, At, applySession, Both
  <1> QED
    BY <1>1, <1>2, <1>3, <1>4, <1>5 DEF Orderly

LEMMA RestoreRefusedOrderly ==
  ASSUME Types, OneRestorer, SameSession, Orderly, ~Crossing, NEW e \in Exchanges, RestoreRefused(e), ~Crossing'
  PROVE  Orderly'
  <1>1. OneExchange'
    BY DEF Types, OneRestorer, SameSession, Orderly, OneExchange, RowFollows, OneSession, Captured, LeftIsGone, Ended, Verified, Visiting, Crossing, Kept, Once, NotGone, Of, Active, Idle, page, RestoreRefused, At, applySession
  <1>2. RowFollows'
    BY DEF Types, OneRestorer, SameSession, Orderly, OneExchange, RowFollows, OneSession, Captured, LeftIsGone, Ended, Verified, Visiting, Crossing, Kept, Once, NotGone, Of, Active, Idle, page, RestoreRefused, At, applySession
  <1>3. OneSession'
    BY DEF Types, OneRestorer, SameSession, Orderly, OneExchange, RowFollows, OneSession, Captured, LeftIsGone, Ended, Verified, Visiting, Crossing, Kept, Once, NotGone, Of, Active, Idle, page, RestoreRefused, At, applySession
  <1>4. Captured'
    BY DEF Types, OneRestorer, SameSession, Orderly, OneExchange, RowFollows, OneSession, Captured, LeftIsGone, Ended, Verified, Visiting, Crossing, Kept, Once, NotGone, Of, Active, Idle, page, RestoreRefused, At, applySession
  <1>5. LeftIsGone'
    BY DEF Types, OneRestorer, SameSession, Orderly, OneExchange, RowFollows, OneSession, Captured, LeftIsGone, Ended, Verified, Visiting, Crossing, Kept, Once, NotGone, Of, Active, Idle, page, RestoreRefused, At, applySession
  <1> QED
    BY <1>1, <1>2, <1>3, <1>4, <1>5 DEF Orderly

LEMMA ForgottenOrderly ==
  ASSUME ~Crossing, NEW e \in Exchanges, Forgotten(e)
  PROVE  FALSE
  BY DEF Forgotten, Crossing

LEMMA RefreshLostOrderly ==
  ASSUME Types, NEW e \in Exchanges, RefreshLost(e), ~Crossing'
  PROVE  FALSE
  BY DEF RefreshLost, Abandoned, Crossing, Of, Active, Types, Exchange, Idle

\* An exchange that nobody waits for is an overlap.
LEMMA RestoreLostOrderly ==
  ASSUME Types, NEW e \in Exchanges, RestoreLost(e), ~Crossing'
  PROVE  FALSE
  BY DEF RestoreLost, Abandoned, Crossing, Of, Active, Types, Exchange, Idle

LEMMA SendOrderly ==
  ASSUME Types, OneRestorer, SameSession, Orderly, ~Crossing, NEW k \in Calls, Send(k), ~Crossing'
  PROVE  Orderly'
  <1>1. OneExchange'
    BY DEF Types, OneRestorer, SameSession, Orderly, OneExchange, RowFollows, OneSession, Captured, LeftIsGone, Ended, Verified, Visiting, Crossing, Kept, Once, NotGone, Of, Active, Idle, page, Send
  <1>2. RowFollows'
    BY DEF Types, OneRestorer, SameSession, Orderly, OneExchange, RowFollows, OneSession, Captured, LeftIsGone, Ended, Verified, Visiting, Crossing, Kept, Once, NotGone, Of, Active, Idle, page, Send
  <1>3. OneSession'
    BY DEF Types, OneRestorer, SameSession, Orderly, OneExchange, RowFollows, OneSession, Captured, LeftIsGone, Ended, Verified, Visiting, Crossing, Kept, Once, NotGone, Of, Active, Idle, page, Send
  <1>4. Captured'
    BY DEF Types, OneRestorer, SameSession, Orderly, OneExchange, RowFollows, OneSession, Captured, LeftIsGone, Ended, Verified, Visiting, Crossing, Kept, Once, NotGone, Of, Active, Idle, page, Send
  <1>5. LeftIsGone'
    BY DEF Types, OneRestorer, SameSession, Orderly, OneExchange, RowFollows, OneSession, Captured, LeftIsGone, Ended, Verified, Visiting, Crossing, Kept, Once, NotGone, Of, Active, Idle, page, Send
  <1> QED
    BY <1>1, <1>2, <1>3, <1>4, <1>5 DEF Orderly

LEMMA AnsweredOrderly ==
  ASSUME Types, OneRestorer, SameSession, Orderly, ~Crossing, NEW k \in Calls, Answered(k), ~Crossing'
  PROVE  Orderly'
  <1>1. OneExchange'
    BY DEF Types, OneRestorer, SameSession, Orderly, OneExchange, RowFollows, OneSession, Captured, LeftIsGone, Ended, Verified, Visiting, Crossing, Kept, Once, NotGone, Of, Active, Idle, page, Answered
  <1>2. RowFollows'
    BY DEF Types, OneRestorer, SameSession, Orderly, OneExchange, RowFollows, OneSession, Captured, LeftIsGone, Ended, Verified, Visiting, Crossing, Kept, Once, NotGone, Of, Active, Idle, page, Answered
  <1>3. OneSession'
    BY DEF Types, OneRestorer, SameSession, Orderly, OneExchange, RowFollows, OneSession, Captured, LeftIsGone, Ended, Verified, Visiting, Crossing, Kept, Once, NotGone, Of, Active, Idle, page, Answered
  <1>4. Captured'
    BY DEF Types, OneRestorer, SameSession, Orderly, OneExchange, RowFollows, OneSession, Captured, LeftIsGone, Ended, Verified, Visiting, Crossing, Kept, Once, NotGone, Of, Active, Idle, page, Answered
  <1>5. LeftIsGone'
    BY DEF Types, OneRestorer, SameSession, Orderly, OneExchange, RowFollows, OneSession, Captured, LeftIsGone, Ended, Verified, Visiting, Crossing, Kept, Once, NotGone, Of, Active, Idle, page, Answered
  <1> QED
    BY <1>1, <1>2, <1>3, <1>4, <1>5 DEF Orderly

\* A refresh that is sent while none is in flight.
LEMMA PostOrderly ==
  ASSUME Types, Orderly, NEW who \in {"call", "restore"}, stored # Nothing,
         Post(who, stored.refresh), \A e \in Exchanges : ~Active(e),
         UNCHANGED <<now, row, stored, shown, visit, left>>, visit = Idle,
         \/ UNCHANGED restore
         \/ restore # Idle /\ restore' = [restore EXCEPT !.step = "refresh"],
         who = "restore" => restore' # Idle /\ restore'.step = "refresh"
  PROVE  Orderly'
  <1> DEFINE x == [by |-> who, with |-> stored.refresh, gives |-> stored.refresh, step |-> "sent"]
  <1>1. PICK e \in Exchanges : exchange' = [exchange EXCEPT ![e] = x]
    BY DEF Post
  <1>2. /\ exchange'[e] = x /\ Active(e)'
        /\ \A f \in Exchanges : Active(f)' => f = e
    BY <1>1 DEF Active, Types, Idle
  <1>3. OneExchange'
    BY <1>2 DEF OneExchange
  <1>4. RowFollows'
    BY <1>2 DEF Orderly, RowFollows, Kept, Once, NotGone
  <1>5. OneSession' /\ LeftIsGone'
    BY DEF Orderly, OneSession, LeftIsGone, Ended
  <1>6. Captured'
    BY DEF Orderly, Captured, Types, Restore, Idle
  <1> QED
    BY <1>3, <1>4, <1>5, <1>6 DEF Orderly

LEMMA RejectedOrderly ==
  ASSUME Types, OneRestorer, SameSession, Orderly, ~Crossing,
         NEW k \in Calls, Rejected(k), ~Crossing'
  PROVE  Orderly'
  <1>1. UNCHANGED <<now, row, restore, visit, left>>
    BY DEF Rejected
  <1>2. CASE /\ ~InFlight /\ stored # Nothing
             /\ Post("call", stored.refresh)
             /\ UNCHANGED <<stored, shown>>
    <2>1. PICK e \in Exchanges : exchange' = [exchange EXCEPT ![e] =
            [by |-> "call", with |-> stored.refresh, gives |-> stored.refresh, step |-> "sent"]]
      BY <1>2 DEF Post
    <2>2. Of(e, "call")'
      BY <2>1 DEF Types, Of, Active, Idle
    <2>3. restore = Idle /\ visit = Idle
      BY <1>1, <2>2 DEF Crossing, Of
    <2>4. \A f \in Exchanges : ~Active(f)
      BY <1>2, <2>3 DEF InFlight, Of, Active, Orderly, OneExchange, Types, Exchange
    <2> QED
      BY <1>1, <1>2, <2>3, <2>4, PostOrderly
  <1>3. CASE exchange' = exchange /\ UNCHANGED <<stored, shown>>
    BY <1>1, <1>3 DEF Orderly, OneExchange, RowFollows, OneSession, Captured, LeftIsGone,
                      Active, Kept, Once, NotGone, Ended, Verified
  <1>4. CASE exchange' = exchange /\ stored = Nothing /\ clearAuthStorage
    BY <1>1, <1>4 DEF Orderly, OneExchange, RowFollows, OneSession, Captured, LeftIsGone,
                      Active, Kept, Once, NotGone, Ended, Verified, clearAuthStorage
  <1> QED
    BY <1>2, <1>3, <1>4 DEF Rejected

LEMMA ConfirmedOrderly ==
  ASSUME Types, OneRestorer, SameSession, Orderly, ~Crossing, Confirmed, ~Crossing'
  PROVE  Orderly'
  <1>1. OneExchange'
    BY DEF Types, OneRestorer, SameSession, Orderly, OneExchange, RowFollows, OneSession, Captured, LeftIsGone, Ended, Verified, Visiting, Crossing, Kept, Once, NotGone, Of, Active, Idle, page, Confirmed, applySession
  <1>2. RowFollows'
    BY DEF Types, OneRestorer, SameSession, Orderly, OneExchange, RowFollows, OneSession, Captured, LeftIsGone, Ended, Verified, Visiting, Crossing, Kept, Once, NotGone, Of, Active, Idle, page, Confirmed, applySession
  <1>3. OneSession'
    BY DEF Types, OneRestorer, SameSession, Orderly, OneExchange, RowFollows, OneSession, Captured, LeftIsGone, Ended, Verified, Visiting, Crossing, Kept, Once, NotGone, Of, Active, Idle, page, Confirmed, applySession
  <1>4. Captured'
    BY DEF Types, OneRestorer, SameSession, Orderly, OneExchange, RowFollows, OneSession, Captured, LeftIsGone, Ended, Verified, Visiting, Crossing, Kept, Once, NotGone, Of, Active, Idle, page, Confirmed, applySession
  <1>5. LeftIsGone'
    BY DEF Types, OneRestorer, SameSession, Orderly, OneExchange, RowFollows, OneSession, Captured, LeftIsGone, Ended, Verified, Visiting, Crossing, Kept, Once, NotGone, Of, Active, Idle, page, Confirmed, applySession
  <1> QED
    BY <1>1, <1>2, <1>3, <1>4, <1>5 DEF Orderly

LEMMA UnconfirmedOrderly ==
  ASSUME Types, OneRestorer, SameSession, Orderly, ~Crossing, Unconfirmed
  PROVE  Orderly'
  <1>1. restore # Idle /\ restore.step = "me" /\ restore \in Restore
    BY DEF Unconfirmed, Types
  <1>2. visit = Idle /\ stored # Nothing /\ restore.with = stored
    BY <1>1 DEF Orderly, Captured
  <1>3. \A e \in Exchanges : ~Active(e)
    BY <1>1 DEF Crossing, Of, OneRestorer, Orderly, OneExchange, Types, Exchange, Active
  <1>4. Post("restore", stored.refresh) /\ UNCHANGED <<now, row, stored, shown, visit, left>>
    BY <1>2 DEF Unconfirmed
  <1>5. restore' = [restore EXCEPT !.step = "refresh"] /\ restore' # Idle /\ restore'.step = "refresh"
    BY <1>1 DEF Unconfirmed, Restore, Idle
  <1> QED
    BY <1>1, <1>2, <1>3, <1>4, <1>5, PostOrderly

LEMMA ReloadOrderly ==
  ASSUME Types, OneRestorer, SameSession, Orderly, ~Crossing, Reload, ~Crossing'
  PROVE  Orderly'
  <1>1. UNCHANGED <<now, row, left>> /\ visit' = Idle
    BY DEF Reload
  <1>2. \A e \in Exchanges : ~Active(e)
    <2> SUFFICES ASSUME NEW e \in Exchanges, Active(e) PROVE FALSE
      OBVIOUS
    <2>1. exchange'[e] # Idle /\ exchange'[e].by = "nobody"
      BY DEF Reload, Types, Exchange, Active, Idle
    <2> QED
      BY <2>1 DEF Crossing, Of, Active
  <1>3. \A e \in Exchanges : ~Active(e)'
    BY <1>2 DEF Reload, Active
  <1>4. CASE stored = Nothing
    BY <1>1, <1>3, <1>4 DEF Reload, Orderly, OneExchange, RowFollows, OneSession, Captured, LeftIsGone, Ended
  <1>5. CASE stored # Nothing
    <2> DEFINE token == IF shown = Nothing THEN stored.access ELSE shown
               p == [access |-> token, refresh |-> stored.refresh]
    <2>1. stored' = p /\ shown' = token /\ restore' = [step |-> "me", with |-> p]
      BY <1>5 DEF Reload
    <2>2. token.session = stored.refresh.session
      BY <1>5 DEF Orderly, OneSession
    <2>3. stored' # Nothing /\ restore' # Idle
      <3>1. p \in Pair
        BY <1>5 DEF Types, Pair
      <3> QED
        BY <2>1, <3>1, MarkersDiffer DEF Pair, Token, Time, Idle
    <2>4. OneExchange' /\ RowFollows'
      BY <1>1, <1>2, <1>3, <1>5, <2>1 DEF Orderly, OneExchange, RowFollows, Kept, Once, NotGone
    <2>5. OneSession' /\ LeftIsGone'
      BY <1>1, <1>5, <2>1, <2>2 DEF Orderly, OneSession, LeftIsGone, Ended
    <2>6. Captured'
      BY <1>1, <2>1, <2>3 DEF Captured, Idle
    <2> QED
      BY <2>4, <2>5, <2>6 DEF Orderly
  <1> QED
    BY <1>4, <1>5

LEMMA LoginOrderly ==
  ASSUME Types, OneRestorer, SameSession, Orderly, ~Crossing, Login, ~Crossing'
  PROVE  Orderly'
  <1>1. OneExchange'
    BY DEF Types, OneRestorer, SameSession, Orderly, OneExchange, RowFollows, OneSession, Captured, LeftIsGone, Ended, Verified, Visiting, Crossing, Kept, Once, NotGone, Of, Active, Idle, page, Login, clearAuthStorage
  <1>2. RowFollows'
    BY DEF Types, OneRestorer, SameSession, Orderly, OneExchange, RowFollows, OneSession, Captured, LeftIsGone, Ended, Verified, Visiting, Crossing, Kept, Once, NotGone, Of, Active, Idle, page, Login, clearAuthStorage
  <1>3. OneSession'
    BY DEF Types, OneRestorer, SameSession, Orderly, OneExchange, RowFollows, OneSession, Captured, LeftIsGone, Ended, Verified, Visiting, Crossing, Kept, Once, NotGone, Of, Active, Idle, page, Login, clearAuthStorage
  <1>4. Captured'
    BY DEF Types, OneRestorer, SameSession, Orderly, OneExchange, RowFollows, OneSession, Captured, LeftIsGone, Ended, Verified, Visiting, Crossing, Kept, Once, NotGone, Of, Active, Idle, page, Login, clearAuthStorage
  <1>5. LeftIsGone'
    BY DEF Types, OneRestorer, SameSession, Orderly, OneExchange, RowFollows, OneSession, Captured, LeftIsGone, Ended, Verified, Visiting, Crossing, Kept, Once, NotGone, Of, Active, Idle, page, Login, clearAuthStorage
  <1> QED
    BY <1>1, <1>2, <1>3, <1>4, <1>5 DEF Orderly

LEMMA LogoutOrderly ==
  ASSUME Types, OneRestorer, SameSession, Orderly, ~Crossing, Logout, ~Crossing'
  PROVE  Orderly'
  <1>1. OneExchange'
    BY DEF Types, OneRestorer, SameSession, Orderly, OneExchange, RowFollows, OneSession, Captured, LeftIsGone, Ended, Verified, Visiting, Crossing, Kept, Once, NotGone, Of, Active, Idle, page, Logout
  <1>2. RowFollows'
    BY DEF Types, OneRestorer, SameSession, Orderly, OneExchange, RowFollows, OneSession, Captured, LeftIsGone, Ended, Verified, Visiting, Crossing, Kept, Once, NotGone, Of, Active, Idle, page, Logout
  <1>3. OneSession'
    BY DEF Types, OneRestorer, SameSession, Orderly, OneExchange, RowFollows, OneSession, Captured, LeftIsGone, Ended, Verified, Visiting, Crossing, Kept, Once, NotGone, Of, Active, Idle, page, Logout
  <1>4. Captured'
    BY DEF Types, OneRestorer, SameSession, Orderly, OneExchange, RowFollows, OneSession, Captured, LeftIsGone, Ended, Verified, Visiting, Crossing, Kept, Once, NotGone, Of, Active, Idle, page, Logout
  <1>5. LeftIsGone'
    BY DEF Types, OneRestorer, SameSession, Orderly, OneExchange, RowFollows, OneSession, Captured, LeftIsGone, Ended, Verified, Visiting, Crossing, Kept, Once, NotGone, Of, Active, Idle, page, Logout
  <1> QED
    BY <1>1, <1>2, <1>3, <1>4, <1>5 DEF Orderly

LEMMA CreateSessionOrderly ==
  ASSUME Types, OneRestorer, SameSession, Orderly, ~Crossing, NEW s \in Sessions, createSession(s), ~Crossing'
  PROVE  Orderly'
  <1>1. OneExchange'
    BY DEF Types, OneRestorer, SameSession, Orderly, OneExchange, RowFollows, OneSession, Captured, LeftIsGone, Ended, Verified, Visiting, Crossing, Kept, Once, NotGone, Of, Active, Idle, page, createSession, Signed
  <1>2. RowFollows'
    BY DEF Types, OneRestorer, SameSession, Orderly, OneExchange, RowFollows, OneSession, Captured, LeftIsGone, Ended, Verified, Visiting, Crossing, Kept, Once, NotGone, Of, Active, Idle, page, createSession, Signed
  <1>3. OneSession'
    BY DEF Types, OneRestorer, SameSession, Orderly, OneExchange, RowFollows, OneSession, Captured, LeftIsGone, Ended, Verified, Visiting, Crossing, Kept, Once, NotGone, Of, Active, Idle, page, createSession, Signed
  <1>4. Captured'
    BY DEF Types, OneRestorer, SameSession, Orderly, OneExchange, RowFollows, OneSession, Captured, LeftIsGone, Ended, Verified, Visiting, Crossing, Kept, Once, NotGone, Of, Active, Idle, page, createSession, Signed
  <1>5. LeftIsGone'
    BY DEF Types, OneRestorer, SameSession, Orderly, OneExchange, RowFollows, OneSession, Captured, LeftIsGone, Ended, Verified, Visiting, Crossing, Kept, Once, NotGone, Of, Active, Idle, page, createSession, Signed
  <1> QED
    BY <1>1, <1>2, <1>3, <1>4, <1>5 DEF Orderly

LEMMA SignSessionOrderly ==
  ASSUME Types, Orderly, ~Crossing, signSession
  PROVE  Orderly'
  <1> DEFINE t == visit.gives
  <1>1. /\ visit # Idle /\ visit.op = "login" /\ visit.step = "created" /\ visit \in Visit
        /\ t \in Token /\ Rotatable(t.session)
    BY DEF signSession, Visiting, Types, Visit
  <1>2. /\ row' = [row EXCEPT ![t.session] = [status |-> "live", at |-> t.at]]
        /\ visit' = [visit EXCEPT !.step = "answered"]
        /\ UNCHANGED <<now, stored, shown, exchange, restore, left>>
    BY DEF signSession
  <1>3. /\ stored = Nothing /\ t.session \notin left /\ restore = Idle
        /\ \A e \in Exchanges : ~Active(e)
    BY <1>1 DEF Orderly, Captured, OneExchange
  <1>4. OneExchange' /\ RowFollows' /\ OneSession'
    BY <1>2, <1>3 DEF OneExchange, RowFollows, OneSession, Active
  <1>5. Captured'
    <2>1. /\ visit'.op = "login" /\ visit'.gives = t /\ visit'.step = "answered"
          /\ row'[t.session] = [status |-> "live", at |-> t.at]
      BY <1>1, <1>2 DEF Visit, Token, Types
    <2> QED
      BY <1>2, <1>3, <2>1 DEF Captured, Once, Kept
  <1>6. LeftIsGone'
    BY <1>2, <1>3 DEF Orderly, LeftIsGone, Ended, Types
  <1> QED
    BY <1>4, <1>5, <1>6 DEF Orderly

LEMMA LoggedInOrderly ==
  ASSUME Types, OneRestorer, SameSession, Orderly, ~Crossing, LoggedIn, ~Crossing'
  PROVE  Orderly'
  <1>1. OneExchange'
    BY DEF Types, OneRestorer, SameSession, Orderly, OneExchange, RowFollows, OneSession, Captured, LeftIsGone, Ended, Verified, Visiting, Crossing, Kept, Once, NotGone, Of, Active, Idle, page, LoggedIn, Both
  <1>2. RowFollows'
    BY DEF Types, OneRestorer, SameSession, Orderly, OneExchange, RowFollows, OneSession, Captured, LeftIsGone, Ended, Verified, Visiting, Crossing, Kept, Once, NotGone, Of, Active, Idle, page, LoggedIn, Both
  <1>3. OneSession'
    BY DEF Types, OneRestorer, SameSession, Orderly, OneExchange, RowFollows, OneSession, Captured, LeftIsGone, Ended, Verified, Visiting, Crossing, Kept, Once, NotGone, Of, Active, Idle, page, LoggedIn, Both
  <1>4. Captured'
    BY DEF Types, OneRestorer, SameSession, Orderly, OneExchange, RowFollows, OneSession, Captured, LeftIsGone, Ended, Verified, Visiting, Crossing, Kept, Once, NotGone, Of, Active, Idle, page, LoggedIn, Both
  <1>5. LeftIsGone'
    BY DEF Types, OneRestorer, SameSession, Orderly, OneExchange, RowFollows, OneSession, Captured, LeftIsGone, Ended, Verified, Visiting, Crossing, Kept, Once, NotGone, Of, Active, Idle, page, LoggedIn, Both
  <1> QED
    BY <1>1, <1>2, <1>3, <1>4, <1>5 DEF Orderly

LEMMA LoginFailedOrderly ==
  ASSUME Types, OneRestorer, SameSession, Orderly, ~Crossing, LoginFailed, ~Crossing'
  PROVE  Orderly'
  <1>1. OneExchange'
    BY DEF Types, OneRestorer, SameSession, Orderly, OneExchange, RowFollows, OneSession, Captured, LeftIsGone, Ended, Verified, Visiting, Crossing, Kept, Once, NotGone, Of, Active, Idle, page, LoginFailed, clearAuthStorage
  <1>2. RowFollows'
    BY DEF Types, OneRestorer, SameSession, Orderly, OneExchange, RowFollows, OneSession, Captured, LeftIsGone, Ended, Verified, Visiting, Crossing, Kept, Once, NotGone, Of, Active, Idle, page, LoginFailed, clearAuthStorage
  <1>3. OneSession'
    BY DEF Types, OneRestorer, SameSession, Orderly, OneExchange, RowFollows, OneSession, Captured, LeftIsGone, Ended, Verified, Visiting, Crossing, Kept, Once, NotGone, Of, Active, Idle, page, LoginFailed, clearAuthStorage
  <1>4. Captured'
    BY DEF Types, OneRestorer, SameSession, Orderly, OneExchange, RowFollows, OneSession, Captured, LeftIsGone, Ended, Verified, Visiting, Crossing, Kept, Once, NotGone, Of, Active, Idle, page, LoginFailed, clearAuthStorage
  <1>5. LeftIsGone'
    BY DEF Types, OneRestorer, SameSession, Orderly, OneExchange, RowFollows, OneSession, Captured, LeftIsGone, Ended, Verified, Visiting, Crossing, Kept, Once, NotGone, Of, Active, Idle, page, LoginFailed, clearAuthStorage
  <1> QED
    BY <1>1, <1>2, <1>3, <1>4, <1>5 DEF Orderly

\* A deletion leaves a row as it was, or gone.
Deleted(s) == row'[s] = row[s] \/ (row'[s].status = "gone" /\ row[s].status # "none")

LEMMA DeleteRows ==
  ASSUME Types, NEW S, Delete(S)
  PROVE  \A s \in Sessions : Deleted(s)
  BY DEF Delete, Deleted, Types, Row

\* It disturbs nothing that is said of a row that is live.
LEMMA DeleteOrderly ==
  ASSUME Types, Orderly, \A s \in Sessions : Deleted(s),
         UNCHANGED <<now, stored, shown, exchange, restore, left>>
  PROVE  /\ OneExchange /\ visit' = visit => OneExchange'
         /\ RowFollows' /\ OneSession' /\ LeftIsGone'
         /\ visit' = visit => Captured'
  <1>1. ASSUME NEW t \in Token
        PROVE  t.session \in Sessions /\ Deleted(t.session)
    BY DEF Token
  <1>2. stored # Nothing => stored.refresh \in Token
    BY DEF Types, Pair
  <1>3. \A e \in Exchanges : Active(e) => exchange[e].gives \in Token /\ exchange[e].with \in Token
    BY DEF Types, Exchange, Active
  <1>4. RowFollows'
    <2>1. stored' # Nothing => Once(stored.refresh)'
      <3>1. stored' = stored
        OBVIOUS
      <3>2. ASSUME stored # Nothing PROVE Once(stored.refresh)'
        <4>1. stored.refresh.session \in Sessions /\ Once(stored.refresh)
          BY <1>2, <3>2 DEF Orderly, RowFollows, Token
        <4>2. Deleted(stored.refresh.session)
          BY <4>1
        <4> QED
          BY <3>1, <4>1, <4>2 DEF Once, Deleted
      <3> QED
        BY <3>1, <3>2
    <2>2. stored' # Nothing /\ (\A e \in Exchanges : ~Active(e)') => Kept(stored.refresh)'
      <3>1. stored' = stored /\ exchange' = exchange
        OBVIOUS
      <3>2. ASSUME stored # Nothing, \A e \in Exchanges : ~Active(e)
            PROVE  Kept(stored.refresh)'
        <4>1. Kept(stored.refresh) /\ Deleted(stored.refresh.session)
          BY <1>1, <1>2, <3>2 DEF Orderly, RowFollows
        <4> QED
          BY <3>1, <4>1 DEF Kept, NotGone, Deleted
      <3> QED
        BY <3>1, <3>2 DEF Active
    <2>3. ASSUME NEW e \in Exchanges, Active(e)'
          PROVE  /\ exchange[e].step \in {"sent", "checked", "refused"} => Kept(stored.refresh)'
                 /\ exchange[e].step = "answered" => Kept(exchange[e].gives)'
                 /\ exchange[e].step = "refused" =>
                      ~NotGone(exchange[e].with.session)' \/ ~Verified(exchange[e].with)'
      <3>1. Active(e) /\ stored # Nothing
        BY <2>3 DEF Active, Orderly, OneExchange
      <3>2. /\ Deleted(stored.refresh.session) /\ Deleted(exchange[e].gives.session)
            /\ Deleted(exchange[e].with.session)
        BY <3>1, <1>1, <1>2, <1>3
      <3>3. stored' = stored /\ exchange' = exchange /\ now' = now
        OBVIOUS
      <3> QED
        BY <3>1, <3>2, <3>3 DEF Orderly, RowFollows, Kept, NotGone, Verified, Deleted
    <2> QED
      BY <2>1, <2>2, <2>3 DEF RowFollows
  <1>5. LeftIsGone'
    BY DEF Orderly, LeftIsGone, Ended, Deleted, Types
  <1>6. ASSUME visit' = visit PROVE Captured'
    <2>1. visit # Idle => visit \in Visit
      BY DEF Types
    <2>2. CASE visit = Idle
      BY <1>6, <2>2 DEF Orderly, Captured
    <2>3. CASE visit # Idle /\ visit.op = "login" /\ visit.step = "sent"
      BY <1>6, <2>3 DEF Orderly, Captured
    <2>4. CASE visit # Idle /\ visit.op = "login" /\ visit.step # "sent"
      <3>1. visit.gives \in Token /\ visit.gives.session \in Sessions
        BY <2>1, <2>4 DEF Visit, Token
      <3>2. row'[visit.gives.session].status # "none"
        BY <2>4, <3>1 DEF Orderly, Captured, Deleted
      <3> QED
        <4>1. visit.step = "answered" => Once(visit.gives)' /\ Kept(visit.gives)'
          <5>1. Deleted(visit.gives.session)
            BY <3>1
          <5> QED
            BY <1>6, <2>4, <5>1 DEF Orderly, Captured, Kept, Once, NotGone, Deleted
        <4> QED
          BY <1>6, <2>4, <3>2, <4>1 DEF Orderly, Captured
    <2>5. CASE visit # Idle /\ visit.op = "logout"
      <3>1. visit.with.session \in Sessions
        BY <2>1, <2>5 DEF Visit, Token
      <3> QED
        BY <1>6, <2>5, <3>1 DEF Orderly, Captured, Ended, Deleted
    <2> QED
      BY <2>1, <2>2, <2>3, <2>4, <2>5 DEF Visit
  <1> QED
    BY <1>4, <1>5, <1>6 DEF Orderly, OneExchange, OneSession, Active

LEMMA ServeLogoutOrderly ==
  ASSUME Types, Orderly, serveLogout, ~Crossing'
  PROVE  Orderly'
  <1> DEFINE t == visit.with
  <1>1. /\ visit # Idle /\ visit.op = "logout" /\ visit.step = "sent" /\ visit \in Visit
        /\ t \in Token
        /\ UNCHANGED <<now, stored, shown, exchange, restore, left>>
    BY DEF serveLogout, Visiting, Types, Visit
  <1>2. ASSUME visit' = [visit EXCEPT !.step = "failed"] PROVE FALSE
    <2>1. visit' # Idle /\ visit'.op = "logout" /\ visit'.step = "failed"
      BY <1>1, <1>2 DEF Visit, Idle
    <2> QED
      BY <2>1 DEF Crossing, Visiting
  <1>3. /\ visit' = [visit EXCEPT !.step = "answered"]
        /\ IF Verified(t) THEN Delete(IF Usable(t) THEN {t.session} ELSE {}) ELSE row' = row
    BY <1>2 DEF serveLogout, deleteUserSessionByToken
  <1>4. /\ visit' # Idle /\ visit'.op = "logout" /\ visit'.step = "answered" /\ visit'.with = t
    BY <1>1, <1>3 DEF Visit, Idle
  <1>5. \A s \in Sessions : Deleted(s)
    BY <1>3, DeleteRows DEF Deleted
  <1>6. /\ stored # Nothing /\ t = stored.refresh /\ Once(t) /\ Kept(t) /\ restore = Idle
        /\ \A e \in Exchanges : ~Active(e)
    BY <1>1 DEF Orderly, Captured, OneExchange, RowFollows
  <1>7. Ended(t.session)'
    <2>1. CASE Verified(t)
      <3>1. row'[t.session].status = "gone"
        BY <1>1, <1>3, <1>6, <2>1 DEF Delete, Usable, Once, Kept, NotGone, Token, Types, Row
      <3> QED
        BY <1>4, <3>1 DEF Ended
    <2>2. CASE ~Verified(t)
      <3>1. row' = row /\ now' = now
        BY <1>1, <1>3, <2>2
      <3>2. now \in Int /\ t.at \in Int /\ RefreshLife \in Int
        BY <1>1, TimesAreNumbers DEF Types, Token, Time
      <3>3. now >= t.at + RefreshLife
        BY <2>2, <3>2 DEF Verified
      <3> QED
        BY <1>4, <1>6, <3>1, <3>3 DEF Ended, Once, Kept, NotGone
    <2> QED
      BY <2>1, <2>2
  <1>8. Captured'
    BY <1>1, <1>4, <1>6, <1>7 DEF Captured
  <1>9. OneExchange'
    BY <1>1, <1>6 DEF OneExchange, Active
  <1> QED
    BY <1>1, <1>5, <1>8, <1>9, DeleteOrderly DEF Orderly

LEMMA LoggedOutOrderly ==
  ASSUME Types, OneRestorer, SameSession, Orderly, ~Crossing, LoggedOut, ~Crossing'
  PROVE  Orderly'
  <1>1. OneExchange'
    BY DEF Types, OneRestorer, SameSession, Orderly, OneExchange, RowFollows, OneSession, Captured, LeftIsGone, Ended, Verified, Visiting, Crossing, Kept, Once, NotGone, Of, Active, Idle, page, LoggedOut, clearAuthStorage
  <1>2. RowFollows'
    BY DEF Types, OneRestorer, SameSession, Orderly, OneExchange, RowFollows, OneSession, Captured, LeftIsGone, Ended, Verified, Visiting, Crossing, Kept, Once, NotGone, Of, Active, Idle, page, LoggedOut, clearAuthStorage
  <1>3. OneSession'
    BY DEF Types, OneRestorer, SameSession, Orderly, OneExchange, RowFollows, OneSession, Captured, LeftIsGone, Ended, Verified, Visiting, Crossing, Kept, Once, NotGone, Of, Active, Idle, page, LoggedOut, clearAuthStorage
  <1>4. Captured'
    BY DEF Types, OneRestorer, SameSession, Orderly, OneExchange, RowFollows, OneSession, Captured, LeftIsGone, Ended, Verified, Visiting, Crossing, Kept, Once, NotGone, Of, Active, Idle, page, LoggedOut, clearAuthStorage
  <1>5. LeftIsGone'
    BY DEF Types, OneRestorer, SameSession, Orderly, OneExchange, RowFollows, OneSession, Captured, LeftIsGone, Ended, Verified, Visiting, Crossing, Kept, Once, NotGone, Of, Active, Idle, page, LoggedOut, clearAuthStorage
  <1> QED
    BY <1>1, <1>2, <1>3, <1>4, <1>5 DEF Orderly

LEMMA RevokeSessionOrderly ==
  ASSUME Types, Orderly, NEW s \in Sessions, revokeSession(s)
  PROVE  Orderly'
  <1>1. \A t \in Sessions : Deleted(t)
    BY DeleteRows DEF revokeSession
  <1>2. UNCHANGED <<now, stored, shown, exchange, restore, left, visit>>
    BY DEF revokeSession, page
  <1> QED
    BY <1>1, <1>2, DeleteOrderly DEF Orderly

LEMMA RevokeOtherSessionsOrderly ==
  ASSUME Types, Orderly, NEW c \in Sessions \cup {Elsewhere}, revokeOtherSessions(c)
  PROVE  Orderly'
  <1>1. \A t \in Sessions : Deleted(t)
    BY DeleteRows DEF revokeOtherSessions
  <1>2. UNCHANGED <<now, stored, shown, exchange, restore, left, visit>>
    BY DEF revokeOtherSessions, page
  <1> QED
    BY <1>1, <1>2, DeleteOrderly DEF Orderly

\* Time only takes from the tokens.
LEMMA TickOrderly ==
  ASSUME Types, Orderly, Tick
  PROVE  Orderly'
  <1>1. UNCHANGED <<row, stored, shown, call, restore, visit, exchange, left>>
    BY DEF Tick, page
  <1>2. /\ now \in Int /\ now' = now + 1 /\ RefreshLife \in Int
    BY TimesAreNumbers DEF Tick, Types, Time
  <1>3. ASSUME NEW t \in Token, ~Verified(t) PROVE ~Verified(t)'
    <2>1. t.at \in Int
      BY DEF Token, Time
    <2> QED
      BY <1>2, <1>3, <2>1 DEF Verified
  <1>4. ASSUME NEW s \in Sessions, Ended(s) PROVE Ended(s)'
    <2>1. row[s].at \in Int
      BY DEF Types, Row, Time
    <2> QED
      BY <1>1, <1>2, <1>4, <2>1 DEF Ended
  <1>5. OneExchange' /\ OneSession'
    BY <1>1 DEF Orderly, OneExchange, OneSession, Active
  <1>6. RowFollows'
    <2>1. \A e \in Exchanges : Active(e) => exchange[e].with \in Token
      BY DEF Types, Exchange, Active
    <2> QED
      BY <1>1, <1>3, <2>1 DEF Orderly, RowFollows, Active, Kept, Once, NotGone
  <1>7. Captured'
    <2>1. visit # Idle /\ visit.op = "logout" => visit.with.session \in Sessions
      BY DEF Types, Visit, Token
    <2> QED
      BY <1>1, <1>4, <2>1 DEF Orderly, Captured, Kept, Once, NotGone
  <1>8. LeftIsGone'
    BY <1>1, <1>4 DEF Orderly, LeftIsGone, Types
  <1> QED
    BY <1>5, <1>6, <1>7, <1>8 DEF Orderly

LEMMA OrderlyStep ==
  ASSUME Types, OneRestorer, SameSession, Orderly, ~Crossing, Step, ~Crossing'
  PROVE  Orderly'
  <1>1. ASSUME NEW e \in Exchanges, findSession(e) PROVE Orderly'
    BY <1>1, FindSessionOrderly
  <1>2. ASSUME NEW e \in Exchanges, rotateUserSession(e) PROVE Orderly'
    BY <1>2, RotateUserSessionOrderly
  <1>3. ASSUME NEW e \in Exchanges, Refreshed(e) PROVE Orderly'
    BY <1>3, RefreshedOrderly
  <1>4. ASSUME NEW e \in Exchanges, RefreshRefused(e) PROVE Orderly'
    BY <1>4, RefreshRefusedOrderly
  <1>5. ASSUME NEW e \in Exchanges, Restored(e) PROVE Orderly'
    BY <1>5, RestoredOrderly
  <1>6. ASSUME NEW e \in Exchanges, RestoreRefused(e) PROVE Orderly'
    BY <1>6, RestoreRefusedOrderly
  <1>7. ASSUME NEW e \in Exchanges, Forgotten(e) PROVE Orderly'
    BY <1>7, ForgottenOrderly
  <1>8. ASSUME NEW e \in Exchanges, RefreshLost(e) PROVE Orderly'
    BY <1>8, RefreshLostOrderly
  <1>9. ASSUME NEW e \in Exchanges, RestoreLost(e) PROVE Orderly'
    BY <1>9, RestoreLostOrderly
  <1>10. ASSUME NEW k \in Calls, Send(k) PROVE Orderly'
    BY <1>10, SendOrderly
  <1>11. ASSUME NEW k \in Calls, Answered(k) PROVE Orderly'
    BY <1>11, AnsweredOrderly
  <1>12. ASSUME NEW k \in Calls, Rejected(k) PROVE Orderly'
    BY <1>12, RejectedOrderly
  <1>13. ASSUME Confirmed PROVE Orderly'
    BY <1>13, ConfirmedOrderly
  <1>14. ASSUME Unconfirmed PROVE Orderly'
    BY <1>14, UnconfirmedOrderly
  <1>15. ASSUME Reload PROVE Orderly'
    BY <1>15, ReloadOrderly
  <1>16. ASSUME Login PROVE Orderly'
    BY <1>16, LoginOrderly
  <1>17. ASSUME Logout PROVE Orderly'
    BY <1>17, LogoutOrderly
  <1>18. ASSUME NEW s \in Sessions, createSession(s) PROVE Orderly'
    BY <1>18, CreateSessionOrderly
  <1>19. ASSUME signSession PROVE Orderly'
    BY <1>19, SignSessionOrderly
  <1>20. ASSUME LoggedIn PROVE Orderly'
    BY <1>20, LoggedInOrderly
  <1>21. ASSUME LoginFailed PROVE Orderly'
    BY <1>21, LoginFailedOrderly
  <1>22. ASSUME serveLogout PROVE Orderly'
    BY <1>22, ServeLogoutOrderly
  <1>23. ASSUME LoggedOut PROVE Orderly'
    BY <1>23, LoggedOutOrderly
  <1>24. ASSUME NEW s \in Sessions, revokeSession(s) PROVE Orderly'
    BY <1>24, RevokeSessionOrderly
  <1>25. ASSUME NEW c \in Sessions \cup {Elsewhere}, revokeOtherSessions(c) PROVE Orderly'
    BY <1>25, RevokeOtherSessionsOrderly
  <1>26. ASSUME Tick PROVE Orderly'
    BY <1>26, TickOrderly
  <1> QED
    BY StepCases, <1>1, <1>2, <1>3, <1>4, <1>5, <1>6, <1>7, <1>8, <1>9, <1>10, <1>11, <1>12, <1>13, <1>14, <1>15, <1>16, <1>17, <1>18, <1>19, <1>20, <1>21, <1>22, <1>23, <1>24, <1>25, <1>26

-----------------------------------------------------------------------------
(* Calls that wait. *)

LEMMA WaitersStep ==
  ASSUME Types, WaitersAreHeard, Step
  PROVE  WaitersAreHeard'
  <1>1. ASSUME NEW e \in Exchanges, findSession(e) PROVE WaitersAreHeard'
    BY <1>1 DEF WaitersAreHeard, Types, Call, Exchange, Idle, Of, Active, page, findSession
  <1>2. ASSUME NEW e \in Exchanges, rotateUserSession(e) PROVE WaitersAreHeard'
    BY <1>2 DEF WaitersAreHeard, Types, Call, Exchange, Idle, Of, Active, page, rotateUserSession
  <1>3. ASSUME NEW e \in Exchanges, Refreshed(e) PROVE WaitersAreHeard'
    BY <1>3 DEF WaitersAreHeard, Types, Call, Exchange, Idle, Of, Active, page, Refreshed, At, Woken
  <1>4. ASSUME NEW e \in Exchanges, RefreshRefused(e) PROVE WaitersAreHeard'
    BY <1>4 DEF WaitersAreHeard, Types, Call, Exchange, Idle, Of, Active, page, RefreshRefused, At, GiveUp, Woken
  <1>5. ASSUME NEW e \in Exchanges, Restored(e) PROVE WaitersAreHeard'
    BY <1>5 DEF WaitersAreHeard, Types, Call, Exchange, Idle, Of, Active, page, Restored, At
  <1>6. ASSUME NEW e \in Exchanges, RestoreRefused(e) PROVE WaitersAreHeard'
    BY <1>6 DEF WaitersAreHeard, Types, Call, Exchange, Idle, Of, Active, page, RestoreRefused, At
  <1>7. ASSUME NEW e \in Exchanges, Forgotten(e) PROVE WaitersAreHeard'
    BY <1>7 DEF WaitersAreHeard, Types, Call, Exchange, Idle, Of, Active, page, Forgotten
  <1>8. ASSUME NEW e \in Exchanges, RefreshLost(e) PROVE WaitersAreHeard'
    BY <1>8 DEF WaitersAreHeard, Types, Call, Exchange, Idle, Of, Active, page, RefreshLost, Abandoned, GiveUp, Woken
  <1>9. ASSUME NEW e \in Exchanges, RestoreLost(e) PROVE WaitersAreHeard'
    BY <1>9 DEF WaitersAreHeard, Types, Call, Exchange, Idle, Of, Active, page, RestoreLost, Abandoned
  <1>10. ASSUME NEW k \in Calls, Send(k) PROVE WaitersAreHeard'
    BY <1>10 DEF WaitersAreHeard, Types, Call, Exchange, Idle, Of, Active, page, Send
  <1>11. ASSUME NEW k \in Calls, Answered(k) PROVE WaitersAreHeard'
    BY <1>11 DEF WaitersAreHeard, Types, Call, Exchange, Idle, Of, Active, page, Answered
  <1>12. ASSUME NEW k \in Calls, Rejected(k) PROVE WaitersAreHeard'
    BY <1>12 DEF WaitersAreHeard, Types, Call, Exchange, Idle, Of, Active, page, Rejected, Post, InFlight
  <1>13. ASSUME Confirmed PROVE WaitersAreHeard'
    BY <1>13 DEF WaitersAreHeard, Types, Call, Exchange, Idle, Of, Active, page, Confirmed
  <1>14. ASSUME Unconfirmed PROVE WaitersAreHeard'
    BY <1>14 DEF WaitersAreHeard, Types, Call, Exchange, Idle, Of, Active, page, Unconfirmed, Post
  <1>15. ASSUME Reload PROVE WaitersAreHeard'
    BY <1>15 DEF WaitersAreHeard, Types, Call, Exchange, Idle, Of, Active, page, Reload
  <1>16. ASSUME Login PROVE WaitersAreHeard'
    BY <1>16 DEF WaitersAreHeard, Types, Call, Exchange, Idle, Of, Active, page, Login
  <1>17. ASSUME Logout PROVE WaitersAreHeard'
    BY <1>17 DEF WaitersAreHeard, Types, Call, Exchange, Idle, Of, Active, page, Logout
  <1>18. ASSUME NEW s \in Sessions, createSession(s) PROVE WaitersAreHeard'
    BY <1>18 DEF WaitersAreHeard, Types, Call, Exchange, Idle, Of, Active, page, createSession
  <1>19. ASSUME signSession PROVE WaitersAreHeard'
    BY <1>19 DEF WaitersAreHeard, Types, Call, Exchange, Idle, Of, Active, page, signSession
  <1>20. ASSUME LoggedIn PROVE WaitersAreHeard'
    BY <1>20 DEF WaitersAreHeard, Types, Call, Exchange, Idle, Of, Active, page, LoggedIn
  <1>21. ASSUME LoginFailed PROVE WaitersAreHeard'
    BY <1>21 DEF WaitersAreHeard, Types, Call, Exchange, Idle, Of, Active, page, LoginFailed
  <1>22. ASSUME serveLogout PROVE WaitersAreHeard'
    BY <1>22 DEF WaitersAreHeard, Types, Call, Exchange, Idle, Of, Active, page, serveLogout
  <1>23. ASSUME LoggedOut PROVE WaitersAreHeard'
    BY <1>23 DEF WaitersAreHeard, Types, Call, Exchange, Idle, Of, Active, page, LoggedOut
  <1>24. ASSUME NEW s \in Sessions, revokeSession(s) PROVE WaitersAreHeard'
    BY <1>24 DEF WaitersAreHeard, Types, Call, Exchange, Idle, Of, Active, page, revokeSession
  <1>25. ASSUME NEW c \in Sessions \cup {Elsewhere}, revokeOtherSessions(c) PROVE WaitersAreHeard'
    BY <1>25 DEF WaitersAreHeard, Types, Call, Exchange, Idle, Of, Active, page, revokeOtherSessions
  <1>26. ASSUME Tick PROVE WaitersAreHeard'
    BY <1>26 DEF WaitersAreHeard, Types, Call, Exchange, Idle, Of, Active, page, Tick
  <1> QED
    BY StepCases, <1>1, <1>2, <1>3, <1>4, <1>5, <1>6, <1>7, <1>8, <1>9, <1>10, <1>11, <1>12, <1>13, <1>14, <1>15, <1>16, <1>17, <1>18, <1>19, <1>20, <1>21, <1>22, <1>23, <1>24, <1>25, <1>26

-----------------------------------------------------------------------------
(* The invariant. *)

SessionInv ==
  /\ Types /\ crossed \in BOOLEAN
  /\ OneRestorer /\ SameSession
  /\ ~crossed => ~Crossing /\ Orderly
  /\ WaitersAreHeard

LEMMA InitSessionInv == Init => SessionInv
  <1> SUFFICES ASSUME Init PROVE SessionInv
    OBVIOUS
  <1> USE TimesAreNumbers
  <1>1. Types /\ crossed \in BOOLEAN
    <2>1. 0 \in Time
      BY DEF Time
    <2> QED
      BY <2>1 DEF Init, Types, Row, Idle
  <1>2. \A e \in Exchanges : ~Active(e)
    BY DEF Init, Active
  <1>3. OneRestorer /\ SameSession /\ ~Crossing
    BY <1>2 DEF OneRestorer, SameSession, Crossing, Of, Visiting, Init
  <1>4. Orderly
    BY <1>2 DEF Orderly, OneExchange, RowFollows, OneSession, Captured, LeftIsGone, Init
  <1>5. WaitersAreHeard
    BY DEF WaitersAreHeard, Init
  <1> QED
    BY <1>1, <1>3, <1>4, <1>5 DEF SessionInv

LEMMA StepSessionInv == SessionInv /\ [Next]_vars => SessionInv'
  <1> SUFFICES ASSUME SessionInv, [Next]_vars PROVE SessionInv'
    OBVIOUS
  <1>1. CASE Next
    <2>1. Step /\ crossed' = (crossed \/ Crossing')
      BY <1>1 DEF Next
    <2>2. Types' /\ OneRestorer' /\ SameSession' /\ WaitersAreHeard'
      BY <2>1, TypeStep, ExchangeStep, WaitersStep DEF SessionInv
    <2>3. ~crossed' => ~Crossing' /\ Orderly'
      BY <2>1, OrderlyStep DEF SessionInv
    <2>4. crossed' \in BOOLEAN
      BY <2>1 DEF SessionInv, Crossing
    <2> QED
      BY <2>2, <2>3, <2>4 DEF SessionInv
  <1>2. CASE UNCHANGED vars
    BY <1>2 DEF vars, page, SessionInv, Types, OneRestorer, SameSession, Crossing, Orderly,
      OneExchange, RowFollows, OneSession, Captured, LeftIsGone, WaitersAreHeard, Of, Active,
      Kept, Once, NotGone, Ended, Verified, Visiting
  <1> QED
    BY <1>1, <1>2

LEMMA Invariance == Spec => []SessionInv
  BY InitSessionInv, StepSessionInv, PTL DEF Spec

-----------------------------------------------------------------------------
(* The theorems. *)

\* Every variable has its type.
THEOREM TypeCorrect == Spec => []TypeOK
  <1>1. SessionInv => TypeOK
    BY DEF SessionInv, Types, TypeOK
  <1> QED
    BY <1>1, Invariance, PTL

\* A tab whose activities never overlapped, and which is at rest, holds the
\* refresh token of its session's row, however many calls were refused at once.
THEOREM TabsKeepTheirSession == Spec => []KeepsItsSession
  <1>1. SessionInv => KeepsItsSession
    <2> SUFFICES ASSUME SessionInv, ~crossed, Quiet, stored # Nothing
                 PROVE  row[stored.refresh.session].status = "gone" \/ Usable(stored.refresh)
      BY DEF KeepsItsSession
    <2>1. Once(stored.refresh) /\ Kept(stored.refresh)
      BY DEF SessionInv, Orderly, RowFollows, Quiet
    <2> QED
      BY <2>1 DEF Once, Kept, NotGone, Usable
  <1> QED
    BY <1>1, Invariance, PTL

\* An answered logout leaves the tab no token and no refresh token of use.
THEOREM LogoutIsFinal == Spec => []LogoutEnds
  <1>1. SessionInv => LogoutEnds
    BY DEF SessionInv, Orderly, LeftIsGone, OneSession, LogoutEnds
  <1> QED
    BY <1>1, Invariance, PTL

\* No call waits for a refresh that has ended.
THEOREM NobodyWaitsInVain == Spec => []WaitersAreHeard
  <1>1. SessionInv => WaitersAreHeard
    BY DEF SessionInv
  <1> QED
    BY <1>1, Invariance, PTL

\* A pair of tokens is not Nothing.
LEMMA PairIsSomething ==
  ASSUME NEW p \in Pair
  PROVE  p # Nothing
  BY MarkersDiffer DEF Pair, Token, Time

\* When a step that crosses nothing takes the tokens away.
Told ==
  stored # Nothing /\ stored' = Nothing =>
    \/ visit # Idle \/ visit' # Idle
    \/ row[stored.refresh.session].status = "gone"
    \/ ~Verified(stored.refresh)

LEMMA ToldStep ==
  ASSUME Types, OneRestorer, Orderly, Step, ~Crossing'
  PROVE  Told
  <1>1. ASSUME NEW e \in Exchanges, findSession(e) PROVE Told
    BY <1>1 DEF findSession, Told
  <1>2. ASSUME NEW e \in Exchanges, rotateUserSession(e) PROVE Told
    BY <1>2 DEF rotateUserSession, Told
  <1>3. ASSUME NEW e \in Exchanges, Refreshed(e) PROVE Told
    <2>1. exchange[e].gives \in Token
      BY <1>3 DEF Refreshed, At, Of, Active, Types, Exchange
    <2>2. Both(exchange[e].gives) \in Pair
      BY <2>1 DEF Both, Pair
    <2> QED
      BY <1>3, <2>2, PairIsSomething DEF Refreshed, writeTokens, Told
  <1>4. ASSUME NEW e \in Exchanges, RefreshRefused(e) PROVE Told
    <2>1. Active(e) /\ exchange[e].step = "refused"
      BY <1>4 DEF RefreshRefused, At, Of
    <2> QED
      BY <2>1 DEF Told, Orderly, OneExchange, RowFollows, Once, NotGone
  <1>5. ASSUME NEW e \in Exchanges, Restored(e) PROVE Told
    <2>1. exchange[e].gives \in Token
      BY <1>5 DEF Restored, At, Of, Active, Types, Exchange
    <2>2. Both(exchange[e].gives) \in Pair
      BY <2>1 DEF Both, Pair
    <2> QED
      BY <1>5, <2>2, PairIsSomething DEF Restored, applySession, Told
  <1>6. ASSUME NEW e \in Exchanges, RestoreRefused(e) PROVE Told
    <2>1. restore # Idle
      BY <1>6 DEF RestoreRefused, At, OneRestorer
    <2> QED
      BY <1>6, <2>1 DEF RestoreRefused, applySession, Told, Orderly, Captured
  <1>7. ASSUME NEW e \in Exchanges, Forgotten(e) PROVE Told
    BY <1>7 DEF Forgotten, Told
  <1>8. ASSUME NEW e \in Exchanges, RefreshLost(e) PROVE Told
    BY <1>8, RefreshLostOrderly
  <1>9. ASSUME NEW e \in Exchanges, RestoreLost(e) PROVE Told
    BY <1>9, RestoreLostOrderly
  <1>10. ASSUME NEW k \in Calls, Send(k) PROVE Told
    BY <1>10 DEF Send, Told
  <1>11. ASSUME NEW k \in Calls, Answered(k) PROVE Told
    BY <1>11 DEF Answered, Told
  <1>12. ASSUME NEW k \in Calls, Rejected(k) PROVE Told
    BY <1>12 DEF Rejected, Told
  <1>13. ASSUME Confirmed PROVE Told
    BY <1>13 DEF Confirmed, applySession, Told, Orderly, Captured
  <1>14. ASSUME Unconfirmed PROVE Told
    BY <1>14 DEF Unconfirmed, Told
  <1>15. ASSUME Reload PROVE Told
    <2> SUFFICES ASSUME stored # Nothing PROVE stored' # Nothing
      BY DEF Told
    <2> DEFINE token == IF shown = Nothing THEN stored.access ELSE shown
               p == [access |-> token, refresh |-> stored.refresh]
    <2>1. stored' = p
      BY <1>15 DEF Reload
    <2>2. p \in Pair
      BY DEF Types, Pair
    <2> HIDE DEF p
    <2> QED
      BY <2>1, <2>2, PairIsSomething
  <1>16. ASSUME Login PROVE Told
    BY <1>16 DEF Login, Told, Idle
  <1>17. ASSUME Logout PROVE Told
    BY <1>17 DEF Logout, Told
  <1>18. ASSUME NEW s \in Sessions, createSession(s) PROVE Told
    BY <1>18 DEF createSession, Told
  <1>19. ASSUME signSession PROVE Told
    BY <1>19 DEF signSession, Told
  <1>20. ASSUME LoggedIn PROVE Told
    BY <1>20 DEF LoggedIn, Visiting, Told
  <1>21. ASSUME LoginFailed PROVE Told
    BY <1>21 DEF LoginFailed, Visiting, Told
  <1>22. ASSUME serveLogout PROVE Told
    BY <1>22 DEF serveLogout, Told
  <1>23. ASSUME LoggedOut PROVE Told
    BY <1>23 DEF LoggedOut, Told
  <1>24. ASSUME NEW s \in Sessions, revokeSession(s) PROVE Told
    BY <1>24 DEF revokeSession, Told
  <1>25. ASSUME NEW c \in Sessions \cup {Elsewhere}, revokeOtherSessions(c) PROVE Told
    BY <1>25 DEF revokeOtherSessions, Told
  <1>26. ASSUME Tick PROVE Told
    BY <1>26 DEF Tick, Told
  <1> QED
    BY StepCases, <1>1, <1>2, <1>3, <1>4, <1>5, <1>6, <1>7, <1>8, <1>9, <1>10, <1>11, <1>12, <1>13, <1>14, <1>15, <1>16, <1>17, <1>18, <1>19, <1>20, <1>21, <1>22, <1>23, <1>24, <1>25, <1>26

\* As long as nothing overlaps, tokens are only taken from the tab by logout,
\* by a login, or once their session is gone or the refresh token has run out.
THEOREM TokensEndAsTold == Spec => EndsOnlyAsTold
  <1>1. SessionInv /\ [Next]_vars =>
          [~crossed' /\ stored # Nothing /\ stored' = Nothing =>
             \/ visit # Idle \/ visit' # Idle
             \/ row[stored.refresh.session].status = "gone"
             \/ ~Verified(stored.refresh)]_vars
    <2> SUFFICES ASSUME SessionInv, [Next]_vars, ~crossed', stored # Nothing, stored' = Nothing
                 PROVE  \/ visit # Idle \/ visit' # Idle
                        \/ row[stored.refresh.session].status = "gone"
                        \/ ~Verified(stored.refresh)
      OBVIOUS
    <2>1. Step /\ ~crossed /\ ~Crossing'
      BY DEF Next, vars
    <2>2. Types /\ OneRestorer /\ Orderly
      BY <2>1 DEF SessionInv
    <2>3. Told
      BY <2>1, <2>2, ToldStep
    <2> QED
      BY <2>3 DEF Told
  <1> QED
    BY <1>1, Invariance, PTL DEF Spec, EndsOnlyAsTold

\* What a step leaves of a session that is gone.
Barren ==
  \A s \in Sessions : row[s].status = "gone" =>
    /\ row'[s].status = "gone"
    /\ \A e \in Exchanges : Active(e) /\ exchange'[e] # Idle =>
         ~(/\ exchange[e].step = "checked" /\ exchange'[e].step = "answered"
           /\ exchange[e].with.session = s)

LEMMA BarrenStep ==
  ASSUME Types, SameSession, Step
  PROVE  Barren
  <1>1. ASSUME NEW e \in Exchanges, findSession(e) PROVE Barren
    BY <1>1 DEF Barren, Types, Exchange, Row, Active, Idle, page, findSession
  <1>2. ASSUME NEW e \in Exchanges, rotateUserSession(e) PROVE Barren
    BY <1>2 DEF Barren, Types, Exchange, Row, Active, Idle, page, rotateUserSession, Rotatable, SameSession
  <1>3. ASSUME NEW e \in Exchanges, Refreshed(e) PROVE Barren
    BY <1>3 DEF Barren, Types, Exchange, Row, Active, Idle, page, Refreshed
  <1>4. ASSUME NEW e \in Exchanges, RefreshRefused(e) PROVE Barren
    BY <1>4 DEF Barren, Types, Exchange, Row, Active, Idle, page, GiveUp, RefreshRefused
  <1>5. ASSUME NEW e \in Exchanges, Restored(e) PROVE Barren
    BY <1>5 DEF Barren, Types, Exchange, Row, Active, Idle, page, Restored
  <1>6. ASSUME NEW e \in Exchanges, RestoreRefused(e) PROVE Barren
    BY <1>6 DEF Barren, Types, Exchange, Row, Active, Idle, page, RestoreRefused
  <1>7. ASSUME NEW e \in Exchanges, Forgotten(e) PROVE Barren
    BY <1>7 DEF Barren, Types, Exchange, Row, Active, Idle, page, Forgotten
  <1>8. ASSUME NEW e \in Exchanges, RefreshLost(e) PROVE Barren
    BY <1>8 DEF Barren, Types, Exchange, Row, Active, Idle, page, GiveUp, RefreshLost, Abandoned
  <1>9. ASSUME NEW e \in Exchanges, RestoreLost(e) PROVE Barren
    BY <1>9 DEF Barren, Types, Exchange, Row, Active, Idle, page, RestoreLost, Abandoned
  <1>10. ASSUME NEW k \in Calls, Send(k) PROVE Barren
    BY <1>10 DEF Barren, Types, Exchange, Row, Active, Idle, page, Send
  <1>11. ASSUME NEW k \in Calls, Answered(k) PROVE Barren
    BY <1>11 DEF Barren, Types, Exchange, Row, Active, Idle, page, Answered
  <1>12. ASSUME NEW k \in Calls, Rejected(k) PROVE Barren
    BY <1>12 DEF Barren, Types, Exchange, Row, Active, Idle, page, Rejected, Post
  <1>13. ASSUME Confirmed PROVE Barren
    BY <1>13 DEF Barren, Types, Exchange, Row, Active, Idle, page, Confirmed
  <1>14. ASSUME Unconfirmed PROVE Barren
    BY <1>14 DEF Barren, Types, Exchange, Row, Active, Idle, page, Unconfirmed, Post
  <1>15. ASSUME Reload PROVE Barren
    BY <1>15 DEF Barren, Types, Exchange, Row, Active, Idle, page, Reload
  <1>16. ASSUME Login PROVE Barren
    BY <1>16 DEF Barren, Types, Exchange, Row, Active, Idle, page, Login
  <1>17. ASSUME Logout PROVE Barren
    BY <1>17 DEF Barren, Types, Exchange, Row, Active, Idle, page, Logout
  <1>18. ASSUME NEW s \in Sessions, createSession(s) PROVE Barren
    BY <1>18 DEF Barren, Types, Exchange, Row, Active, Idle, page, createSession
  <1>19. ASSUME signSession PROVE Barren
    BY <1>19 DEF Barren, Types, Exchange, Row, Active, Idle, page, signSession, Rotatable
  <1>20. ASSUME LoggedIn PROVE Barren
    BY <1>20 DEF Barren, Types, Exchange, Row, Active, Idle, page, LoggedIn
  <1>21. ASSUME LoginFailed PROVE Barren
    BY <1>21 DEF Barren, Types, Exchange, Row, Active, Idle, page, LoginFailed
  <1>22. ASSUME serveLogout PROVE Barren
    BY <1>22 DEF Barren, Types, Exchange, Row, Active, Idle, page, serveLogout, deleteUserSessionByToken, Delete
  <1>23. ASSUME LoggedOut PROVE Barren
    BY <1>23 DEF Barren, Types, Exchange, Row, Active, Idle, page, LoggedOut
  <1>24. ASSUME NEW s \in Sessions, revokeSession(s) PROVE Barren
    BY <1>24 DEF Barren, Types, Exchange, Row, Active, Idle, page, revokeSession, Delete
  <1>25. ASSUME NEW c \in Sessions \cup {Elsewhere}, revokeOtherSessions(c) PROVE Barren
    BY <1>25 DEF Barren, Types, Exchange, Row, Active, Idle, page, revokeOtherSessions, Delete
  <1>26. ASSUME Tick PROVE Barren
    BY <1>26 DEF Barren, Types, Exchange, Row, Active, Idle, page, Tick
  <1> QED
    BY StepCases, <1>1, <1>2, <1>3, <1>4, <1>5, <1>6, <1>7, <1>8, <1>9, <1>10, <1>11, <1>12, <1>13, <1>14, <1>15, <1>16, <1>17, <1>18, <1>19, <1>20, <1>21, <1>22, <1>23, <1>24, <1>25, <1>26

\* A session that is gone stays gone, and no refresh of it that was under way
\* is answered with a token.
THEOREM GoneIsBarren == Spec => GoneYieldsNothing
  <1>1. SessionInv /\ [Next]_vars =>
          [\A s \in Sessions : row[s].status = "gone" =>
             /\ row'[s].status = "gone"
             /\ \A e \in Exchanges : Active(e) /\ exchange'[e] # Idle =>
                  ~(/\ exchange[e].step = "checked" /\ exchange'[e].step = "answered"
                    /\ exchange[e].with.session = s)]_vars
    BY BarrenStep DEF SessionInv, Next, Barren
  <1> QED
    BY <1>1, Invariance, PTL DEF Spec, GoneYieldsNothing
=============================================================================
