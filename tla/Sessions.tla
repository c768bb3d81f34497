------------------------------ MODULE Sessions ------------------------------
(***************************************************************************)
(* Sessions of one account: the refresh-token families of internal/        *)
(* authusers/service.go, the account updates that revoke them (admin.go),  *)
(* the cookies they leave in a browser (http.go) and the tabs that refresh *)
(* them (web/src/api/client.ts, web/src/auth/auth.tsx).                    *)
(*                                                                         *)
(* PostgreSQL: a refresh holds the row of the token it was given; an       *)
(* UPDATE decides on the rows that its snapshot sees, waits for the ones   *)
(* that are locked and never meets a row inserted meanwhile; an INSERT     *)
(* into user_sessions waits for the holder of the users row (FOR UPDATE    *)
(* against the foreign key's FOR KEY SHARE).                               *)
(***************************************************************************)
EXTENDS Naturals, Sequences, FiniteSets

CONSTANTS
  Tabs,
  Browsers,
  browser,       \* [Tabs -> Browsers]: tabs of one browser share its cookies
  MaxSessions,   \* bound: rows of user_sessions
  MaxUpdates,    \* bound: account updates and password changes
  MaxLosses      \* bound: calls that fail on the way

ASSUME SessionsAssumption ==
  /\ browser \in [Tabs -> Browsers]
  /\ MaxSessions \in Nat /\ MaxUpdates \in Nat /\ MaxLosses \in Nat

VARIABLES
  user,      \* the users row; its era counts disables, resets and new passwords
  sessions,  \* the user_sessions rows in the order of their insertion
  jar,       \* the two cookies of each browser
  phase,     \* what each tab shows: signed in, signed out, loading
  request,   \* the authentication request each tab has under way
  admin,     \* the administrator's update under way
  updates, losses  \* counted by the bounds

vars == <<user, sessions, jar, phase, request, admin, updates, losses>>

Ids == 1 .. MaxSessions
NoToken == 0

\* used: "fresh" within RefreshReuseGrace of the rotation, "stale" after it.
\* revoked: by reuse detection, or told to by a logout or an account update.
\* The last two fields record the era whose credential the family was opened
\* with, and whether the login that opened it ended in a later one.
Session == [family : Ids, used : {"no", "fresh", "stale"}, revoked : {"no", "reuse", "told"},
            era : 0 .. MaxUpdates, late : BOOLEAN]

Refreshing == {"retry", "keepalive", "boot"}
Telling == {"logout", "password"}

Request == [op : Refreshing \cup Telling \cup {"login", "none"},
            at : {"none", "waiting", "sent", "verified", "locked", "revoking", "answered"},
            token : {NoToken} \cup Ids,
            seen : SUBSET Ids,
            era : 0 .. MaxUpdates,
            cookies : {"kept", "set", "cleared"}]

None == [op |-> "none", at |-> "none", token |-> NoToken, seen |-> {}, era |-> 0, cookies |-> "kept"]

Cleared == [access |-> FALSE, refresh |-> NoToken]

TypeOK ==
  /\ user \in [status : {"active", "disabled"}, era : 0 .. MaxUpdates]
  /\ sessions \in Seq(Session) /\ Len(sessions) <= MaxSessions
  /\ jar \in [Browsers -> [access : BOOLEAN, refresh : {NoToken} \cup Ids]]
  /\ phase \in [Tabs -> {"in", "out", "loading"}]
  /\ request \in [Tabs -> Request]
  /\ admin \in [op : {"none", "disable", "reset"}, seen : SUBSET Ids]
  /\ updates \in 0 .. MaxUpdates /\ losses \in 0 .. MaxLosses

Init ==
  /\ user = [status |-> "active", era |-> 0]
  /\ sessions = <<>>
  /\ jar = [b \in Browsers |-> Cleared]
  /\ phase = [t \in Tabs |-> "out"]
  /\ request = [t \in Tabs |-> None]
  /\ admin = [op |-> "none", seen |-> {}]
  /\ updates = 0 /\ losses = 0

-----------------------------------------------------------------------------
(* Rows, locks and cookies.                                                *)

Live(s) == sessions[s].used = "no" /\ sessions[s].revoked = "no"

Unrevoked == {s \in DOMAIN sessions : sessions[s].revoked = "no"}

Kin(s) == {r \in DOMAIN sessions : sessions[r].family = sessions[s].family}

\* A bug: the row is read without FOR UPDATE.
Holds_Not(t, s) == FALSE

\* A refresh keeps the row of its token locked until its transaction ends.
Holds(t, s) ==
  /\ request[t].op \in Refreshing /\ request[t].at \in {"locked", "revoking"}
  /\ request[t].token = s

RowFree(s) == \A t \in Tabs : ~Holds(t, s)

\* A bug: the account is read without FOR UPDATE.
UserFree_Always == TRUE

Changing(t) == request[t].op = "password" /\ request[t].at = "revoking"

\* Account updates and password changes hold the users row.
UserFree ==
  /\ admin.op = "none"
  /\ \A t \in Tabs : ~Changing(t)

\* RequireAuth: the access token of the cookie is good and the account active.
Authorized(b) == jar[b].access /\ user.status = "active"

Revoked(seen, why) ==
  [s \in DOMAIN sessions |->
     IF s \in seen /\ sessions[s].revoked = "no" THEN [sessions[s] EXCEPT !.revoked = why] ELSE sessions[s]]

Answer(t, cookies, token) ==
  request' = [request EXCEPT ![t] =
    [None EXCEPT !.op = request[t].op, !.at = "answered", !.cookies = cookies, !.token = token]]

Insert(rows, family, era, late) ==
  Append(rows, [family |-> family, used |-> "no", revoked |-> "no", era |-> era, late |-> late])

-----------------------------------------------------------------------------
(* Login.                                                                  *)

\* The row is read and the password and the status are checked.
Login(t) ==
  /\ phase[t] = "out" /\ request[t] = None
  /\ user.status = "active"
  /\ request' = [request EXCEPT ![t] = [None EXCEPT !.op = "login", !.at = "verified", !.era = user.era]]
  /\ UNCHANGED <<user, sessions, jar, phase, admin, updates, losses>>

\* The session is inserted by a statement of its own, whatever happened since.
LoginInsert(t) ==
  /\ request[t].op = "login" /\ request[t].at = "verified"
  /\ UserFree
  /\ Len(sessions) < MaxSessions
  /\ sessions' = Insert(sessions, Len(sessions) + 1, request[t].era, request[t].era # user.era)
  /\ Answer(t, "set", Len(sessions) + 1)
  /\ UNCHANGED <<user, jar, phase, admin, updates, losses>>

-----------------------------------------------------------------------------
(* Tabs that refresh.                                                      *)

Send(t, op) ==
  request' = [request EXCEPT ![t] = [None EXCEPT !.op = op, !.at = "sent", !.token = jar[browser[t]].refresh]]

Wait(t, op) == request' = [request EXCEPT ![t] = [None EXCEPT !.op = op, !.at = "waiting"]]

\* authFetch: a call was answered with 401.
Call(t) ==
  /\ phase[t] = "in" /\ request[t] = None
  /\ ~Authorized(browser[t])
  /\ Wait(t, "retry")
  /\ UNCHANGED <<user, sessions, jar, phase, admin, updates, losses>>

\* keepSessionFresh, every ten minutes.
KeepAlive(t) ==
  /\ phase[t] = "in" /\ request[t] = None
  /\ Wait(t, "keepalive")
  /\ UNCHANGED <<user, sessions, jar, phase, admin, updates, losses>>

\* The Web Lock of a browser.
Serialised(t) ==
  \A u \in Tabs \ {t} : browser[u] = browser[t] =>
    request[u].op \notin {"retry", "keepalive"} \/ request[u].at \in {"none", "waiting"}

\* doRefresh, once this tab has the lock: a retry whose access cookie works again
\* is done, without a refresh cookie the answer is 401, else the token is sent.
DoRefresh(t) ==
  /\ request[t].at = "waiting"
  /\ Serialised(t)
  /\ LET b == browser[t] IN
       \/ /\ request[t].op = "retry" /\ Authorized(b)
          /\ request' = [request EXCEPT ![t] = None]
          /\ UNCHANGED phase
       \/ /\ ~(request[t].op = "retry" /\ Authorized(b))
          /\ jar[b].refresh = NoToken
          /\ phase' = [phase EXCEPT ![t] = IF request[t].op = "retry" THEN "out" ELSE @]
          /\ request' = [request EXCEPT ![t] = None]
       \/ /\ ~(request[t].op = "retry" /\ Authorized(b))
          /\ jar[b].refresh # NoToken
          /\ Send(t, request[t].op)
          /\ UNCHANGED phase
  /\ UNCHANGED <<user, sessions, jar, admin, updates, losses>>

\* AuthProvider's bootstrap in a tab that is opened or reloaded: /me, and a
\* refresh that takes no lock, for authFetch leaves the auth endpoints alone.
Reload(t) ==
  /\ request[t] = None
  /\ LET b == browser[t] IN
       \/ Authorized(b) /\ phase' = [phase EXCEPT ![t] = "in"] /\ UNCHANGED request
       \/ ~Authorized(b) /\ jar[b].refresh = NoToken
          /\ phase' = [phase EXCEPT ![t] = "out"] /\ UNCHANGED request
       \/ ~Authorized(b) /\ jar[b].refresh # NoToken
          /\ phase' = [phase EXCEPT ![t] = "loading"] /\ Send(t, "boot")
  /\ UNCHANGED <<user, sessions, jar, admin, updates, losses>>

-----------------------------------------------------------------------------
(* Refresh on the server.                                                  *)

\* A bug: every used token is a reused one.
Raced_Never(s) == FALSE

\* A token that was rotated a moment ago: another tab was faster.
Raced(s) == sessions[s].used = "fresh" /\ sessions[s].revoked = "no"

\* A bug: only the rotation counts.
Reused_IfUsed(s) == sessions[s].used # "no"

Reused(s) == sessions[s].used # "no" \/ sessions[s].revoked # "no"

Arrives(t) ==
  /\ request[t].op \in Refreshing /\ request[t].at = "sent"
  /\ RowFree(request[t].token)

\* The row is locked and judged; the account is read, not locked.
Refresh(t) ==
  /\ Arrives(t)
  /\ LET s == request[t].token IN
       \/ Raced(s) /\ Answer(t, "kept", NoToken)
       \/ /\ ~Raced(s) /\ Reused(s)
          /\ request' = [request EXCEPT ![t].at = "revoking", ![t].seen = Kin(s) \cap Unrevoked]
       \/ /\ ~Raced(s) /\ ~Reused(s) /\ user.status # "active"
          /\ Answer(t, "cleared", NoToken)
       \/ /\ ~Raced(s) /\ ~Reused(s) /\ user.status = "active"
          /\ request' = [request EXCEPT ![t].at = "locked"]
  /\ UNCHANGED <<user, sessions, jar, phase, admin, updates, losses>>

\* The old token is stamped and its successor inserted.
Rotate(t) ==
  /\ request[t].at = "locked"
  /\ UserFree
  /\ Len(sessions) < MaxSessions
  /\ LET s == request[t].token IN
       sessions' = Insert([sessions EXCEPT ![s].used = "fresh"],
                          sessions[s].family, sessions[s].era, sessions[s].late)
  /\ Answer(t, "set", Len(sessions) + 1)
  /\ UNCHANGED <<user, jar, phase, admin, updates, losses>>

\* Nobody else has a row locked that the UPDATE is after.
Unlocked(seen, t) == \A u \in Tabs \ {t} : \A s \in seen : ~Holds(u, s)

\* Reuse detected: the family is revoked, and the cookies are cleared.
RevokeReused(t) ==
  /\ request[t].op \in Refreshing /\ request[t].at = "revoking"
  /\ Unlocked(request[t].seen, t)
  /\ sessions' = Revoked(request[t].seen, "reuse")
  /\ Answer(t, "cleared", NoToken)
  /\ UNCHANGED <<user, jar, phase, admin, updates, losses>>

\* RefreshReuseGrace ends.  It outlasts the network: neither a refresh with the
\* rotated token nor the answer with its successor is still on its way.
GraceEnds ==
  \E s \in DOMAIN sessions :
    /\ sessions[s].used = "fresh"
    /\ \A t \in Tabs :
         /\ ~(request[t].at = "sent" /\ request[t].token = s)
         /\ request[t].at = "answered" /\ jar[browser[t]].refresh = s => request[t].token \notin Kin(s)
    /\ sessions' = [sessions EXCEPT ![s].used = "stale"]
    /\ UNCHANGED <<user, jar, phase, request, admin, updates, losses>>

-----------------------------------------------------------------------------
(* Logout and password change.                                             *)

\* The UPDATE of a logout sees the family of the cookie's token.
Logout(t) ==
  /\ phase[t] = "in" /\ request[t] = None
  /\ LET s == jar[browser[t]].refresh IN
       request' = [request EXCEPT ![t] =
         [None EXCEPT !.op = "logout", !.at = "revoking",
                      !.seen = IF s = NoToken THEN {} ELSE Kin(s) \cap Unrevoked]]
  /\ UNCHANGED <<user, sessions, jar, phase, admin, updates, losses>>

LogoutEnd(t) ==
  /\ request[t].op = "logout" /\ request[t].at = "revoking"
  /\ Unlocked(request[t].seen, t)
  /\ sessions' = Revoked(request[t].seen, "told")
  /\ Answer(t, "cleared", NoToken)
  /\ UNCHANGED <<user, jar, phase, admin, updates, losses>>

\* The users row is locked, the UPDATE of the sessions sees all of them.
ChangePassword(t) ==
  /\ phase[t] = "in" /\ request[t] = None
  /\ Authorized(browser[t])
  /\ UserFree
  /\ updates < MaxUpdates /\ updates' = updates + 1
  /\ request' = [request EXCEPT ![t] =
       [None EXCEPT !.op = "password", !.at = "revoking", !.seen = Unrevoked]]
  /\ UNCHANGED <<user, sessions, jar, phase, admin, losses>>

ChangePasswordEnd(t) ==
  /\ request[t].op = "password" /\ request[t].at = "revoking"
  /\ Unlocked(request[t].seen, t)
  /\ sessions' = Revoked(request[t].seen, "told")
  /\ user' = [user EXCEPT !.era = @ + 1]
  /\ Answer(t, "cleared", NoToken)
  /\ UNCHANGED <<jar, phase, admin, updates, losses>>

-----------------------------------------------------------------------------
(* The administrator (UpdateUser).                                         *)

Disable ==
  /\ UserFree /\ user.status = "active"
  /\ updates < MaxUpdates /\ updates' = updates + 1
  /\ admin' = [op |-> "disable", seen |-> Unrevoked]
  /\ UNCHANGED <<user, sessions, jar, phase, request, losses>>

ResetPassword ==
  /\ UserFree
  /\ updates < MaxUpdates /\ updates' = updates + 1
  /\ admin' = [op |-> "reset", seen |-> Unrevoked]
  /\ UNCHANGED <<user, sessions, jar, phase, request, losses>>

UpdateUserEnd ==
  /\ admin.op # "none"
  /\ \A s \in admin.seen : RowFree(s)
  /\ sessions' = Revoked(admin.seen, "told")
  /\ user' = [status |-> IF admin.op = "disable" THEN "disabled" ELSE user.status,
              era |-> user.era + 1]
  /\ admin' = [op |-> "none", seen |-> {}]
  /\ UNCHANGED <<jar, phase, request, updates, losses>>

Enable ==
  /\ UserFree /\ user.status = "disabled"
  /\ user' = [user EXCEPT !.status = "active"]
  /\ UNCHANGED <<sessions, jar, phase, request, admin, updates, losses>>

\* A refresh that holds its row and wants to insert, an account update that holds
\* the account and wants that row: PostgreSQL fails one of them.
Deadlocked(t) ==
  /\ request[t].at = "locked"
  /\ \/ request[t].token \in admin.seen
     \/ \E u \in Tabs : Changing(u) /\ request[t].token \in request[u].seen

BreakDeadlock ==
  /\ \E t \in Tabs : Deadlocked(t)
  /\ admin' = [op |-> "none", seen |-> {}]
  /\ UNCHANGED <<user, sessions, jar, phase, request, updates, losses>>

\* A transaction fails and is rolled back: the answer is an error, which leaves
\* the cookies alone.
Fails(t) ==
  /\ request[t].at \in {"verified", "locked", "revoking"}
  /\ Answer(t, "kept", NoToken)
  /\ UNCHANGED <<user, sessions, jar, phase, admin, updates, losses>>

-----------------------------------------------------------------------------
(* Answers.                                                                *)

\* What a tab shows once its request is over, with these cookies in the jar: a
\* retry shows whether the call it repeats is let in.
PhaseAfter(t, cookies, kept) ==
  CASE request[t].op = "retry" -> IF cookies.access /\ user.status = "active" THEN "in" ELSE "out"
    [] request[t].op \in {"boot", "login"} -> IF kept THEN "out" ELSE "in"
    [] request[t].op \in {"logout"} -> "out"
    [] request[t].op = "password" -> IF kept THEN "in" ELSE "out"
    [] OTHER -> phase[t]

\* Set-Cookie reaches the jar.
Receive(t) ==
  /\ request[t].at = "answered"
  /\ LET b == browser[t]
         cookies == CASE request[t].cookies = "set" -> [access |-> TRUE, refresh |-> request[t].token]
                      [] request[t].cookies = "cleared" -> Cleared
                      [] OTHER -> jar[b]
         kept == request[t].cookies # (IF request[t].op = "password" THEN "cleared" ELSE "set")
     IN /\ jar' = [jar EXCEPT ![b] = cookies]
        /\ phase' = [phase EXCEPT ![t] = PhaseAfter(t, cookies, kept)]
  /\ request' = [request EXCEPT ![t] = None]
  /\ UNCHANGED <<user, sessions, admin, updates, losses>>

\* The call or its answer is lost on the way: the jar stays as it is.
Lose(t) ==
  /\ request[t].at \in {"sent", "answered"}
  /\ losses < MaxLosses /\ losses' = losses + 1
  /\ phase' = [phase EXCEPT ![t] = PhaseAfter(t, jar[browser[t]], TRUE)]
  /\ request' = [request EXCEPT ![t] = None]
  /\ UNCHANGED <<user, sessions, jar, admin, updates>>

\* AccessTokenTTL passes.
AccessExpires ==
  \E b \in Browsers :
    /\ jar[b].access
    /\ jar' = [jar EXCEPT ![b].access = FALSE]
    /\ UNCHANGED <<user, sessions, phase, request, admin, updates, losses>>

-----------------------------------------------------------------------------

Tab(t) ==
  \/ Login(t) \/ Call(t) \/ KeepAlive(t) \/ DoRefresh(t) \/ Reload(t)
  \/ Logout(t) \/ ChangePassword(t) \/ Receive(t) \/ Lose(t)

Serve(t) ==
  \/ LoginInsert(t) \/ Refresh(t) \/ Rotate(t) \/ RevokeReused(t)
  \/ LogoutEnd(t) \/ ChangePasswordEnd(t) \/ Fails(t)

Next ==
  \/ \E t \in Tabs : Tab(t) \/ Serve(t)
  \/ Disable \/ ResetPassword \/ UpdateUserEnd \/ Enable
  \/ BreakDeadlock
  \/ GraceEnds \/ AccessExpires

Spec == Init /\ [][Next]_vars

-----------------------------------------------------------------------------

\* A family has at most one token that still opens anything, however many tabs
\* present the same one at once: a rotation replaces, it never forks (Refresh's
\* lock of the row it judges).
OneLiveToken ==
  \A r, s \in DOMAIN sessions :
    Live(r) /\ Live(s) /\ sessions[r].family = sessions[s].family => r = s

\* While every call gets its answer and nobody ends the session on purpose, it
\* survives its own tabs: the cookie holds the live token, or the answer that
\* brings it is on its way.  A tab that was late (ErrSessionRaced) neither kills
\* the family nor clears the cookies of the tab that won.
SessionKept ==
  losses = 0 =>
    \A b \in Browsers :
      LET s == jar[b].refresh IN
      s # NoToken /\ (\A r \in Kin(s) : sessions[r].revoked # "told") =>
        \/ Live(s)
        \/ \E t \in Tabs : /\ browser[t] = b
                           /\ request[t].at = "answered" /\ request[t].cookies = "set"
                           /\ request[t].token \in Kin(s) /\ Live(request[t].token)

\* Once an account was disabled or its password reset or changed, no session that
\* an older credential opened is left, but those of a login that had verified it
\* before and inserted after: a refresh under way meets the revocation in the
\* lock of its own row, or the revocation meets it in the account's.
RevocationIsComplete ==
  \A s \in DOMAIN sessions : Live(s) => sessions[s].era = user.era \/ sessions[s].late

\* A family without a live token stays dead: a rotation under way keeps its row
\* from being revoked, and no later refresh, late answer or replay revives one.
DeadStaysDead ==
  [][\A s \in DOMAIN sessions :
       (\A r \in Kin(s) : ~Live(r)) => (\A r \in Kin(s)' : ~Live(r)')]_vars

-----------------------------------------------------------------------------
(* The abstract specification.                                             *)

LiveOf(f) == {s \in DOMAIN sessions : sessions[s].family = f /\ Live(s)}

Opened == {sessions[s].family : s \in DOMAIN sessions}

LiveTokens == [f \in Opened |-> LiveOf(f)]

Contract == INSTANCE Families WITH
  Tokens <- Ids,
  live <- LiveTokens,
  issued <- DOMAIN sessions,
  status <- user.status,
  era <- user.era

\* Seen from outside, an account has families of one living token each, which a
\* step opens, rotates or ends, one at a time, or ends all together: though a
\* rotation and a revocation take several steps, lock rows in opposite orders and
\* may be aborted, no token outlives an account update that had begun before it,
\* and no refresh succeeds in a disabled account.
ImplementsFamilies == Contract!Spec

-----------------------------------------------------------------------------
(* The invariant the proofs rest on.                                       *)

\* Account updates exclude one another, and each is counted before it ends.
OneUpdate ==
  /\ \A t \in Tabs : Changing(t) => admin.op = "none"
  /\ \A t, u \in Tabs : Changing(t) /\ Changing(u) => t = u
  /\ user.era <= updates
  /\ ~UserFree => user.era < updates

\* Nothing is inserted behind the back of an account update.
UpdateSeesAll ==
  /\ admin.op # "none" => Unrevoked \subseteq admin.seen
  /\ \A t \in Tabs : Changing(t) => Unrevoked \subseteq request[t].seen

\* The token a request carries, at every stage of it.
TokenExists(q) ==
  /\ q.token = NoToken \/ q.token \in DOMAIN sessions
  /\ q.at = "waiting" => q.op \in Refreshing
  /\ q.at \in {"sent", "locked"} => q.op \in Refreshing /\ q.token # NoToken
  /\ q.at = "revoking" /\ q.op \in Refreshing => q.token # NoToken /\ q.seen \subseteq Kin(q.token)
  /\ q.at \notin {"sent", "locked", "revoking"} => (q.token # NoToken <=> q.at = "answered" /\ q.cookies = "set")

TokensExist ==
  /\ \A b \in Browsers : jar[b].refresh = NoToken \/ jar[b].refresh \in DOMAIN sessions
  /\ \A t \in Tabs : TokenExists(request[t])

\* A family is named by its first token.
FamiliesAreOlder == \A s \in DOMAIN sessions : sessions[s].family <= s

\* One refresh at a time has a row, and the row it will rotate stays live.
OneHolder ==
  /\ \A t, u \in Tabs : \A s \in DOMAIN sessions : Holds(t, s) /\ Holds(u, s) => t = u
  /\ \A t \in Tabs : request[t].at = "locked" => Live(request[t].token)

\* What a logout revokes is of one family.
LogoutsEndOne ==
  \A t \in Tabs : request[t].op = "logout" =>
    \A r, s \in request[t].seen : r \in DOMAIN sessions /\ sessions[r].family = sessions[s].family

\* A disabled account has no refresh that was let in.
LockedIsActive == \A t \in Tabs : request[t].at = "locked" => user.status = "active"

\* A token reaches the tabs of one browser only, and nobody before its answer.
OneKeeper ==
  /\ \A b, c \in Browsers : jar[b].refresh = jar[c].refresh /\ jar[b].refresh # NoToken => b = c
  /\ \A t \in Tabs : \A b \in Browsers :
       request[t].token = jar[b].refresh /\ jar[b].refresh # NoToken => browser[t] = b
  /\ \A t \in Tabs : request[t].at = "answered" /\ request[t].cookies = "set" =>
       /\ \A b \in Browsers : jar[b].refresh # request[t].token
       /\ \A u \in Tabs \ {t} : request[u].token # request[t].token

Told(s) == \E r \in Kin(s) : sessions[r].revoked = "told"

Presentable(s) == sessions[s].used # "stale" /\ sessions[s].revoked = "no"

\* Without a lost answer, reuse is only ever detected in a family that was ended.
NoFalseReuse ==
  losses = 0 =>
    /\ \A s \in DOMAIN sessions : sessions[s].revoked = "reuse" => Told(s)
    /\ \A b \in Browsers :
         jar[b].refresh # NoToken => Told(jar[b].refresh) \/ Presentable(jar[b].refresh)
    /\ \A t \in Tabs :
         LET q == request[t] IN
         /\ q.at = "sent" => Told(q.token) \/ Presentable(q.token)
         /\ q.at = "revoking" /\ q.op \in Refreshing => Told(q.token)
         /\ q.at = "answered" /\ q.cookies = "set" => Told(q.token) \/ Live(q.token)
=============================================================================
