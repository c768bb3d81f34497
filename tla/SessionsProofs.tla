--------------------------- MODULE SessionsProofs ---------------------------
(***************************************************************************)
(* Theorems about the sessions of one account, for any number of tabs and  *)
(* browsers.                                                               *)
(***************************************************************************)
EXTENDS Sessions, SequenceTheorems, TLAPS

(* Rows.                                                                   *)

\* A function over 1 .. n is a sequence of length n.
LEMMA AsSequence ==
  ASSUME NEW S, NEW n \in Nat, NEW f \in [1 .. n -> S]
  PROVE  f \in Seq(S) /\ Len(f) = n
  BY SeqDef, LenProperties

\* The row that an INSERT adds is the last one, the others stay.
LEMMA Inserted ==
  ASSUME NEW rows \in Seq(Session), NEW f \in Ids, NEW e \in 0 .. MaxUpdates, NEW l \in BOOLEAN
  PROVE  /\ Insert(rows, f, e, l) \in Seq(Session)
         /\ Len(Insert(rows, f, e, l)) = Len(rows) + 1
         /\ DOMAIN rows = 1 .. Len(rows)
         /\ DOMAIN Insert(rows, f, e, l) = 1 .. (Len(rows) + 1)
         /\ \A s \in DOMAIN rows : Insert(rows, f, e, l)[s] = rows[s]
         /\ Insert(rows, f, e, l)[Len(rows) + 1]
              = [family |-> f, used |-> "no", revoked |-> "no", era |-> e, late |-> l]
  <1> DEFINE row == [family |-> f, used |-> "no", revoked |-> "no", era |-> e, late |-> l]
  <1>1. row \in Session
    BY DEF Session
  <1>2. Insert(rows, f, e, l) = Append(rows, row)
    BY DEF Insert
  <1> HIDE DEF row
  <1>3. QED
    BY <1>1, <1>2, AppendProperties, LenProperties DEF row

\* A rotation stamps its row.
LEMMA Stamped ==
  ASSUME sessions \in Seq(Session), NEW s \in DOMAIN sessions, NEW u \in {"no", "fresh", "stale"}
  PROVE  LET rows == [sessions EXCEPT ![s].used = u] IN
         /\ rows \in Seq(Session) /\ Len(rows) = Len(sessions)
         /\ DOMAIN rows = DOMAIN sessions
         /\ \A r \in DOMAIN sessions \ {s} : rows[r] = sessions[r]
         /\ rows[s] = [sessions[s] EXCEPT !.used = u]
  <1> DEFINE row == [sessions[s] EXCEPT !.used = u]
  <1>0. DOMAIN sessions = 1 .. Len(sessions)
    BY LenProperties
  <1>1. sessions[s] \in Session
    BY ElementOfSeq, <1>0
  <1>2. row \in Session
    BY <1>1 DEF Session
  <1>3. [sessions EXCEPT ![s].used = u] = [sessions EXCEPT ![s] = row]
    OBVIOUS
  <1> HIDE DEF row
  <1>4. QED
    BY <1>0, <1>2, <1>3, ExceptSeq DEF row

\* An UPDATE revokes what it saw and nobody revoked before.
LEMMA RevokedRows ==
  ASSUME sessions \in Seq(Session), NEW seen, NEW why \in {"reuse", "told"}
  PROVE  /\ Revoked(seen, why) \in Seq(Session) /\ Len(Revoked(seen, why)) = Len(sessions)
         /\ DOMAIN Revoked(seen, why) = DOMAIN sessions
         /\ \A s \in DOMAIN sessions :
              Revoked(seen, why)[s] = IF s \in seen /\ sessions[s].revoked = "no"
                                      THEN [sessions[s] EXCEPT !.revoked = why] ELSE sessions[s]
  <1>0. DOMAIN sessions = 1 .. Len(sessions) /\ Len(sessions) \in Nat
    BY LenProperties
  <1>1. \A s \in DOMAIN sessions : sessions[s] \in Session
    BY ElementOfSeq, <1>0
  <1>2. \A s \in DOMAIN sessions : [sessions[s] EXCEPT !.revoked = why] \in Session
    BY <1>1 DEF Session
  <1>3. Revoked(seen, why) \in [1 .. Len(sessions) -> Session]
    BY <1>0, <1>1, <1>2 DEF Revoked
  <1>4. QED
    BY <1>0, <1>3, AsSequence DEF Revoked

-----------------------------------------------------------------------------
(* Types.                                                                  *)

LEMMA NoneType == None \in Request
  BY SessionsAssumption DEF None, Request

LEMMA Becomes ==
  ASSUME TypeOK, NEW t \in Tabs, NEW q \in Request, request' = [request EXCEPT ![t] = q]
  PROVE  request' \in [Tabs -> Request]
  BY DEF TypeOK

LEMMA AnswerType ==
  ASSUME TypeOK, NEW t \in Tabs, NEW cookies \in {"kept", "set", "cleared"},
         NEW token \in {NoToken} \cup Ids, Answer(t, cookies, token)
  PROVE  request' \in [Tabs -> Request]
  <1> DEFINE q == [None EXCEPT !.op = request[t].op, !.at = "answered", !.cookies = cookies, !.token = token]
  <1>1. request[t].op \in Refreshing \cup Telling \cup {"login", "none"}
    BY DEF TypeOK, Request
  <1>2. q \in Request
    BY <1>1, NoneType DEF Request
  <1>3. request' = [request EXCEPT ![t] = q]
    BY DEF Answer
  <1> HIDE DEF q
  <1>4. QED
    BY <1>2, <1>3, Becomes

\* The rows a statement can see.
LEMMA RowIds ==
  ASSUME TypeOK
  PROVE  /\ DOMAIN sessions = 1 .. Len(sessions) /\ DOMAIN sessions \subseteq Ids
         /\ \A s \in DOMAIN sessions : sessions[s] \in Session /\ Kin(s) \in SUBSET Ids
         /\ Unrevoked \in SUBSET Ids
         /\ Len(sessions) \in Nat
  <1>1. DOMAIN sessions = 1 .. Len(sessions) /\ Len(sessions) \in Nat /\ Len(sessions) <= MaxSessions
    BY LenProperties DEF TypeOK
  <1>2. DOMAIN sessions \subseteq Ids
    BY <1>1, SessionsAssumption DEF Ids
  <1>3. \A s \in DOMAIN sessions : sessions[s] \in Session
    BY <1>1, ElementOfSeq DEF TypeOK
  <1>4. QED
    BY <1>1, <1>2, <1>3 DEF Kin, Unrevoked

\* No step breaks the types; an update under way has been counted.
LEMMA TypeStep ==
  ASSUME TypeOK, OneUpdate, TokensExist, [Next]_vars
  PROVE  TypeOK'
  <1> USE SessionsAssumption
  <1>0. CASE UNCHANGED vars
    BY <1>0 DEF TypeOK, vars
  <1>q. \A t \in Tabs : request[t] \in Request
    BY DEF TypeOK
  <1>1. ASSUME NEW t \in Tabs, Login(t) PROVE TypeOK'
    <2>1. [None EXCEPT !.op = "login", !.at = "verified", !.era = user.era] \in Request
      BY NoneType DEF Request, TypeOK
    <2>2. QED
      BY <1>1, <2>1 DEF Login, TypeOK
  <1>2. ASSUME NEW t \in Tabs, LoginInsert(t) PROVE TypeOK'
    <2>1. Len(sessions) + 1 \in Ids
      BY <1>2, RowIds DEF LoginInsert, Ids
    <2>2. request' \in [Tabs -> Request]
      BY <1>2, <2>1, AnswerType DEF LoginInsert
    <2>3. request[t].era \in 0 .. MaxUpdates
      BY DEF TypeOK, Request
    <2> DEFINE late == request[t].era # user.era
    <2>a. sessions' = Insert(sessions, Len(sessions) + 1, request[t].era, late)
      BY <1>2 DEF LoginInsert
    <2>b. late \in BOOLEAN /\ sessions \in Seq(Session) /\ Len(sessions) + 1 <= MaxSessions
      BY <1>2, RowIds DEF LoginInsert, TypeOK
    <2> HIDE DEF late
    <2>4. sessions' \in Seq(Session) /\ Len(sessions') <= MaxSessions
      BY <2>1, <2>3, <2>a, <2>b, Inserted
    <2>5. QED
      BY <1>2, <2>2, <2>4 DEF LoginInsert, TypeOK
  <1>3. ASSUME NEW t \in Tabs, Call(t) PROVE TypeOK'
    <2>1. [None EXCEPT !.op = "retry", !.at = "waiting"] \in Request
      BY NoneType DEF Request, Refreshing
    <2>2. QED
      BY <1>3, <2>1 DEF Call, Wait, TypeOK
  <1>4. ASSUME NEW t \in Tabs, KeepAlive(t) PROVE TypeOK'
    <2>1. [None EXCEPT !.op = "keepalive", !.at = "waiting"] \in Request
      BY NoneType DEF Request, Refreshing
    <2>2. QED
      BY <1>4, <2>1 DEF KeepAlive, Wait, TypeOK
  <1>s. ASSUME NEW t \in Tabs, NEW op \in Refreshing, Send(t, op) PROVE request' \in [Tabs -> Request]
    <2>1. jar[browser[t]].refresh \in {NoToken} \cup Ids
      BY DEF TypeOK
    <2>2. [None EXCEPT !.op = op, !.at = "sent", !.token = jar[browser[t]].refresh] \in Request
      BY <2>1, NoneType DEF Request
    <2>3. QED
      BY <1>s, <2>2 DEF Send, TypeOK
  <1>5. ASSUME NEW t \in Tabs, DoRefresh(t) PROVE TypeOK'
    <2>1. request[t].op \in Refreshing
      BY <1>5 DEF DoRefresh, TokensExist, TokenExists
    <2>2. None \in Request
      BY NoneType
    <2>3. request' \in [Tabs -> Request]
      BY <1>5, <1>s, <2>1, <2>2 DEF DoRefresh, TypeOK
    <2>4. phase' \in [Tabs -> {"in", "out", "loading"}]
      BY <1>5 DEF DoRefresh, TypeOK
    <2>5. QED
      BY <1>5, <2>3, <2>4 DEF DoRefresh, TypeOK
  <1>6. ASSUME NEW t \in Tabs, Reload(t) PROVE TypeOK'
    <2>1. request' \in [Tabs -> Request]
      BY <1>6, <1>s DEF Reload, TypeOK, Refreshing
    <2>2. phase' \in [Tabs -> {"in", "out", "loading"}]
      BY <1>6 DEF Reload, TypeOK
    <2>3. QED
      BY <1>6, <2>1, <2>2 DEF Reload, TypeOK
  <1>7. ASSUME NEW t \in Tabs, Refresh(t) PROVE TypeOK'
    <2>1. CASE Answer(t, "kept", NoToken) \/ Answer(t, "cleared", NoToken)
      BY <1>7, <2>1, AnswerType DEF Refresh, TypeOK
    <2>2. CASE request' = [request EXCEPT ![t].at = "revoking", ![t].seen = Kin(request[t].token) \cap Unrevoked]
      <3>1. Kin(request[t].token) \cap Unrevoked \in SUBSET Ids
        BY RowIds
      <3>2. [request[t] EXCEPT !.at = "revoking", !.seen = Kin(request[t].token) \cap Unrevoked] \in Request
        BY <1>q, <3>1 DEF Request
      <3>3. QED
        BY <1>7, <2>2, <3>2 DEF Refresh, TypeOK
    <2>3. CASE request' = [request EXCEPT ![t].at = "locked"]
      <3>1. [request[t] EXCEPT !.at = "locked"] \in Request
        BY <1>q DEF Request
      <3>2. QED
        BY <1>7, <2>3, <3>1 DEF Refresh, TypeOK
    <2>4. QED
      BY <1>7, <2>1, <2>2, <2>3 DEF Refresh
  <1>8. ASSUME NEW t \in Tabs, Rotate(t) PROVE TypeOK'
    <2> DEFINE s == request[t].token
    <2>1. s \in DOMAIN sessions /\ sessions[s] \in Session
      BY <1>8, RowIds DEF Rotate, TokensExist, TokenExists
    <2>2. Len(sessions) + 1 \in Ids
      BY <1>8, RowIds DEF Rotate, Ids
    <2>3. request' \in [Tabs -> Request]
      BY <1>8, <2>2, AnswerType DEF Rotate
    <2>4. sessions[s].family \in Ids /\ sessions[s].era \in 0 .. MaxUpdates /\ sessions[s].late \in BOOLEAN
      BY <2>1 DEF Session
    <2> DEFINE stamped == [sessions EXCEPT ![s].used = "fresh"]
    <2>5. stamped \in Seq(Session) /\ Len(stamped) = Len(sessions)
      BY <2>1, Stamped DEF TypeOK
    <2>6. sessions' = Insert(stamped, sessions[s].family, sessions[s].era, sessions[s].late)
      BY <1>8 DEF Rotate
    <2> HIDE DEF stamped
    <2>a. Len(sessions) + 1 <= MaxSessions
      BY <1>8, RowIds DEF Rotate
    <2>7. sessions' \in Seq(Session) /\ Len(sessions') <= MaxSessions
      BY <2>4, <2>5, <2>6, <2>a, Inserted
    <2>8. QED
      BY <1>8, <2>3, <2>7 DEF Rotate, TypeOK
  <1>9. ASSUME NEW t \in Tabs, RevokeReused(t) PROVE TypeOK'
    BY <1>9, AnswerType, RevokedRows DEF RevokeReused, TypeOK
  <1>10. ASSUME NEW t \in Tabs, Logout(t) PROVE TypeOK'
    <2> DEFINE seen == IF jar[browser[t]].refresh = NoToken THEN {} ELSE Kin(jar[browser[t]].refresh) \cap Unrevoked
    <2>1. seen \in SUBSET Ids
      BY RowIds
    <2>2. [None EXCEPT !.op = "logout", !.at = "revoking", !.seen = seen] \in Request
      BY <2>1, NoneType DEF Request, Telling
    <2>3. QED
      BY <1>10, <2>2 DEF Logout, TypeOK
  <1>11. ASSUME NEW t \in Tabs, LogoutEnd(t) PROVE TypeOK'
    BY <1>11, AnswerType, RevokedRows DEF LogoutEnd, TypeOK
  <1>12. ASSUME NEW t \in Tabs, ChangePassword(t) PROVE TypeOK'
    <2>1. [None EXCEPT !.op = "password", !.at = "revoking", !.seen = Unrevoked] \in Request
      BY RowIds, NoneType DEF Request, Telling
    <2>2. QED
      BY <1>12, <2>1 DEF ChangePassword, TypeOK
  <1>13. ASSUME NEW t \in Tabs, ChangePasswordEnd(t) PROVE TypeOK'
    <2>1. user.era < updates
      BY <1>13 DEF ChangePasswordEnd, OneUpdate, UserFree, Changing
    <2>2. user' \in [status : {"active", "disabled"}, era : 0 .. MaxUpdates]
      BY <1>13, <2>1 DEF ChangePasswordEnd, TypeOK
    <2>3. request' \in [Tabs -> Request]
      BY <1>13, AnswerType DEF ChangePasswordEnd
    <2>4. QED
      BY <1>13, <2>2, <2>3, RevokedRows DEF ChangePasswordEnd, TypeOK
  <1>14. ASSUME NEW t \in Tabs, Receive(t) PROVE TypeOK'
    <2>1. None \in Request
      BY NoneType
    <2>2. request[t] \in Request /\ phase[t] \in {"in", "out", "loading"}
      BY DEF TypeOK
    <2>3. \A c, k : PhaseAfter(t, c, k) \in {"in", "out", "loading"}
      BY <2>2 DEF PhaseAfter
    <2>4. PICK c, k : phase' = [phase EXCEPT ![t] = PhaseAfter(t, c, k)]
      BY <1>14 DEF Receive
    <2>5. phase' \in [Tabs -> {"in", "out", "loading"}]
      BY <2>3, <2>4 DEF TypeOK
    <2>6. jar' \in [Browsers -> [access : BOOLEAN, refresh : {NoToken} \cup Ids]]
      BY <1>14, <2>2 DEF Receive, TypeOK, Request, Cleared
    <2>7. QED
      BY <1>14, <2>1, <2>5, <2>6 DEF Receive, TypeOK
  <1>15. ASSUME NEW t \in Tabs, Lose(t) PROVE TypeOK'
    <2>1. None \in Request
      BY NoneType
    <2>2. \A c, k : PhaseAfter(t, c, k) \in {"in", "out", "loading"}
      BY DEF PhaseAfter, TypeOK
    <2>3. phase' \in [Tabs -> {"in", "out", "loading"}]
      BY <1>15, <2>2 DEF Lose, TypeOK
    <2>4. losses' \in 0 .. MaxLosses
      BY <1>15 DEF Lose, TypeOK
    <2>5. request' \in [Tabs -> Request]
      BY <1>15, <2>1 DEF Lose, TypeOK
    <2>6. QED
      BY <1>15, <2>3, <2>4, <2>5 DEF Lose, TypeOK
  <1>16. ASSUME NEW t \in Tabs, Fails(t) PROVE TypeOK'
    BY <1>16, AnswerType DEF Fails, TypeOK
  <1>17. CASE Disable \/ ResetPassword
    BY <1>17, RowIds DEF Disable, ResetPassword, TypeOK
  <1>18. CASE UpdateUserEnd
    <2>1. user.era < updates
      BY <1>18 DEF UpdateUserEnd, OneUpdate, UserFree
    <2>2. user' \in [status : {"active", "disabled"}, era : 0 .. MaxUpdates]
      BY <1>18, <2>1 DEF UpdateUserEnd, TypeOK
    <2>3. QED
      BY <1>18, <2>2, RevokedRows DEF UpdateUserEnd, TypeOK
  <1>19. CASE Enable
    BY <1>19 DEF Enable, TypeOK
  <1>20. CASE BreakDeadlock
    BY <1>20 DEF BreakDeadlock, TypeOK
  <1>21. CASE GraceEnds
    <2>1. PICK s \in DOMAIN sessions : sessions' = [sessions EXCEPT ![s].used = "stale"]
      BY <1>21 DEF GraceEnds
    <2>2. sessions' \in Seq(Session) /\ Len(sessions') = Len(sessions)
      BY <2>1, Stamped DEF TypeOK
    <2>3. QED
      BY <1>21, <2>2 DEF GraceEnds, TypeOK
  <1>22. CASE AccessExpires
    <2>1. PICK b \in Browsers : jar' = [jar EXCEPT ![b].access = FALSE]
      BY <1>22 DEF AccessExpires
    <2>2. jar' \in [Browsers -> [access : BOOLEAN, refresh : {NoToken} \cup Ids]]
      BY <2>1 DEF TypeOK
    <2>3. QED
      BY <1>22, <2>2 DEF AccessExpires, TypeOK
  <1>23. QED
    BY <1>0, <1>1, <1>2, <1>3, <1>4, <1>5, <1>6, <1>7, <1>8, <1>9, <1>10, <1>11, <1>12, <1>13,
       <1>14, <1>15, <1>16, <1>17, <1>18, <1>19, <1>20, <1>21, <1>22 DEF Next, Tab, Serve

-----------------------------------------------------------------------------
(* What a step can do to the rows.                                         *)

\* A login adds the first row of a family.
LEMMA OpenedRows ==
  ASSUME TypeOK, NEW t \in Tabs, LoginInsert(t)
  PROVE  /\ DOMAIN sessions' = 1 .. (Len(sessions) + 1)
         /\ \A s \in DOMAIN sessions : sessions'[s] = sessions[s]
         /\ sessions'[Len(sessions) + 1] =
              [family |-> Len(sessions) + 1, used |-> "no", revoked |-> "no",
               era |-> request[t].era, late |-> request[t].era # user.era]
  <1> DEFINE late == request[t].era # user.era
  <1>1. sessions' = Insert(sessions, Len(sessions) + 1, request[t].era, late)
    BY DEF LoginInsert
  <1>2. late \in BOOLEAN /\ sessions \in Seq(Session) /\ request[t].era \in 0 .. MaxUpdates
    BY DEF TypeOK, Request
  <1>3. Len(sessions) + 1 \in Ids
    BY RowIds, SessionsAssumption DEF LoginInsert, Ids
  <1>4. late = (request[t].era # user.era)
    OBVIOUS
  <1> HIDE DEF late
  <1>5. /\ DOMAIN sessions = 1 .. Len(sessions)
        /\ DOMAIN sessions' = 1 .. (Len(sessions) + 1)
        /\ \A s \in DOMAIN sessions : sessions'[s] = sessions[s]
        /\ sessions'[Len(sessions) + 1] =
             [family |-> Len(sessions) + 1, used |-> "no", revoked |-> "no",
              era |-> request[t].era, late |-> late]
    BY <1>1, <1>2, <1>3, Inserted
  <1>6. QED
    BY <1>4, <1>5

\* A rotation stamps one row and adds the last one to its family.
LEMMA RotatedRows ==
  ASSUME TypeOK, TokensExist, NEW t \in Tabs, Rotate(t)
  PROVE  LET s == request[t].token IN
         /\ s \in DOMAIN sessions
         /\ DOMAIN sessions' = 1 .. (Len(sessions) + 1)
         /\ \A r \in DOMAIN sessions \ {s} : sessions'[r] = sessions[r]
         /\ sessions'[s] = [sessions[s] EXCEPT !.used = "fresh"]
         /\ sessions'[Len(sessions) + 1] =
              [family |-> sessions[s].family, used |-> "no", revoked |-> "no",
               era |-> sessions[s].era, late |-> sessions[s].late]
  <1> DEFINE s == request[t].token
             rows == [sessions EXCEPT ![s].used = "fresh"]
  <1>1. s \in DOMAIN sessions /\ sessions[s] \in Session
    BY RowIds DEF Rotate, TokensExist, TokenExists
  <1>2. sessions[s].family \in Ids /\ sessions[s].era \in 0 .. MaxUpdates /\ sessions[s].late \in BOOLEAN
    BY <1>1 DEF Session
  <1>3. /\ rows \in Seq(Session) /\ Len(rows) = Len(sessions)
        /\ DOMAIN rows = DOMAIN sessions
        /\ \A r \in DOMAIN sessions \ {s} : rows[r] = sessions[r]
        /\ rows[s] = [sessions[s] EXCEPT !.used = "fresh"]
    BY <1>1, Stamped DEF TypeOK
  <1>4. sessions' = Insert(rows, sessions[s].family, sessions[s].era, sessions[s].late)
    BY DEF Rotate
  <1> HIDE DEF s, rows
  <1>5. /\ DOMAIN sessions' = 1 .. (Len(sessions) + 1)
        /\ \A r \in DOMAIN sessions : sessions'[r] = rows[r]
        /\ sessions'[Len(sessions) + 1] =
             [family |-> sessions[s].family, used |-> "no", revoked |-> "no",
              era |-> sessions[s].era, late |-> sessions[s].late]
    BY <1>2, <1>3, <1>4, Inserted
  <1>6. QED
    BY <1>1, <1>3, <1>5 DEF s

Revokes(seen, why) ==
  /\ why \in {"reuse", "told"}
  /\ sessions' = Revoked(seen, why)

Graces(s) ==
  /\ sessions[s].used = "fresh"
  /\ sessions' = [sessions EXCEPT ![s].used = "stale"]

\* Nothing else changes them.
LEMMA RowSteps ==
  ASSUME [Next]_vars
  PROVE  \/ sessions' = sessions
         \/ \E t \in Tabs : LoginInsert(t) \/ Rotate(t)
         \/ \E t \in Tabs : RevokeReused(t) \/ LogoutEnd(t) \/ ChangePasswordEnd(t)
         \/ UpdateUserEnd
         \/ GraceEnds
  <1>1. CASE UNCHANGED vars
    BY <1>1 DEF vars
  <1>2. ASSUME NEW t \in Tabs, Tab(t) PROVE sessions' = sessions
    BY <1>2 DEF Tab, Login, Call, KeepAlive, DoRefresh, Reload, Logout, ChangePassword, Receive, Lose
  <1>3. ASSUME NEW t \in Tabs, Refresh(t) \/ Fails(t) PROVE sessions' = sessions
    BY <1>3 DEF Refresh, Fails
  <1>4. CASE Disable \/ ResetPassword \/ Enable \/ BreakDeadlock \/ AccessExpires
    BY <1>4 DEF Disable, ResetPassword, Enable, BreakDeadlock, AccessExpires
  <1>5. QED
    BY <1>1, <1>2, <1>3, <1>4 DEF Next, Serve

LEMMA RevokedSteps ==
  /\ \A t \in Tabs : RevokeReused(t) => Revokes(request[t].seen, "reuse")
  /\ \A t \in Tabs : LogoutEnd(t) \/ ChangePasswordEnd(t) => Revokes(request[t].seen, "told")
  /\ UpdateUserEnd => Revokes(admin.seen, "told")
  BY DEF RevokeReused, LogoutEnd, ChangePasswordEnd, UpdateUserEnd, Revokes

\* What no step takes back.
Grown(s) ==
  /\ s \in DOMAIN sessions'
  /\ sessions'[s].family = sessions[s].family
  /\ sessions'[s].era = sessions[s].era
  /\ sessions'[s].late = sessions[s].late
  /\ sessions[s].revoked # "no" => sessions'[s].revoked = sessions[s].revoked
  /\ sessions[s].used # "no" => sessions'[s].used # "no"

\* Rows are kept; a used or revoked one stays so.
LEMMA RowsGrow ==
  ASSUME TypeOK, TokensExist, [Next]_vars
  PROVE  \A s \in DOMAIN sessions : Grown(s)
  <1>d. DOMAIN sessions = 1 .. Len(sessions) /\ Len(sessions) \in Nat
        /\ \A s \in DOMAIN sessions : sessions[s] \in Session
    BY RowIds
  <1>1. CASE sessions' = sessions
    BY <1>1 DEF Grown
  <1>2. ASSUME NEW t \in Tabs, LoginInsert(t) PROVE \A s \in DOMAIN sessions : Grown(s)
    <2>1. DOMAIN sessions' = 1 .. (Len(sessions) + 1) /\ \A s \in DOMAIN sessions : sessions'[s] = sessions[s]
      BY <1>2, OpenedRows
    <2>2. DOMAIN sessions \subseteq DOMAIN sessions'
      BY <1>d, <2>1
    <2>3. QED
      BY <2>1, <2>2 DEF Grown
  <1>3. ASSUME NEW t \in Tabs, Rotate(t) PROVE \A s \in DOMAIN sessions : Grown(s)
    <2> DEFINE s == request[t].token
    <2>0. DOMAIN sessions' = 1 .. (Len(sessions) + 1)
      BY <1>3, RotatedRows
    <2>1. DOMAIN sessions \subseteq DOMAIN sessions'
      BY <1>d, <2>0
    <2>2. \A r \in DOMAIN sessions \ {s} : sessions'[r] = sessions[r]
      BY <1>3, RotatedRows
    <2>3. s \in DOMAIN sessions /\ sessions'[s] = [sessions[s] EXCEPT !.used = "fresh"]
      BY <1>3, RotatedRows
    <2> HIDE DEF s
    <2>4. Grown(s)
      BY <1>d, <2>1, <2>3 DEF Grown, Session
    <2>5. QED
      BY <2>1, <2>2, <2>4 DEF Grown
  <1>4. ASSUME NEW seen, NEW why, Revokes(seen, why) PROVE \A s \in DOMAIN sessions : Grown(s)
    <2> SUFFICES ASSUME NEW s \in DOMAIN sessions PROVE Grown(s)
      OBVIOUS
    <2>0. sessions \in Seq(Session) /\ why \in {"reuse", "told"} /\ sessions' = Revoked(seen, why)
      BY <1>4 DEF Revokes, TypeOK
    <2>1. s \in DOMAIN sessions'
          /\ sessions'[s] = IF s \in seen /\ sessions[s].revoked = "no"
                            THEN [sessions[s] EXCEPT !.revoked = why] ELSE sessions[s]
      BY <2>0, RevokedRows
    <2>2. sessions[s] \in Session
      BY <1>d
    <2>3. QED
      BY <2>1, <2>2 DEF Grown, Session
  <1>5. CASE GraceEnds
    <2>1. PICK s \in DOMAIN sessions : Graces(s)
      BY <1>5 DEF GraceEnds, Graces
    <2>2. /\ DOMAIN sessions' = DOMAIN sessions
          /\ \A r \in DOMAIN sessions \ {s} : sessions'[r] = sessions[r]
          /\ sessions'[s] = [sessions[s] EXCEPT !.used = "stale"]
      BY <2>1, Stamped DEF TypeOK, Graces
    <2>3. Grown(s)
      BY <1>d, <2>2 DEF Grown, Session
    <2>4. QED
      BY <2>2, <2>3 DEF Grown
  <1>6. QED
    BY <1>1, <1>2, <1>3, <1>4, <1>5, RowSteps, RevokedSteps

\* A live row is killed by the rotation of its token or by an UPDATE that saw it.
LEMMA Killed ==
  ASSUME TypeOK, TokensExist, [Next]_vars, NEW s \in DOMAIN sessions, Live(s), ~Live(s)'
  PROVE  \/ \E t \in Tabs : Rotate(t) /\ request[t].token = s
         \/ \E t \in Tabs : /\ RevokeReused(t) \/ LogoutEnd(t) \/ ChangePasswordEnd(t)
                            /\ s \in request[t].seen
         \/ UpdateUserEnd /\ s \in admin.seen
  <1>1. CASE sessions' = sessions
    BY <1>1 DEF Live
  <1>2. ASSUME NEW t \in Tabs, LoginInsert(t) PROVE FALSE
    BY <1>2, OpenedRows DEF Live
  <1>3. ASSUME NEW t \in Tabs, Rotate(t) PROVE request[t].token = s
    BY <1>3, RotatedRows DEF Live
  <1>4. ASSUME NEW seen, NEW why, Revokes(seen, why) PROVE s \in seen
    <2>1. sessions \in Seq(Session) /\ why \in {"reuse", "told"} /\ sessions' = Revoked(seen, why)
      BY <1>4 DEF Revokes, TypeOK
    <2>2. sessions'[s] = IF s \in seen /\ sessions[s].revoked = "no"
                         THEN [sessions[s] EXCEPT !.revoked = why] ELSE sessions[s]
      BY <2>1, RevokedRows
    <2>3. QED
      BY <2>2 DEF Live
  <1>5. CASE GraceEnds
    <2>1. PICK r \in DOMAIN sessions : Graces(r)
      BY <1>5 DEF GraceEnds, Graces
    <2>2. \A q \in DOMAIN sessions \ {r} : sessions'[q] = sessions[q]
      BY <2>1, Stamped DEF TypeOK, Graces
    <2>3. QED
      BY <2>1, <2>2 DEF Graces, Live
  <1>6. QED
    BY <1>1, <1>2, <1>3, <1>4, <1>5, RowSteps, RevokedSteps

\* A row that is added is live, alone or in the family of the rotated one.
LEMMA Added ==
  ASSUME TypeOK, TokensExist, [Next]_vars
  PROVE  \/ DOMAIN sessions' = DOMAIN sessions
         \/ /\ DOMAIN sessions' = 1 .. (Len(sessions) + 1)
            /\ \E t \in Tabs : LoginInsert(t) \/ Rotate(t)
  <1>1. ASSUME NEW t \in Tabs, LoginInsert(t) \/ Rotate(t) PROVE DOMAIN sessions' = 1 .. (Len(sessions) + 1)
    BY <1>1, OpenedRows, RotatedRows
  <1>2. ASSUME NEW seen, NEW why, Revokes(seen, why) PROVE DOMAIN sessions' = DOMAIN sessions
    BY <1>2, RevokedRows DEF Revokes, TypeOK
  <1>3. CASE GraceEnds
    BY <1>3, Stamped DEF GraceEnds, TypeOK
  <1>4. QED
    BY <1>1, <1>2, <1>3, RowSteps, RevokedSteps

-----------------------------------------------------------------------------
(* What a step can do to a request and to the cookies.                     *)

OnlyTab(t) == \A u \in Tabs \ {t} : request'[u] = request[u]

\* A request that presents no token and brings none.
Quiet(q) ==
  /\ q.token = NoToken
  /\ \/ q.at \in {"none", "verified"}
     \/ q.at = "waiting" /\ q.op \in Refreshing
     \/ q.at = "answered" /\ q.cookies # "set"
     \/ q.at = "revoking" /\ q.op \in Telling

Quiets(t) ==
  /\ OnlyTab(t)
  /\ Quiet(request'[t])
  /\ Changing(t)' => ChangePassword(t)

Sends(t) ==
  /\ OnlyTab(t)
  /\ jar[browser[t]].refresh # NoToken
  /\ request'[t].op \in Refreshing /\ request'[t].at = "sent"
  /\ request'[t].token = jar[browser[t]].refresh
  /\ UNCHANGED <<sessions, jar, losses>>

Locks(t) ==
  /\ OnlyTab(t)
  /\ Arrives(t) /\ Live(request[t].token)
  /\ request'[t].op = request[t].op /\ request'[t].at = "locked"
  /\ request'[t].token = request[t].token
  /\ UNCHANGED <<sessions, jar, losses>>

Suspects(t) ==
  /\ OnlyTab(t)
  /\ Arrives(t) /\ ~Raced(request[t].token) /\ Reused(request[t].token)
  /\ request'[t].op = request[t].op /\ request'[t].at = "revoking"
  /\ request'[t].token = request[t].token
  /\ request'[t].seen \subseteq Kin(request[t].token)
  /\ UNCHANGED <<sessions, jar, losses>>

Gains(t) ==
  /\ OnlyTab(t)
  /\ LoginInsert(t) \/ Rotate(t)
  /\ request'[t].at = "answered" /\ request'[t].cookies = "set"
  /\ request'[t].token = Len(sessions) + 1
  /\ UNCHANGED <<jar, losses>>

LEMMA Became ==
  ASSUME TypeOK, NEW t \in Tabs, NEW q, request' = [request EXCEPT ![t] = q]
  PROVE  OnlyTab(t) /\ request'[t] = q
  BY DEF TypeOK, OnlyTab

LEMMA Answered ==
  ASSUME TypeOK, NEW t \in Tabs, NEW cookies, NEW token, Answer(t, cookies, token)
  PROVE  /\ OnlyTab(t)
         /\ request'[t].at = "answered" /\ request'[t].cookies = cookies
         /\ request'[t].token = token /\ request'[t].seen = {}
  <1> DEFINE q == [None EXCEPT !.op = request[t].op, !.at = "answered", !.cookies = cookies, !.token = token]
  <1>1. request' = [request EXCEPT ![t] = q]
    BY DEF Answer
  <1>2. q.at = "answered" /\ q.cookies = cookies /\ q.token = token /\ q.seen = {}
    BY DEF None
  <1> HIDE DEF q
  <1>3. QED
    BY <1>1, <1>2, Became

LEMMA AnsweredQuiet ==
  ASSUME TypeOK, NEW t \in Tabs, Answer(t, "kept", NoToken) \/ Answer(t, "cleared", NoToken)
  PROVE  Quiets(t)
  BY Answered DEF Quiets, Quiet, Changing

LEMMA Nothing ==
  ASSUME TypeOK, NEW t \in Tabs, request' = [request EXCEPT ![t] = None]
  PROVE  Quiets(t)
  <1>1. OnlyTab(t) /\ request'[t] = None
    BY Became
  <1>2. None.token = NoToken /\ None.at = "none"
    BY DEF None
  <1>3. QED
    BY <1>1, <1>2 DEF Quiets, Quiet, Changing

LEMMA Sent ==
  ASSUME TypeOK, NEW t \in Tabs, NEW op \in Refreshing, Send(t, op),
         jar[browser[t]].refresh # NoToken, UNCHANGED <<sessions, jar, losses>>
  PROVE  Sends(t)
  <1> DEFINE q == [None EXCEPT !.op = op, !.at = "sent", !.token = jar[browser[t]].refresh]
  <1>1. request' = [request EXCEPT ![t] = q]
    BY DEF Send
  <1>2. q.op = op /\ q.at = "sent" /\ q.token = jar[browser[t]].refresh
    BY DEF None
  <1> HIDE DEF q
  <1>3. QED
    BY <1>1, <1>2, Became DEF Sends

\* A step moves one request, and in one of these ways.
LEMMA RequestSteps ==
  ASSUME TypeOK, TokensExist, [Next]_vars
  PROVE  \/ request' = request
         \/ \E t \in Tabs : Quiets(t) \/ Sends(t) \/ Locks(t) \/ Suspects(t) \/ Gains(t)
  <1>0. CASE UNCHANGED vars
    BY <1>0 DEF vars
  <1>1. ASSUME NEW t \in Tabs, Login(t) PROVE Quiets(t)
    <2> DEFINE q == [None EXCEPT !.op = "login", !.at = "verified", !.era = user.era]
    <2>1. q.token = NoToken /\ q.at = "verified"
      BY DEF None
    <2>2. request' = [request EXCEPT ![t] = q]
      BY <1>1 DEF Login
    <2> HIDE DEF q
    <2>3. QED
      BY <2>1, <2>2, Became DEF Quiets, Quiet, Changing
  <1>w. ASSUME NEW t \in Tabs, NEW op \in Refreshing, Wait(t, op) PROVE Quiets(t)
    <2> DEFINE q == [None EXCEPT !.op = op, !.at = "waiting"]
    <2>1. q.token = NoToken /\ q.at = "waiting" /\ q.op = op
      BY DEF None
    <2>2. request' = [request EXCEPT ![t] = q]
      BY <1>w DEF Wait
    <2> HIDE DEF q
    <2>3. QED
      BY <2>1, <2>2, Became DEF Quiets, Quiet, Changing
  <1>2. ASSUME NEW t \in Tabs, Call(t) \/ KeepAlive(t) PROVE Quiets(t)
    BY <1>2, <1>w DEF Call, KeepAlive, Refreshing
  <1>3. ASSUME NEW t \in Tabs, DoRefresh(t) PROVE Quiets(t) \/ Sends(t)
    <2>1. request[t].op \in Refreshing
      BY <1>3 DEF DoRefresh, TokensExist, TokenExists
    <2>2. CASE request' = [request EXCEPT ![t] = None]
      BY <2>2, Nothing
    <2>3. CASE jar[browser[t]].refresh # NoToken /\ Send(t, request[t].op)
      BY <1>3, <2>1, <2>3, Sent DEF DoRefresh
    <2>4. QED
      BY <1>3, <2>2, <2>3 DEF DoRefresh
  <1>4. ASSUME NEW t \in Tabs, Reload(t) PROVE request' = request \/ Sends(t)
    BY <1>4, Sent DEF Reload, Refreshing
  <1>5. ASSUME NEW t \in Tabs, Refresh(t) PROVE Quiets(t) \/ Locks(t) \/ Suspects(t)
    <2> DEFINE s == request[t].token
    <2>0. request[t] \in Request
      BY DEF TypeOK
    <2>1. CASE Answer(t, "kept", NoToken) \/ Answer(t, "cleared", NoToken)
      BY <2>1, AnsweredQuiet
    <2>2. CASE ~Raced(s) /\ Reused(s) /\ request' = [request EXCEPT ![t].at = "revoking", ![t].seen = Kin(s) \cap Unrevoked]
      <3> DEFINE q == [request[t] EXCEPT !.at = "revoking", !.seen = Kin(s) \cap Unrevoked]
      <3>1. q.op = request[t].op /\ q.at = "revoking" /\ q.token = s /\ q.seen \subseteq Kin(s)
        BY <2>0 DEF Request
      <3>2. request' = [request EXCEPT ![t] = q]
        BY <2>2
      <3> HIDE DEF q
      <3>3. OnlyTab(t) /\ request'[t] = q
        BY <3>2, Became
      <3>4. QED
        BY <1>5, <2>2, <3>1, <3>3 DEF Suspects, Refresh
    <2>3. CASE ~Raced(s) /\ ~Reused(s) /\ request' = [request EXCEPT ![t].at = "locked"]
      <3> DEFINE q == [request[t] EXCEPT !.at = "locked"]
      <3>1. q.op = request[t].op /\ q.at = "locked" /\ q.token = s
        BY <2>0 DEF Request
      <3>2. request' = [request EXCEPT ![t] = q]
        BY <2>3
      <3> HIDE DEF q
      <3>3. OnlyTab(t) /\ request'[t] = q
        BY <3>2, Became
      <3>4. Live(s)
        BY <2>3 DEF Reused, Live
      <3>5. QED
        BY <1>5, <3>1, <3>3, <3>4 DEF Locks, Refresh
    <2>4. QED
      BY <1>5, <2>1, <2>2, <2>3 DEF Refresh
  <1>6. ASSUME NEW t \in Tabs, LoginInsert(t) \/ Rotate(t) PROVE Gains(t)
    BY <1>6, Answered DEF LoginInsert, Rotate, Gains
  <1>7. ASSUME NEW t \in Tabs, RevokeReused(t) \/ LogoutEnd(t) \/ ChangePasswordEnd(t) \/ Fails(t) PROVE Quiets(t)
    BY <1>7, AnsweredQuiet DEF RevokeReused, LogoutEnd, ChangePasswordEnd, Fails
  <1>8. ASSUME NEW t \in Tabs, NEW op \in Telling, NEW seen,
               request' = [request EXCEPT ![t] = [None EXCEPT !.op = op, !.at = "revoking", !.seen = seen]]
        PROVE  OnlyTab(t) /\ Quiet(request'[t]) /\ request'[t].op = op
    <2> DEFINE q == [None EXCEPT !.op = op, !.at = "revoking", !.seen = seen]
    <2>1. q.token = NoToken /\ q.at = "revoking" /\ q.op = op
      BY DEF None
    <2>2. request' = [request EXCEPT ![t] = q]
      BY <1>8
    <2> HIDE DEF q
    <2>3. QED
      BY <2>1, <2>2, Became DEF Quiet
  <1>9. ASSUME NEW t \in Tabs, Logout(t) PROVE Quiets(t)
    <2> DEFINE seen == IF jar[browser[t]].refresh = NoToken THEN {} ELSE Kin(jar[browser[t]].refresh) \cap Unrevoked
    <2>1. request' = [request EXCEPT ![t] = [None EXCEPT !.op = "logout", !.at = "revoking", !.seen = seen]]
      BY <1>9 DEF Logout
    <2> HIDE DEF seen
    <2>2. OnlyTab(t) /\ Quiet(request'[t]) /\ request'[t].op = "logout"
      BY <1>8, <2>1 DEF Telling
    <2>3. QED
      BY <2>2 DEF Quiets, Changing
  <1>10. ASSUME NEW t \in Tabs, ChangePassword(t) PROVE Quiets(t)
    <2>1. OnlyTab(t) /\ Quiet(request'[t])
      BY <1>8, <1>10 DEF ChangePassword, Telling
    <2>2. QED
      BY <1>10, <2>1 DEF Quiets
  <1>11. ASSUME NEW t \in Tabs, Receive(t) \/ Lose(t) PROVE Quiets(t)
    BY <1>11, Nothing DEF Receive, Lose
  <1>12. CASE Disable \/ ResetPassword \/ UpdateUserEnd \/ Enable \/ BreakDeadlock \/ GraceEnds \/ AccessExpires
    BY <1>12 DEF Disable, ResetPassword, UpdateUserEnd, Enable, BreakDeadlock, GraceEnds, AccessExpires
  <1>13. QED
    BY <1>0, <1>1, <1>2, <1>3, <1>4, <1>5, <1>6, <1>7, <1>9, <1>10, <1>11, <1>12 DEF Next, Tab, Serve

\* An answer that brings a token puts it into the cookies of one browser.
Takes(t) ==
  /\ Receive(t) /\ request[t].cookies = "set"
  /\ jar'[browser[t]].refresh = request[t].token
  /\ \A b \in Browsers \ {browser[t]} : jar'[b] = jar[b]

LEMMA JarSteps ==
  ASSUME TypeOK, [Next]_vars
  PROVE  \/ \A b \in Browsers : jar'[b].refresh \in {jar[b].refresh, NoToken}
         \/ \E t \in Tabs : Takes(t)
  <1>1. CASE jar' = jar
    BY <1>1
  <1>2. ASSUME NEW t \in Tabs, Receive(t)
        PROVE  Takes(t) \/ \A b \in Browsers : jar'[b].refresh \in {jar[b].refresh, NoToken}
    <2>1. browser[t] \in Browsers /\ jar \in [Browsers -> [access : BOOLEAN, refresh : {NoToken} \cup Ids]]
      BY SessionsAssumption DEF TypeOK
    <2> DEFINE c == CASE request[t].cookies = "set" -> [access |-> TRUE, refresh |-> request[t].token]
                      [] request[t].cookies = "cleared" -> Cleared
                      [] OTHER -> jar[browser[t]]
    <2>2. jar' = [jar EXCEPT ![browser[t]] = c]
      BY <1>2 DEF Receive
    <2>3. request[t].cookies = "set" => c.refresh = request[t].token
      OBVIOUS
    <2>4. request[t].cookies # "set" => c.refresh \in {jar[browser[t]].refresh, NoToken}
      BY DEF Cleared
    <2> HIDE DEF c
    <2>5. jar'[browser[t]] = c /\ \A b \in Browsers \ {browser[t]} : jar'[b] = jar[b]
      BY <2>1, <2>2
    <2>6. QED
      BY <1>2, <2>3, <2>4, <2>5 DEF Takes
  <1>3. CASE AccessExpires
    <2>1. PICK b \in Browsers : jar' = [jar EXCEPT ![b].access = FALSE]
      BY <1>3 DEF AccessExpires
    <2>2. \A c \in Browsers : jar'[c].refresh = jar[c].refresh
      BY <2>1 DEF TypeOK
    <2>3. QED
      BY <2>2
  <1>4. ASSUME NEW t \in Tabs, Tab(t), ~Receive(t) PROVE jar' = jar
    BY <1>4 DEF Tab, Login, Call, KeepAlive, DoRefresh, Reload, Logout, ChangePassword, Lose
  <1>5. ASSUME NEW t \in Tabs, Serve(t) PROVE jar' = jar
    BY <1>5 DEF Serve, LoginInsert, Refresh, Rotate, RevokeReused, LogoutEnd, ChangePasswordEnd, Fails
  <1>6. CASE Disable \/ ResetPassword \/ UpdateUserEnd \/ Enable \/ BreakDeadlock \/ GraceEnds
    BY <1>6 DEF Disable, ResetPassword, UpdateUserEnd, Enable, BreakDeadlock, GraceEnds
  <1>7. QED
    BY <1>1, <1>2, <1>3, <1>4, <1>5, <1>6 DEF Next, vars

-----------------------------------------------------------------------------
(* The account and the tokens.                                             *)

LEMMA ChangingStarts ==
  ASSUME TypeOK, TokensExist, [Next]_vars, NEW t \in Tabs, Changing(t)'
  PROVE  (Changing(t) /\ request'[t] = request[t]) \/ ChangePassword(t)
  <1>1. CASE request' = request
    BY <1>1 DEF Changing
  <1>2. ASSUME NEW u \in Tabs, Quiets(u) \/ Sends(u) \/ Locks(u) \/ Suspects(u) \/ Gains(u), u # t
        PROVE  Changing(t) /\ request'[t] = request[t]
    BY <1>2 DEF Quiets, Sends, Locks, Suspects, Gains, OnlyTab, Changing
  <1>3. CASE Quiets(t)
    BY <1>3 DEF Quiets
  <1>4. CASE Sends(t) \/ Locks(t) \/ Suspects(t) \/ Gains(t)
    BY <1>4 DEF Sends, Locks, Suspects, Gains, Arrives, Refreshing, Changing
  <1>5. QED
    BY <1>1, <1>2, <1>3, <1>4, RequestSteps

LEMMA AccountSteps ==
  ASSUME [Next]_vars
  PROVE  \/ admin' = admin /\ updates' = updates /\ user'.era = user.era
         \/ \E t \in Tabs : ChangePassword(t) \/ ChangePasswordEnd(t)
         \/ Disable \/ ResetPassword \/ UpdateUserEnd
         \/ BreakDeadlock
  <1>1. CASE UNCHANGED vars
    BY <1>1 DEF vars
  <1>2. ASSUME NEW t \in Tabs, Tab(t), ~ChangePassword(t) PROVE admin' = admin /\ updates' = updates /\ user' = user
    BY <1>2 DEF Tab, Login, Call, KeepAlive, DoRefresh, Reload, Logout, Receive, Lose
  <1>3. ASSUME NEW t \in Tabs, Serve(t), ~ChangePasswordEnd(t) PROVE admin' = admin /\ updates' = updates /\ user' = user
    BY <1>3 DEF Serve, LoginInsert, Refresh, Rotate, RevokeReused, LogoutEnd, Fails
  <1>4. CASE GraceEnds \/ AccessExpires
    BY <1>4 DEF GraceEnds, AccessExpires
  <1>5. CASE Enable
    BY <1>5 DEF Enable
  <1>6. QED
    BY <1>1, <1>2, <1>3, <1>4, <1>5 DEF Next

\* Account updates exclude one another.
LEMMA OneUpdateStep ==
  ASSUME TypeOK, TokensExist, OneUpdate, [Next]_vars
  PROVE  OneUpdate'
  <1>t. user.era \in Nat /\ updates \in Nat
    BY SessionsAssumption DEF TypeOK
  <1>1. CASE admin' = admin /\ updates' = updates /\ user'.era = user.era /\ \A t \in Tabs : ~ChangePassword(t)
    <2>1. \A t \in Tabs : Changing(t)' => Changing(t)
      BY <1>1, ChangingStarts
    <2>2. UserFree => UserFree'
      BY <1>1, <2>1 DEF UserFree
    <2>3. QED
      BY <1>1, <2>1, <2>2 DEF OneUpdate
  <1>2. ASSUME NEW t \in Tabs, ChangePassword(t) PROVE OneUpdate'
    <2>1. \A u \in Tabs : ~Changing(u)
      BY <1>2 DEF ChangePassword, UserFree
    <2>2. \A u \in Tabs \ {t} : request'[u] = request[u]
      BY <1>2 DEF ChangePassword, TypeOK
    <2>3. \A u \in Tabs : Changing(u)' => u = t
      BY <2>1, <2>2 DEF Changing
    <2>4. admin'.op = "none" /\ user' = user /\ updates' = updates + 1
      BY <1>2 DEF ChangePassword, UserFree
    <2>5. QED
      BY <1>t, <2>3, <2>4 DEF OneUpdate
  <1>3. ASSUME NEW t \in Tabs, ChangePasswordEnd(t) PROVE OneUpdate'
    <2>1. Changing(t)
      BY <1>3 DEF ChangePasswordEnd, Changing
    <2>2. admin.op = "none" /\ admin' = admin /\ user'.era = user.era + 1 /\ updates' = updates
      BY <1>3, <2>1 DEF OneUpdate, ChangePasswordEnd, TypeOK
    <2>3. request'[t].at = "answered" /\ OnlyTab(t)
      BY <1>3, Answered DEF ChangePasswordEnd
    <2>4. \A u \in Tabs : ~Changing(u)'
      BY <2>1, <2>3 DEF OneUpdate, Changing, OnlyTab
    <2>5. user.era < updates
      BY <2>1 DEF OneUpdate, UserFree
    <2>6. UserFree'
      BY <2>2, <2>4 DEF UserFree
    <2>7. QED
      BY <1>t, <2>2, <2>4, <2>5, <2>6 DEF OneUpdate
  <1>4. CASE Disable \/ ResetPassword
    <2>1. request' = request /\ user' = user /\ updates' = updates + 1 /\ UserFree
      BY <1>4 DEF Disable, ResetPassword
    <2>2. \A u \in Tabs : ~Changing(u)'
      BY <2>1 DEF UserFree, Changing
    <2>3. QED
      BY <1>t, <2>1, <2>2 DEF OneUpdate
  <1>5. CASE UpdateUserEnd
    <2>1. request' = request /\ admin'.op = "none" /\ updates' = updates /\ user'.era = user.era + 1
      BY <1>5 DEF UpdateUserEnd
    <2>2. \A u \in Tabs : ~Changing(u)'
      BY <1>5, <2>1 DEF UpdateUserEnd, OneUpdate, Changing
    <2>3. user.era < updates
      BY <1>5 DEF UpdateUserEnd, OneUpdate, UserFree
    <2>4. UserFree'
      BY <2>1, <2>2 DEF UserFree
    <2>5. QED
      BY <1>t, <2>1, <2>2, <2>3, <2>4 DEF OneUpdate
  <1>6. CASE BreakDeadlock
    <2>1. request' = request /\ user' = user /\ updates' = updates /\ admin'.op = "none"
      BY <1>6 DEF BreakDeadlock
    <2>2. \A u \in Tabs : Changing(u)' <=> Changing(u)
      BY <2>1 DEF Changing
    <2>3. UserFree => UserFree'
      BY <2>1, <2>2 DEF UserFree
    <2>4. QED
      BY <2>1, <2>2, <2>3 DEF OneUpdate
  <1>7. QED
    BY <1>1, <1>2, <1>3, <1>4, <1>5, <1>6, AccountSteps

\* A row is added while no update of the account is under way.
LEMMA AddedFree ==
  ASSUME TypeOK, TokensExist, [Next]_vars, ~UserFree
  PROVE  DOMAIN sessions' = DOMAIN sessions
  BY Added DEF LoginInsert, Rotate

LEMMA UnrevokedShrinks ==
  ASSUME TypeOK, TokensExist, [Next]_vars, DOMAIN sessions' = DOMAIN sessions
  PROVE  Unrevoked' \subseteq Unrevoked
  BY RowsGrow DEF Unrevoked, Grown

\* Nothing is inserted behind the back of an account update.
LEMMA UpdateSeesAllStep ==
  ASSUME TypeOK, TokensExist, UpdateSeesAll, [Next]_vars
  PROVE  UpdateSeesAll'
  <1>1. ASSUME admin'.op # "none" PROVE Unrevoked' \subseteq admin'.seen
    <2>1. CASE admin' = admin
      <3>1. ~UserFree
        BY <1>1, <2>1 DEF UserFree
      <3>2. QED
        BY <1>1, <2>1, <3>1, AddedFree, UnrevokedShrinks DEF UpdateSeesAll
    <2>2. CASE Disable \/ ResetPassword
      BY <2>2 DEF Disable, ResetPassword, Unrevoked
    <2>3. QED
      BY <1>1, <2>1, <2>2, AccountSteps DEF ChangePassword, ChangePasswordEnd, UpdateUserEnd, BreakDeadlock
  <1>2. ASSUME NEW t \in Tabs, Changing(t)' PROVE Unrevoked' \subseteq request'[t].seen
    <2>1. CASE Changing(t) /\ request'[t] = request[t]
      <3>1. ~UserFree
        BY <2>1 DEF UserFree
      <3>2. QED
        BY <2>1, <3>1, AddedFree, UnrevokedShrinks DEF UpdateSeesAll
    <2>2. CASE ChangePassword(t)
      <3> DEFINE q == [None EXCEPT !.op = "password", !.at = "revoking", !.seen = Unrevoked]
      <3>1. q.seen = Unrevoked
        BY DEF None
      <3>2. request' = [request EXCEPT ![t] = q] /\ sessions' = sessions
        BY <2>2 DEF ChangePassword
      <3> HIDE DEF q
      <3>3. request'[t].seen = Unrevoked
        BY <3>1, <3>2, Became
      <3>4. QED
        BY <3>2, <3>3 DEF Unrevoked
    <2>3. QED
      BY <1>2, <2>1, <2>2, ChangingStarts
  <1>3. QED
    BY <1>1, <1>2 DEF UpdateSeesAll

-----------------------------------------------------------------------------
(* Tokens.                                                                 *)

LEMMA KinGrows ==
  ASSUME TypeOK, TokensExist, [Next]_vars, NEW s \in DOMAIN sessions
  PROVE  /\ s \in Kin(s) /\ Kin(s) \subseteq Kin(s)'
         /\ Kin(s)' \cap DOMAIN sessions = Kin(s)
         /\ Told(s) => Told(s)'
  <1>1. \A r \in DOMAIN sessions : Grown(r)
    BY RowsGrow
  <1>2. s \in Kin(s) /\ Kin(s) \subseteq Kin(s)' /\ Kin(s)' \cap DOMAIN sessions = Kin(s)
    BY <1>1 DEF Grown, Kin
  <1>3. ASSUME NEW r \in Kin(s), sessions[r].revoked = "told" PROVE r \in Kin(s)' /\ sessions'[r].revoked = "told"
    BY <1>1, <1>2, <1>3 DEF Grown, Kin
  <1>4. QED
    BY <1>2, <1>3 DEF Told

\* A request that stands keeps its token and what it saw.
LEMMA TokenStays ==
  ASSUME TypeOK, TokensExist, [Next]_vars, NEW t \in Tabs, request'[t] = request[t]
  PROVE  TokenExists(request[t])'
  <1> PICK q : q = request[t]
    OBVIOUS
  <1>1. TokenExists(q)
    BY DEF TokensExist
  <1>2. q.token \in DOMAIN sessions => q.token \in DOMAIN sessions' /\ Kin(q.token) \subseteq Kin(q.token)'
    BY KinGrows, RowsGrow DEF Grown
  <1>3. TokenExists(q)'
    BY <1>1, <1>2 DEF TokenExists
  <1>4. QED
    BY <1>3

LEMMA TokensStep ==
  ASSUME TypeOK, TokensExist, [Next]_vars
  PROVE  TokensExist'
  <1>g. DOMAIN sessions \subseteq DOMAIN sessions'
    BY RowsGrow DEF Grown
  <1>i. NoToken \notin DOMAIN sessions
    BY RowIds DEF NoToken, Ids
  <1>1. ASSUME NEW b \in Browsers PROVE jar'[b].refresh = NoToken \/ jar'[b].refresh \in DOMAIN sessions'
    <2>1. CASE jar'[b].refresh \in {jar[b].refresh, NoToken}
      BY <1>g, <2>1 DEF TokensExist
    <2>2. ASSUME NEW t \in Tabs, Takes(t) PROVE jar'[b].refresh = NoToken \/ jar'[b].refresh \in DOMAIN sessions'
      <3>1. request[t].token \in DOMAIN sessions
        BY <2>2 DEF Takes, Receive, TokensExist, TokenExists
      <3>2. QED
        BY <1>g, <2>2, <3>1 DEF Takes, TokensExist
    <2>3. QED
      BY <2>1, <2>2, JarSteps
  <1>2. ASSUME NEW t \in Tabs PROVE TokenExists(request[t])'
    <2>1. CASE request'[t] = request[t]
      BY <2>1, TokenStays
    <2>2. CASE Quiets(t)
      BY <2>2 DEF Quiets, Quiet, TokenExists, Refreshing, Telling
    <2>3. CASE Sends(t)
      <3>1. browser[t] \in Browsers
        BY SessionsAssumption
      <3>2. jar[browser[t]].refresh \in DOMAIN sessions
        BY <2>3, <3>1 DEF Sends, TokensExist
      <3>3. QED
        BY <1>g, <1>i, <2>3, <3>2 DEF Sends, TokenExists
    <2>4. CASE Locks(t) \/ Suspects(t)
      <3>1. request[t].token # NoToken /\ request[t].token \in DOMAIN sessions /\ request[t].op \in Refreshing
        BY <2>4 DEF Locks, Suspects, Arrives, TokensExist, TokenExists
      <3>2. sessions' = sessions
        BY <2>4 DEF Locks, Suspects
      <3>3. \A s : Kin(s)' = Kin(s)
        BY <3>2 DEF Kin
      <3>4. CASE Locks(t)
        BY <3>1, <3>2, <3>4 DEF Locks, TokenExists
      <3>5. CASE Suspects(t)
        <4> PICK q : q = request'[t]
          OBVIOUS
        <4>1. /\ q.token = request[t].token /\ q.op = request[t].op
              /\ q.at = "revoking" /\ q.seen \subseteq Kin(request[t].token)
          BY <3>5 DEF Suspects
        <4>2. Kin(q.token)' = Kin(request[t].token)
          BY <3>3, <4>1
        <4>3. TokenExists(q)'
          BY <3>1, <3>2, <4>1, <4>2 DEF TokenExists
        <4>4. QED
          BY <4>3
      <3>6. QED
        BY <2>4, <3>4, <3>5
    <2>5. CASE Gains(t)
      <3>1. DOMAIN sessions' = 1 .. (Len(sessions) + 1) /\ Len(sessions) \in Nat
        BY <2>5, OpenedRows, RotatedRows, RowIds DEF Gains
      <3>2. request'[t].token \in DOMAIN sessions' /\ request'[t].token # NoToken
        BY <2>5, <3>1 DEF Gains, NoToken
      <3>3. QED
        BY <2>5, <3>2 DEF Gains, TokenExists
    <2>6. QED
      BY <2>1, <2>2, <2>3, <2>4, <2>5, RequestSteps DEF Quiets, Sends, Locks, Suspects, Gains, OnlyTab
  <1>3. QED
    BY <1>1, <1>2 DEF TokensExist

\* The last row that is added.
LEMMA NewRow ==
  ASSUME TypeOK, TokensExist, [Next]_vars, NEW s \in DOMAIN sessions', s \notin DOMAIN sessions
  PROVE  /\ s = Len(sessions) + 1
         /\ sessions'[s].used = "no" /\ sessions'[s].revoked = "no"
         /\ \E t \in Tabs :
              \/ LoginInsert(t) /\ sessions'[s].family = s
                 /\ sessions'[s].era = request[t].era /\ sessions'[s].late = (request[t].era # user.era)
              \/ /\ Rotate(t)
                 /\ sessions'[s].family = sessions[request[t].token].family
                 /\ sessions'[s].era = sessions[request[t].token].era
                 /\ sessions'[s].late = sessions[request[t].token].late
  <1>1. DOMAIN sessions' = 1 .. (Len(sessions) + 1) /\ \E t \in Tabs : LoginInsert(t) \/ Rotate(t)
    BY Added
  <1>2. s = Len(sessions) + 1
    BY <1>1, RowIds
  <1>3. ASSUME NEW t \in Tabs, LoginInsert(t)
        PROVE  /\ sessions'[s].used = "no" /\ sessions'[s].revoked = "no"
               /\ sessions'[s].family = s
               /\ sessions'[s].era = request[t].era /\ sessions'[s].late = (request[t].era # user.era)
    <2> DEFINE late == request[t].era # user.era
    <2>1. sessions'[s] = [family |-> s, used |-> "no", revoked |-> "no", era |-> request[t].era, late |-> late]
      BY <1>2, <1>3, OpenedRows
    <2> HIDE DEF late
    <2>2. /\ sessions'[s].used = "no" /\ sessions'[s].revoked = "no"
          /\ sessions'[s].family = s /\ sessions'[s].era = request[t].era /\ sessions'[s].late = late
      BY <2>1
    <2>3. QED
      BY <2>2 DEF late
  <1>4. ASSUME NEW t \in Tabs, Rotate(t)
        PROVE  /\ sessions'[s].used = "no" /\ sessions'[s].revoked = "no"
               /\ sessions'[s].family = sessions[request[t].token].family
               /\ sessions'[s].era = sessions[request[t].token].era
               /\ sessions'[s].late = sessions[request[t].token].late
    <2> DEFINE r == request[t].token
    <2>1. sessions'[s] = [family |-> sessions[r].family, used |-> "no", revoked |-> "no",
                          era |-> sessions[r].era, late |-> sessions[r].late]
      BY <1>2, <1>4, RotatedRows
    <2>2. QED
      BY <2>1
  <1>5. QED
    BY <1>1, <1>2, <1>3, <1>4

LEMMA FamiliesStep ==
  ASSUME TypeOK, TokensExist, FamiliesAreOlder, [Next]_vars
  PROVE  FamiliesAreOlder'
  <1> SUFFICES ASSUME NEW s \in DOMAIN sessions' PROVE sessions'[s].family <= s
    BY DEF FamiliesAreOlder
  <1>1. CASE s \in DOMAIN sessions
    BY <1>1, RowsGrow DEF Grown, FamiliesAreOlder
  <1>2. CASE s \notin DOMAIN sessions
    <2>1. s = Len(sessions) + 1 /\ Len(sessions) \in Nat
      BY <1>2, NewRow, RowIds
    <2>2. ASSUME NEW t \in Tabs, Rotate(t) PROVE sessions[request[t].token].family <= s
      <3> DEFINE r == request[t].token
      <3>1. r \in DOMAIN sessions
        BY <2>2, RotatedRows
      <3>2. r \in 1 .. Len(sessions) /\ sessions[r].family \in Nat
        BY <3>1, RowIds DEF Session, Ids
      <3>3. sessions[r].family <= r
        BY <3>1 DEF FamiliesAreOlder
      <3> HIDE DEF r
      <3>4. sessions[r].family <= s
        BY <2>1, <3>2, <3>3
      <3>5. QED
        BY <3>4 DEF r
    <2>3. QED
      BY <1>2, <2>1, <2>2, NewRow
  <1>3. QED
    BY <1>1, <1>2

\* The holder of a row is the only one, and nobody else kills it.
LEMMA HolderStep ==
  ASSUME TypeOK, TokensExist, OneHolder, [Next]_vars
  PROVE  OneHolder'
  <1>k. ASSUME NEW t \in Tabs, NEW s, Holds(t, s)'
        PROVE  (Holds(t, s) /\ request'[t] = request[t]) \/ (RowFree(s) /\ OnlyTab(t))
    <2>1. CASE request'[t] = request[t]
      BY <1>k, <2>1 DEF Holds
    <2>2. CASE Locks(t) \/ Suspects(t)
      BY <1>k, <2>2 DEF Locks, Suspects, Arrives, Holds
    <2>3. CASE Quiets(t) \/ Sends(t) \/ Gains(t)
      BY <1>k, <2>3 DEF Quiets, Quiet, Sends, Gains, Holds, Refreshing, Telling
    <2>4. QED
      BY <2>1, <2>2, <2>3, RequestSteps DEF Quiets, Sends, Locks, Suspects, Gains, OnlyTab
  <1>1. ASSUME NEW t \in Tabs, NEW u \in Tabs, NEW s \in DOMAIN sessions', Holds(t, s)', Holds(u, s)' PROVE t = u
    <2>1. SUFFICES ASSUME t # u PROVE FALSE
      OBVIOUS
    <2>2. s \in DOMAIN sessions
      <3>1. TokenExists(request[t])
        BY DEF TokensExist
      <3>2. request'[t] = request[t] => s \in DOMAIN sessions
        BY <1>1, <3>1 DEF Holds, TokenExists
      <3>3. Locks(t) \/ Suspects(t) => s \in DOMAIN sessions
        BY <1>1, <3>1 DEF Holds, TokenExists, Locks, Suspects, Arrives
      <3>4. ~(Quiets(t) \/ Sends(t) \/ Gains(t))
        BY <1>1 DEF Quiets, Quiet, Sends, Gains, Holds, Refreshing, Telling
      <3>5. QED
        BY <3>2, <3>3, <3>4, RequestSteps DEF Quiets, Sends, Locks, Suspects, Gains, OnlyTab
    <2>3. CASE Holds(t, s) /\ Holds(u, s)
      BY <2>1, <2>2, <2>3 DEF OneHolder
    <2>4. CASE RowFree(s) /\ OnlyTab(t)
      BY <1>1, <2>1, <2>4 DEF RowFree, OnlyTab, Holds
    <2>5. CASE RowFree(s) /\ OnlyTab(u)
      BY <1>1, <2>1, <2>5 DEF RowFree, OnlyTab, Holds
    <2>6. QED
      BY <1>1, <1>k, <2>3, <2>4, <2>5
  <1>2. ASSUME NEW t \in Tabs, request'[t].at = "locked" PROVE Live(request[t].token)'
    <2>1. CASE Locks(t)
      BY <2>1 DEF Locks, Live
    <2>2. CASE request'[t] = request[t]
      <3> PICK s : s = request[t].token
        OBVIOUS
      <3>1. request[t].op \in Refreshing /\ s \in DOMAIN sessions /\ request[t].at = "locked"
        BY <1>2, <2>2 DEF TokensExist, TokenExists
      <3>2. Live(s) /\ Holds(t, s)
        BY <3>1 DEF OneHolder, Holds
      <3>3. ASSUME NEW u \in Tabs, Rotate(u) PROVE request[u].token # s
        <4>1. u # t
          BY <1>2, <2>2, <3>3, Answered DEF Rotate
        <4>2. Holds(u, request[u].token)
          BY <3>3 DEF Rotate, Holds, TokensExist, TokenExists
        <4>3. QED
          BY <3>1, <3>2, <4>1, <4>2 DEF OneHolder
      <3>4. ASSUME NEW u \in Tabs, RevokeReused(u) \/ LogoutEnd(u) \/ ChangePasswordEnd(u) PROVE s \notin request[u].seen
        <4>1. Unlocked(request[u].seen, u)
          BY <3>4 DEF RevokeReused, LogoutEnd, ChangePasswordEnd
        <4>2. u # t
          BY <3>1, <3>4 DEF RevokeReused, LogoutEnd, ChangePasswordEnd
        <4>3. QED
          BY <3>2, <4>1, <4>2 DEF Unlocked
      <3>5. UpdateUserEnd => s \notin admin.seen
        BY <3>2 DEF UpdateUserEnd, RowFree
      <3>6. Live(s)'
        BY <3>1, <3>2, <3>3, <3>4, <3>5, Killed
      <3>7. QED
        BY <2>2, <3>6 DEF Live
    <2>3. CASE Quiets(t) \/ Sends(t) \/ Suspects(t) \/ Gains(t)
      BY <1>2, <2>3 DEF Quiets, Quiet, Sends, Suspects, Gains
    <2>4. QED
      BY <2>1, <2>2, <2>3, RequestSteps DEF Quiets, Sends, Locks, Suspects, Gains, OnlyTab
  <1>3. QED
    BY <1>1, <1>2 DEF OneHolder

\* A token that an answer brings has no other keeper until it is received.
LEMMA KeeperStep ==
  ASSUME TypeOK, TokensExist, OneKeeper, [Next]_vars
  PROVE  OneKeeper'
  <1> DEFINE Brings(t) == request[t].at = "answered" /\ request[t].cookies = "set"
             Shared(t, b) == request[t].token = jar[b].refresh /\ jar[b].refresh # NoToken
  <1>i. NoToken \notin DOMAIN sessions /\ Len(sessions) + 1 \notin DOMAIN sessions /\ Len(sessions) + 1 # NoToken
    BY RowIds DEF NoToken, Ids
  <1>e. \A t \in Tabs : TokenExists(request[t]) /\ browser[t] \in Browsers
    BY SessionsAssumption DEF TokensExist
  <1>r. \A t \in Tabs : Brings(t) => request[t].token # NoToken
    BY <1>e DEF TokenExists
  <1>1. ASSUME NEW t \in Tabs, Takes(t) PROVE OneKeeper'
    <2> DEFINE s == request[t].token
    <2>1. s # NoToken /\ Brings(t)
      BY <1>1, <1>r DEF Takes, Receive
    <2>2. (\A b \in Browsers : jar[b].refresh # s) /\ (\A u \in Tabs \ {t} : request[u].token # s)
      BY <2>1 DEF OneKeeper
    <2>3. OnlyTab(t) /\ request'[t].token = NoToken /\ request'[t].at = "none"
      <3>1. request' = [request EXCEPT ![t] = None] /\ None.token = NoToken /\ None.at = "none"
        BY <1>1 DEF Takes, Receive, None
      <3>2. QED
        BY <3>1, Became
    <2>4. jar'[browser[t]].refresh = s /\ \A b \in Browsers \ {browser[t]} : jar'[b] = jar[b]
      BY <1>1 DEF Takes
    <2> HIDE DEF s
    <2>5. ASSUME NEW b \in Browsers, NEW c \in Browsers, jar'[b].refresh = jar'[c].refresh, jar'[b].refresh # NoToken
          PROVE  b = c
      BY <2>2, <2>4, <2>5 DEF OneKeeper
    <2>6. ASSUME NEW u \in Tabs, NEW b \in Browsers, Shared(u, b)' PROVE browser[u] = b
      <3>1. u # t /\ request'[u] = request[u]
        BY <2>3, <2>6 DEF OnlyTab
      <3>2. b # browser[t]
        BY <2>2, <2>4, <2>6, <3>1
      <3>3. QED
        BY <2>4, <2>6, <3>1, <3>2 DEF OneKeeper
    <2>7. ASSUME NEW u \in Tabs, Brings(u)'
          PROVE  /\ \A b \in Browsers : jar'[b].refresh # request'[u].token
                 /\ \A v \in Tabs \ {u} : request'[v].token # request'[u].token
      <3>1. u # t /\ request'[u] = request[u]
        BY <2>3, <2>7 DEF OnlyTab
      <3>2. Brings(u) /\ request[u].token # NoToken
        BY <1>r, <2>7, <3>1
      <3>3. \A b \in Browsers : jar'[b].refresh # request[u].token
        BY <2>2, <2>4, <3>1, <3>2 DEF OneKeeper
      <3>4. \A v \in Tabs \ {u} : request'[v].token # request[u].token
        BY <2>3, <3>2 DEF OneKeeper, OnlyTab
      <3>5. QED
        BY <3>1, <3>3, <3>4
    <2>8. QED
      BY <2>5, <2>6, <2>7 DEF OneKeeper
  <1>2. CASE \A b \in Browsers : jar'[b].refresh \in {jar[b].refresh, NoToken}
    <2>1. \A b, c \in Browsers : jar'[b].refresh = jar'[c].refresh /\ jar'[b].refresh # NoToken => b = c
      BY <1>2 DEF OneKeeper
    <2>2. ASSUME NEW u \in Tabs, NEW b \in Browsers, Shared(u, b)' PROVE browser[u] = b
      <3>1. jar'[b].refresh = jar[b].refresh /\ jar[b].refresh \in DOMAIN sessions
        BY <1>2, <2>2 DEF TokensExist
      <3>2. CASE request'[u].token = request[u].token
        BY <2>2, <3>1, <3>2 DEF OneKeeper
      <3>3. CASE Sends(u)
        BY <1>e, <2>2, <3>1, <3>3 DEF Sends, OneKeeper
      <3>4. CASE Quiets(u) \/ Gains(u)
        BY <1>i, <2>2, <3>1, <3>4 DEF Quiets, Quiet, Gains
      <3>5. QED
        BY <3>2, <3>3, <3>4, RequestSteps DEF Quiets, Sends, Locks, Suspects, Gains, OnlyTab
    <2>3. ASSUME NEW u \in Tabs, Brings(u)'
          PROVE  /\ \A b \in Browsers : jar'[b].refresh # request'[u].token
                 /\ \A v \in Tabs \ {u} : request'[v].token # request'[u].token
      <3>1. CASE request'[u] = request[u]
        <4>1. Brings(u) /\ request[u].token # NoToken /\ request[u].token \in DOMAIN sessions
          BY <1>e, <1>r, <2>3, <3>1 DEF TokenExists
        <4>2. \A b \in Browsers : jar'[b].refresh # request[u].token
          BY <1>2, <4>1 DEF OneKeeper
        <4>3. ASSUME NEW v \in Tabs \ {u} PROVE request'[v].token # request[u].token
          <5>1. CASE request'[v].token = request[v].token
            BY <4>1, <5>1 DEF OneKeeper
          <5>2. CASE Sends(v)
            BY <1>e, <4>1, <5>2 DEF Sends, OneKeeper
          <5>3. CASE Quiets(v) \/ Gains(v)
            BY <1>i, <4>1, <5>3 DEF Quiets, Quiet, Gains
          <5>4. QED
            BY <5>1, <5>2, <5>3, RequestSteps DEF Quiets, Sends, Locks, Suspects, Gains, OnlyTab
        <4>4. QED
          BY <3>1, <4>2, <4>3
      <3>2. CASE Gains(u)
        <4>1. \A b \in Browsers : jar[b].refresh # Len(sessions) + 1
          BY <1>i DEF TokensExist
        <4>2. \A v \in Tabs : request[v].token # Len(sessions) + 1
          BY <1>i, <1>e DEF TokenExists
        <4>3. QED
          BY <1>2, <1>i, <3>2, <4>1, <4>2 DEF Gains, OnlyTab
      <3>3. CASE Quiets(u) \/ Sends(u) \/ Locks(u) \/ Suspects(u)
        BY <2>3, <3>3 DEF Quiets, Quiet, Sends, Locks, Suspects
      <3>4. QED
        BY <3>1, <3>2, <3>3, RequestSteps DEF Quiets, Sends, Locks, Suspects, Gains, OnlyTab
    <2>4. QED
      BY <2>1, <2>2, <2>3 DEF OneKeeper
  <1>3. QED
    BY <1>1, <1>2, JarSteps

-----------------------------------------------------------------------------
(* Live tokens.                                                            *)

LEMMA LiveStays ==
  ASSUME TypeOK, TokensExist, [Next]_vars, NEW s \in DOMAIN sessions, Live(s)'
  PROVE  Live(s)
  <1>1. Grown(s)
    BY RowsGrow
  <1>2. sessions'[s].used = "no" /\ sessions'[s].revoked = "no"
    BY DEF Live
  <1>3. QED
    BY <1>1, <1>2 DEF Grown, Live

\* A rotation uses up the token it replaces.
LEMMA RotationReplaces ==
  ASSUME TypeOK, TokensExist, OneHolder, NEW t \in Tabs, Rotate(t)
  PROVE  LET s == request[t].token IN s \in DOMAIN sessions /\ Live(s) /\ sessions'[s].used # "no"
  <1> DEFINE s == request[t].token
  <1>1. s \in DOMAIN sessions /\ sessions'[s] = [sessions[s] EXCEPT !.used = "fresh"]
    BY RotatedRows
  <1>2. sessions[s] \in Session
    BY <1>1, RowIds
  <1>3. Live(s)
    BY DEF OneHolder, Rotate
  <1> HIDE DEF s
  <1>4. sessions'[s].used = "fresh"
    BY <1>1, <1>2 DEF Session
  <1>5. QED
    BY <1>1, <1>3, <1>4 DEF s

LEMMA OneLiveStep ==
  ASSUME TypeOK, TokensExist, FamiliesAreOlder, OneHolder, OneLiveToken, [Next]_vars
  PROVE  OneLiveToken'
  <1>n. \A s \in DOMAIN sessions : s <= Len(sessions) /\ s \in Nat /\ sessions[s].family \in Nat
        /\ sessions[s].family <= s /\ Len(sessions) \in Nat
    BY RowIds DEF FamiliesAreOlder, Session, Ids
  <1>1. ASSUME NEW r \in DOMAIN sessions, NEW s \in DOMAIN sessions', s \notin DOMAIN sessions, Live(r)'
        PROVE  sessions'[r].family # sessions'[s].family
    <2>1. Live(r) /\ sessions'[r].family = sessions[r].family /\ sessions'[r].used = "no"
      BY <1>1, LiveStays, RowsGrow DEF Grown, Live
    <2>2. s = Len(sessions) + 1
      BY <1>1, NewRow
    <2>3. CASE sessions'[s].family = s
      BY <1>n, <2>1, <2>2, <2>3
    <2>4. ASSUME NEW t \in Tabs, Rotate(t), sessions'[s].family = sessions[request[t].token].family
          PROVE  sessions'[r].family # sessions'[s].family
      <3> PICK q : q = request[t].token
        OBVIOUS
      <3>1. q \in DOMAIN sessions /\ Live(q) /\ sessions'[q].used # "no"
        BY <2>4, RotationReplaces
      <3>2. r # q
        BY <2>1, <3>1
      <3>3. sessions[r].family # sessions[q].family
        BY <2>1, <3>1, <3>2 DEF OneLiveToken
      <3>4. QED
        BY <2>1, <2>4, <3>3
    <2>5. QED
      BY <1>1, <2>3, <2>4, NewRow
  <1>2. ASSUME NEW r \in DOMAIN sessions', NEW s \in DOMAIN sessions', Live(r)', Live(s)',
               sessions'[r].family = sessions'[s].family
        PROVE  r = s
    <2>1. CASE r \in DOMAIN sessions /\ s \in DOMAIN sessions
      BY <1>2, <2>1, LiveStays, RowsGrow DEF Grown, OneLiveToken
    <2>2. CASE r \notin DOMAIN sessions /\ s \notin DOMAIN sessions
      BY <2>2, NewRow
    <2>3. QED
      BY <1>1, <1>2, <2>1, <2>2
  <1>3. QED
    BY <1>2 DEF OneLiveToken

LEMMA RevocationStep ==
  ASSUME TypeOK, TokensExist, OneUpdate, UpdateSeesAll, OneHolder, RevocationIsComplete, [Next]_vars
  PROVE  RevocationIsComplete'
  <1>1. ASSUME NEW seen, Revokes(seen, "told"), Unrevoked \subseteq seen, NEW s \in DOMAIN sessions'
        PROVE  ~Live(s)'
    <2>1. s \in DOMAIN sessions
          /\ sessions'[s] = IF s \in seen /\ sessions[s].revoked = "no"
                            THEN [sessions[s] EXCEPT !.revoked = "told"] ELSE sessions[s]
      BY <1>1, RevokedRows DEF Revokes, TypeOK
    <2>2. sessions[s] \in Session
      BY <2>1, RowIds
    <2>3. sessions'[s].revoked # "no"
      BY <1>1, <2>1, <2>2 DEF Unrevoked, Session
    <2>4. QED
      BY <2>3 DEF Live
  <1>2. ASSUME NEW t \in Tabs, ChangePasswordEnd(t) PROVE RevocationIsComplete'
    <2>1. Changing(t)
      BY <1>2 DEF ChangePasswordEnd, Changing
    <2>2. Unrevoked \subseteq request[t].seen
      BY <2>1 DEF UpdateSeesAll
    <2>3. Revokes(request[t].seen, "told")
      BY <1>2, RevokedSteps
    <2>4. QED
      BY <1>1, <2>2, <2>3 DEF RevocationIsComplete
  <1>3. CASE UpdateUserEnd
    <2>1. Unrevoked \subseteq admin.seen /\ Revokes(admin.seen, "told")
      BY <1>3, RevokedSteps DEF UpdateUserEnd, UpdateSeesAll
    <2>2. QED
      BY <1>1, <2>1 DEF RevocationIsComplete
  <1>4. CASE user'.era = user.era
    <2> SUFFICES ASSUME NEW s \in DOMAIN sessions', Live(s)' PROVE sessions'[s].era = user.era \/ sessions'[s].late
      BY <1>4 DEF RevocationIsComplete
    <2>1. CASE s \in DOMAIN sessions
      BY <2>1, LiveStays, RowsGrow DEF Grown, RevocationIsComplete
    <2>2. CASE s \notin DOMAIN sessions
      <3>1. ASSUME NEW t \in Tabs, Rotate(t)
            PROVE  sessions[request[t].token].era = user.era \/ sessions[request[t].token].late
        BY <3>1, RotationReplaces DEF RevocationIsComplete
      <3>2. QED
        BY <2>2, <3>1, NewRow
    <2>3. QED
      BY <2>1, <2>2
  <1>5. QED
    BY <1>2, <1>3, <1>4, AccountSteps DEF ChangePassword, Disable, ResetPassword, BreakDeadlock

\* A step of one tab leaves the requests of the others alone.
LEMMA OthersStand ==
  ASSUME TypeOK, NEW t \in Tabs, NEW u \in Tabs \ {t}, Tab(u) \/ Serve(u)
  PROVE  request'[t] = request[t]
  <1>1. ASSUME NEW q, request' = [request EXCEPT ![u] = q] PROVE request'[t] = request[t]
    BY <1>1 DEF TypeOK
  <1>2. CASE Login(u) \/ Call(u) \/ KeepAlive(u) \/ DoRefresh(u) \/ Reload(u)
    BY <1>1, <1>2 DEF Login, Call, KeepAlive, DoRefresh, Reload, Wait, Send
  <1>3. CASE Logout(u) \/ ChangePassword(u) \/ Receive(u) \/ Lose(u)
    BY <1>1, <1>3 DEF Logout, ChangePassword, Receive, Lose
  <1>4. CASE LoginInsert(u) \/ Rotate(u) \/ RevokeReused(u) \/ LogoutEnd(u) \/ ChangePasswordEnd(u) \/ Fails(u)
    BY <1>1, <1>4 DEF LoginInsert, Rotate, RevokeReused, LogoutEnd, ChangePasswordEnd, Fails, Answer
  <1>5. CASE Refresh(u)
    BY <1>5 DEF Refresh, Answer, TypeOK
  <1>6. QED
    BY <1>2, <1>3, <1>4, <1>5 DEF Tab, Serve

\* Only the end of an administrator's update disables an account.
LEMMA StatusSteps ==
  ASSUME TypeOK, [Next]_vars, ~UpdateUserEnd, user.status = "active"
  PROVE  user'.status = "active"
  <1>1. ASSUME NEW t \in Tabs, Tab(t) PROVE user' = user
    BY <1>1 DEF Tab, Login, Call, KeepAlive, DoRefresh, Reload, Logout, ChangePassword, Receive, Lose
  <1>2. ASSUME NEW t \in Tabs, Serve(t), ~ChangePasswordEnd(t) PROVE user' = user
    BY <1>2 DEF Serve, LoginInsert, Refresh, Rotate, RevokeReused, LogoutEnd, Fails
  <1>3. ASSUME NEW t \in Tabs, ChangePasswordEnd(t) PROVE user'.status = user.status
    BY <1>3 DEF ChangePasswordEnd, TypeOK
  <1>4. CASE Disable \/ ResetPassword \/ BreakDeadlock \/ GraceEnds \/ AccessExpires
    BY <1>4 DEF Disable, ResetPassword, BreakDeadlock, GraceEnds, AccessExpires
  <1>5. CASE Enable
    BY <1>5 DEF Enable, TypeOK
  <1>6. CASE UNCHANGED vars
    BY <1>6 DEF vars
  <1>7. QED
    BY <1>1, <1>2, <1>3, <1>4, <1>5, <1>6 DEF Next

\* A request becomes a logout's, or a refresh's that was let in, in one way.
LEMMA RequestOrigins ==
  ASSUME TypeOK, TokensExist, [Next]_vars, NEW t \in Tabs
  PROVE  \/ request'[t] = request[t]
         \/ Logout(t)
         \/ /\ request'[t].op = "logout" => request'[t].seen = {}
            /\ request'[t].at = "locked" => user.status = "active" /\ user' = user
  <1> DEFINE Plain(q) == q.op # "logout" /\ q.at # "locked"
  <1>n. /\ Plain(None)
        /\ Plain([None EXCEPT !.op = "login", !.at = "verified", !.era = user.era])
        /\ \A op \in Refreshing : Plain([None EXCEPT !.op = op, !.at = "waiting"])
        /\ \A op \in Refreshing : \A s : Plain([None EXCEPT !.op = op, !.at = "sent", !.token = s])
        /\ \A seen : Plain([None EXCEPT !.op = "password", !.at = "revoking", !.seen = seen])
    BY DEF None, Refreshing
  <1>b. ASSUME NEW q, Plain(q), request' = [request EXCEPT ![t] = q]
        PROVE  request'[t].op # "logout" /\ request'[t].at # "locked"
    BY <1>b, Became
  <1> HIDE DEF Plain
  <1>0. CASE UNCHANGED request
    BY <1>0
  <1>1. ASSUME NEW u \in Tabs \ {t}, OnlyTab(u) PROVE request'[t] = request[t]
    BY <1>1 DEF OnlyTab
  <1>2. CASE Login(t)
    BY <1>2, <1>n, <1>b DEF Login
  <1>3. CASE Call(t) \/ KeepAlive(t)
    BY <1>3, <1>n, <1>b DEF Call, KeepAlive, Wait, Refreshing
  <1>4. CASE DoRefresh(t)
    <2>1. request[t].op \in Refreshing
      BY <1>4 DEF DoRefresh, TokensExist, TokenExists
    <2>2. QED
      BY <1>4, <2>1, <1>n, <1>b DEF DoRefresh, Send
  <1>5. CASE Reload(t)
    BY <1>5, <1>n, <1>b DEF Reload, Send, Refreshing
  <1>6. CASE ChangePassword(t)
    BY <1>6, <1>n, <1>b DEF ChangePassword
  <1>7. CASE Receive(t) \/ Lose(t)
    BY <1>7, <1>n, <1>b DEF Receive, Lose
  <1>a. ASSUME NEW cookies, NEW token, Answer(t, cookies, token)
        PROVE  request'[t].seen = {} /\ request'[t].at # "locked"
    BY <1>a, Answered
  <1>8. CASE LoginInsert(t) \/ Rotate(t) \/ RevokeReused(t) \/ LogoutEnd(t) \/ ChangePasswordEnd(t) \/ Fails(t)
    BY <1>8, <1>a DEF LoginInsert, Rotate, RevokeReused, LogoutEnd, ChangePasswordEnd, Fails
  <1>9. CASE Refresh(t)
    <2> DEFINE s == request[t].token
    <2>0. request[t] \in Request /\ request[t].op \in Refreshing /\ user' = user
      BY <1>9 DEF TypeOK, Refresh, Arrives
    <2>1. CASE Answer(t, "kept", NoToken) \/ Answer(t, "cleared", NoToken)
      BY <2>1, <1>a
    <2>2. CASE request' = [request EXCEPT ![t].at = "revoking", ![t].seen = Kin(s) \cap Unrevoked]
      <3> DEFINE q == [request[t] EXCEPT !.at = "revoking", !.seen = Kin(s) \cap Unrevoked]
      <3>1. Plain(q)
        BY <2>0 DEF Request, Refreshing, Plain
      <3>2. request' = [request EXCEPT ![t] = q]
        BY <2>2
      <3> HIDE DEF q
      <3>3. QED
        BY <3>1, <3>2, <1>b
    <2>3. CASE user.status = "active" /\ request' = [request EXCEPT ![t].at = "locked"]
      <3> DEFINE q == [request[t] EXCEPT !.at = "locked"]
      <3>1. q.op # "logout"
        BY <2>0 DEF Request, Refreshing
      <3>2. request' = [request EXCEPT ![t] = q]
        BY <2>3
      <3> HIDE DEF q
      <3>3. request'[t].op # "logout"
        BY <3>1, <3>2, Became
      <3>4. QED
        BY <2>0, <2>3, <3>3
    <2>4. QED
      BY <1>9, <2>1, <2>2, <2>3 DEF Refresh
  <1>10. CASE Disable \/ ResetPassword \/ UpdateUserEnd \/ Enable \/ BreakDeadlock \/ GraceEnds \/ AccessExpires
    BY <1>0, <1>10 DEF Disable, ResetPassword, UpdateUserEnd, Enable, BreakDeadlock, GraceEnds, AccessExpires
  <1>11. ASSUME NEW u \in Tabs \ {t}, Tab(u) \/ Serve(u) PROVE request'[t] = request[t]
    BY <1>11, OthersStand
  <1>12. CASE UNCHANGED vars
    BY <1>0, <1>12 DEF vars
  <1>13. CASE Tab(t) \/ Serve(t)
    BY <1>2, <1>3, <1>4, <1>5, <1>6, <1>7, <1>8, <1>9, <1>13 DEF Tab, Serve
  <1>14. QED
    BY <1>10, <1>11, <1>12, <1>13 DEF Next

\* An account update leaves no row alive.
LEMMA UpdateEndsAll ==
  ASSUME TypeOK, TokensExist, UpdateSeesAll,
         UpdateUserEnd \/ \E t \in Tabs : ChangePasswordEnd(t)
  PROVE  DOMAIN sessions' = DOMAIN sessions /\ \A s \in DOMAIN sessions' : ~Live(s)'
  <1>1. PICK seen : Revokes(seen, "told") /\ Unrevoked \subseteq seen
    <2>1. CASE UpdateUserEnd
      BY <2>1, RevokedSteps DEF UpdateUserEnd, UpdateSeesAll
    <2>2. ASSUME NEW t \in Tabs, ChangePasswordEnd(t)
          PROVE  Revokes(request[t].seen, "told") /\ Unrevoked \subseteq request[t].seen
      BY <2>2, RevokedSteps DEF ChangePasswordEnd, Changing, UpdateSeesAll
    <2>3. QED
      BY <2>1, <2>2
  <1>2. /\ DOMAIN sessions' = DOMAIN sessions
        /\ \A s \in DOMAIN sessions :
             sessions'[s] = IF s \in seen /\ sessions[s].revoked = "no"
                            THEN [sessions[s] EXCEPT !.revoked = "told"] ELSE sessions[s]
    BY <1>1, RevokedRows DEF Revokes, TypeOK
  <1>3. \A s \in DOMAIN sessions : sessions[s] \in Session
    BY RowIds
  <1>4. \A s \in DOMAIN sessions : sessions'[s].revoked # "no"
    BY <1>1, <1>2, <1>3 DEF Unrevoked, Session
  <1>5. QED
    BY <1>2, <1>4 DEF Live

\* While a refresh that was let in holds its row, the account is not disabled.
LEMMA LockedStep ==
  ASSUME TypeOK, TokensExist, UpdateSeesAll, OneHolder, LockedIsActive, [Next]_vars
  PROVE  LockedIsActive'
  <1> SUFFICES ASSUME NEW t \in Tabs, request'[t].at = "locked" PROVE user'.status = "active"
    BY DEF LockedIsActive
  <1>1. CASE user.status = "active" /\ user' = user
    BY <1>1
  <1>2. CASE request'[t] = request[t]
    <2>1. user.status = "active"
      BY <1>2 DEF LockedIsActive
    <2>2. CASE UpdateUserEnd
      <3>1. OneHolder' /\ TokensExist'
        BY HolderStep, TokensStep
      <3>2. Live(request[t].token)' /\ request'[t].token \in DOMAIN sessions'
        BY <3>1 DEF OneHolder, TokensExist, TokenExists
      <3>3. PICK s : s = request'[t].token
        OBVIOUS
      <3>4. Live(s)' /\ s \in DOMAIN sessions'
        BY <3>2, <3>3 DEF Live
      <3>5. QED
        BY <2>2, <3>4, UpdateEndsAll
    <2>3. CASE ~UpdateUserEnd
      BY <2>1, <2>3, StatusSteps
    <2>4. QED
      BY <2>2, <2>3
  <1>3. CASE Logout(t)
    <2> DEFINE q(seen) == [None EXCEPT !.op = "logout", !.at = "revoking", !.seen = seen]
    <2>1. \A seen : q(seen).at = "revoking"
      BY DEF None
    <2>2. \E seen : request' = [request EXCEPT ![t] = q(seen)]
      BY <1>3 DEF Logout
    <2> HIDE DEF q
    <2>3. QED
      BY <2>1, <2>2, Became
  <1>4. QED
    BY <1>1, <1>2, <1>3, RequestOrigins

\* What a logout will revoke is of one family, and stays so.
LEMMA LogoutsEndOneStep ==
  ASSUME TypeOK, TokensExist, LogoutsEndOne, [Next]_vars
  PROVE  LogoutsEndOne'
  <1> SUFFICES ASSUME NEW t \in Tabs, request'[t].op = "logout",
                      NEW r \in request'[t].seen, NEW s \in request'[t].seen
               PROVE  r \in DOMAIN sessions' /\ sessions'[r].family = sessions'[s].family
    BY DEF LogoutsEndOne
  <1>1. CASE request'[t] = request[t]
    BY <1>1, RowsGrow DEF LogoutsEndOne, Grown
  <1>2. CASE Logout(t)
    <2> DEFINE seen == IF jar[browser[t]].refresh = NoToken THEN {} ELSE Kin(jar[browser[t]].refresh) \cap Unrevoked
               q == [None EXCEPT !.op = "logout", !.at = "revoking", !.seen = seen]
    <2>1. q.seen = seen
      BY DEF None
    <2>2. request' = [request EXCEPT ![t] = q] /\ sessions' = sessions
      BY <1>2 DEF Logout
    <2> HIDE DEF q
    <2>3. request'[t].seen = seen
      BY <2>1, <2>2, Became
    <2>4. QED
      BY <2>2, <2>3 DEF Kin
  <1>3. QED
    BY <1>1, <1>2, RequestOrigins

\* A family without a live token stays so.
LEMMA DeadStep ==
  ASSUME TypeOK, TokensExist, FamiliesAreOlder, OneHolder, [Next]_vars,
         NEW s \in DOMAIN sessions, \A r \in Kin(s) : ~Live(r)
  PROVE  \A r \in Kin(s)' : ~Live(r)'
  <1> SUFFICES ASSUME NEW r \in Kin(s)', Live(r)' PROVE FALSE
    OBVIOUS
  <1>0. r \in DOMAIN sessions' /\ sessions'[r].family = sessions[s].family
    BY RowsGrow DEF Grown, Kin
  <1>1. CASE r \in DOMAIN sessions
    BY <1>1, LiveStays, KinGrows
  <1>2. CASE r \notin DOMAIN sessions
    <2>1. r = Len(sessions) + 1
      BY <1>0, <1>2, NewRow
    <2>2. sessions'[r].family # r
      BY <1>0, <2>1, RowIds DEF FamiliesAreOlder, Session, Ids
    <2>3. PICK t \in Tabs : Rotate(t) /\ sessions'[r].family = sessions[request[t].token].family
      BY <1>0, <1>2, <2>2, NewRow
    <2>4. request[t].token \in DOMAIN sessions /\ Live(request[t].token)
      BY <2>3, RotationReplaces
    <2>5. request[t].token \in Kin(s)
      BY <1>0, <2>3, <2>4 DEF Kin
    <2>6. QED
      BY <2>4, <2>5
  <1>3. QED
    BY <1>1, <1>2

-----------------------------------------------------------------------------
(* Sessions that are kept.                                                 *)

LEMMA LossSteps ==
  ASSUME TypeOK, [Next]_vars, losses' = 0
  PROVE  losses = 0 /\ \A t \in Tabs : ~Lose(t)
  <1>l. losses \in Nat
    BY SessionsAssumption DEF TypeOK
  <1>1. ASSUME NEW t \in Tabs, Lose(t) PROVE FALSE
    <2>1. losses' = losses + 1
      BY <1>1 DEF Lose
    <2>2. QED
      BY <1>l, <2>1
  <1>2. ASSUME UNCHANGED vars PROVE losses' = losses
    BY <1>2 DEF vars
  <1>3. ASSUME NEW t \in Tabs, Tab(t), ~Lose(t) PROVE losses' = losses
    BY <1>3 DEF Tab, Login, Call, KeepAlive, DoRefresh, Reload, Logout, ChangePassword, Receive
  <1>4. ASSUME NEW t \in Tabs, Serve(t) PROVE losses' = losses
    BY <1>4 DEF Serve, LoginInsert, Refresh, Rotate, RevokeReused, LogoutEnd, ChangePasswordEnd, Fails
  <1>5. ASSUME Disable \/ ResetPassword \/ UpdateUserEnd \/ Enable \/ BreakDeadlock PROVE losses' = losses
    BY <1>5 DEF Disable, ResetPassword, UpdateUserEnd, Enable, BreakDeadlock
  <1>6. ASSUME GraceEnds \/ AccessExpires PROVE losses' = losses
    BY <1>6 DEF GraceEnds, AccessExpires
  <1>7. losses' = losses
    BY <1>1, <1>2, <1>3, <1>4, <1>5, <1>6 DEF Next
  <1>8. QED
    BY <1>1, <1>7

\* An answer waits for its browser.
LEMMA AnswerSteps ==
  ASSUME TypeOK, [Next]_vars, NEW t \in Tabs, request[t].at = "answered", request'[t] # request[t]
  PROVE  Receive(t) \/ Lose(t)
  <1>n. None.at = "none"
    BY DEF None
  <1>1. ASSUME NEW u \in Tabs, NEW q, request' = [request EXCEPT ![u] = q] PROVE u = t
    BY <1>1, Became DEF OnlyTab
  <1>2. ASSUME NEW u \in Tabs, NEW c, NEW k, Answer(u, c, k) PROVE u = t
    BY <1>2, Answered DEF OnlyTab
  <1>3. ASSUME NEW u \in Tabs, Login(u) \/ Call(u) \/ KeepAlive(u) PROVE FALSE
    BY <1>1, <1>3, <1>n DEF Login, Call, KeepAlive, Wait
  <1>4. ASSUME NEW u \in Tabs, DoRefresh(u) PROVE FALSE
    BY <1>1, <1>4 DEF DoRefresh, Send
  <1>5. ASSUME NEW u \in Tabs, Reload(u) PROVE FALSE
    BY <1>1, <1>5, <1>n DEF Reload, Send
  <1>6. ASSUME NEW u \in Tabs, Logout(u) \/ ChangePassword(u) PROVE FALSE
    BY <1>1, <1>6, <1>n DEF Logout, ChangePassword
  <1>7. ASSUME NEW u \in Tabs, Receive(u) \/ Lose(u) PROVE u = t
    BY <1>1, <1>7 DEF Receive, Lose
  <1>8. ASSUME NEW u \in Tabs, LoginInsert(u) \/ Rotate(u) \/ RevokeReused(u) \/ LogoutEnd(u)
                              \/ ChangePasswordEnd(u) \/ Fails(u)
        PROVE  FALSE
    BY <1>2, <1>8 DEF LoginInsert, Rotate, RevokeReused, LogoutEnd, ChangePasswordEnd, Fails
  <1>9. ASSUME NEW u \in Tabs, Refresh(u) PROVE FALSE
    <2>1. request[u].at = "sent"
      BY <1>9 DEF Refresh, Arrives
    <2>2. CASE \E c, k : Answer(u, c, k)
      BY <1>2, <2>1, <2>2
    <2>3. CASE \E q : request' = [request EXCEPT ![u] = q]
      BY <1>1, <2>1, <2>3
    <2>4. QED
      BY <1>9, <2>2, <2>3 DEF Refresh
  <1>10. ~(Disable \/ ResetPassword \/ UpdateUserEnd \/ Enable \/ BreakDeadlock \/ GraceEnds \/ AccessExpires)
    BY DEF Disable, ResetPassword, UpdateUserEnd, Enable, BreakDeadlock, GraceEnds, AccessExpires
  <1>11. ~UNCHANGED vars
    BY DEF vars
  <1>12. QED
    BY <1>3, <1>4, <1>5, <1>6, <1>7, <1>8, <1>9, <1>10, <1>11 DEF Next, Tab, Serve

LEMMA ToldKin ==
  ASSUME NEW r \in DOMAIN sessions, NEW s \in Kin(r)
  PROVE  (Told(r) <=> Told(s)) /\ Kin(r) = Kin(s)
  BY DEF Told, Kin

\* While no answer was lost, whatever revokes a row had its family told.
LEMMA RevokedIsTold ==
  ASSUME TypeOK, TokensExist, NoFalseReuse, losses = 0, [Next]_vars,
         NEW s \in DOMAIN sessions, sessions[s].revoked = "no",
         \/ \E t \in Tabs : (RevokeReused(t) \/ LogoutEnd(t) \/ ChangePasswordEnd(t)) /\ s \in request[t].seen
         \/ UpdateUserEnd /\ s \in admin.seen
  PROVE  Told(s)'
  <1>1. ASSUME NEW t \in Tabs, RevokeReused(t), s \in request[t].seen PROVE Told(s)'
    <2>1. Told(request[t].token)
      BY <1>1 DEF RevokeReused, NoFalseReuse
    <2>2. request[t].token \in DOMAIN sessions /\ s \in Kin(request[t].token)
      BY <1>1 DEF RevokeReused, TokensExist, TokenExists
    <2>3. QED
      BY <2>1, <2>2, ToldKin, KinGrows
  <1>2. ASSUME NEW seen, Revokes(seen, "told"), s \in seen PROVE Told(s)'
    <2>1. sessions'[s] = [sessions[s] EXCEPT !.revoked = "told"]
      BY <1>2, RevokedRows DEF Revokes, TypeOK
    <2>2. sessions[s] \in Session
      BY RowIds
    <2>3. sessions'[s].revoked = "told"
      BY <2>1, <2>2 DEF Session
    <2>4. QED
      BY <2>3, KinGrows DEF Told
  <1>3. QED
    BY <1>1, <1>2, RevokedSteps

\* A live token that an answer brings is alone with it.
LEMMA BroughtStays ==
  ASSUME TypeOK, TokensExist, OneKeeper, NoFalseReuse, losses = 0, [Next]_vars,
         NEW t \in Tabs, request[t].at = "answered", request[t].cookies = "set", Live(request[t].token)
  PROVE  Told(request[t].token)' \/ Live(request[t].token)' \/ request'[t] # request[t]
  <1> SUFFICES ASSUME request'[t] = request[t] PROVE Told(request[t].token)' \/ Live(request[t].token)'
    OBVIOUS
  <1> PICK s : s = request[t].token
    OBVIOUS
  <1>1. s \in DOMAIN sessions /\ Live(s)
    BY DEF TokensExist, TokenExists
  <1>2. ASSUME NEW u \in Tabs, Rotate(u) PROVE request[u].token # s
    <2>1. u # t
      BY <1>2 DEF Rotate
    <2>2. QED
      BY <2>1 DEF OneKeeper
  <1>3. Live(s)' \/ Told(s)'
    BY <1>1, <1>2, Killed, RevokedIsTold DEF Live
  <1>4. QED
    BY <1>3

LEMMA KeptStep ==
  ASSUME TypeOK, TokensExist, OneHolder, OneKeeper, NoFalseReuse, SessionKept, [Next]_vars
  PROVE  SessionKept'
  <1> DEFINE Brought(t, b, s) ==
        /\ browser[t] = b
        /\ request[t].at = "answered" /\ request[t].cookies = "set"
        /\ request[t].token \in Kin(s) /\ Live(request[t].token)
  <1> SUFFICES ASSUME losses' = 0, NEW b \in Browsers, NEW s, s = jar'[b].refresh, s # NoToken, ~Told(s)'
               PROVE  Live(s)' \/ \E t \in Tabs : Brought(t, b, s)'
    BY DEF SessionKept, Told
  <1>0. losses = 0 /\ \A t \in Tabs : ~Lose(t)
    BY LossSteps
  <1>1. ASSUME NEW t \in Tabs, Takes(t), browser[t] = b PROVE Live(s)'
    <2>1. s = request[t].token /\ request[t].at = "answered" /\ request[t].cookies = "set" /\ sessions' = sessions
      BY <1>1 DEF Takes, Receive
    <2>2. s \in DOMAIN sessions /\ (Told(s) \/ Live(s))
      BY <1>0, <2>1 DEF NoFalseReuse, TokensExist, TokenExists
    <2>3. ~Told(s)
      BY <2>2, KinGrows
    <2>4. QED
      BY <2>1, <2>2, <2>3 DEF Live
  <1>2. CASE jar'[b].refresh = jar[b].refresh
    <2>1. s \in DOMAIN sessions /\ ~Told(s)
      BY <1>2, KinGrows DEF TokensExist
    <2>2. CASE Live(s)
      <3>1. ASSUME NEW t \in Tabs, Rotate(t), request[t].token = s PROVE Brought(t, b, s)'
        <4> PICK n : n = Len(sessions) + 1
          OBVIOUS
        <4>1. browser[t] = b
          BY <1>2, <3>1 DEF OneKeeper
        <4>2. request'[t].at = "answered" /\ request'[t].cookies = "set" /\ request'[t].token = n
          BY <3>1, Answered DEF Rotate
        <4>3. DOMAIN sessions' = 1 .. n /\ Len(sessions) \in Nat
              /\ sessions'[n] = [family |-> sessions[s].family, used |-> "no", revoked |-> "no",
                                 era |-> sessions[s].era, late |-> sessions[s].late]
          BY <3>1, RotatedRows, RowIds
        <4>4. n \in DOMAIN sessions' /\ Live(n)' /\ sessions'[n].family = sessions[s].family
          BY <4>3 DEF Live
        <4>5. n \in Kin(s)'
          BY <2>1, <4>4, RowsGrow DEF Kin, Grown
        <4>6. QED
          BY <4>1, <4>2, <4>4, <4>5
      <3>2. QED
        BY <1>0, <2>1, <2>2, <3>1, Killed, RevokedIsTold DEF Live
    <2>3. ASSUME NEW t \in Tabs, Brought(t, b, s), ~Live(s) PROVE Brought(t, b, s)'
      <3> PICK r : r = request[t].token
        OBVIOUS
      <3>1. r \in Kin(s) /\ Live(r) /\ r \in DOMAIN sessions
        BY <2>3 DEF Kin
      <3>2. request'[t] = request[t]
        <4>1. SUFFICES ASSUME Receive(t) PROVE FALSE
          BY <1>0, <2>3, AnswerSteps
        <4>2. browser[t] \in Browsers /\ jar \in [Browsers -> [access : BOOLEAN, refresh : {NoToken} \cup Ids]]
          BY SessionsAssumption DEF TypeOK
        <4>3. jar' = [jar EXCEPT ![b] = [access |-> TRUE, refresh |-> r]]
          BY <2>3, <4>1 DEF Receive
        <4>4. jar'[b].refresh = r
          BY <2>3, <4>2, <4>3
        <4>5. QED
          BY <2>3, <3>1, <4>4
      <3>3. r \in Kin(s)' /\ Kin(s) = Kin(r)
        BY <2>1, <3>1, KinGrows, ToldKin
      <3>4. Told(r)' \/ Live(r)'
        BY <1>0, <2>3, <3>2, BroughtStays
      <3>5. Told(r)' => Told(s)'
        BY <3>3 DEF Told, Kin
      <3>6. QED
        BY <2>3, <3>2, <3>3, <3>4, <3>5
    <2>4. QED
      BY <1>0, <1>2, <2>1, <2>2, <2>3 DEF SessionKept, Told
  <1>3. QED
    BY <1>1, <1>2, JarSteps DEF Takes

\* A row is revoked by an UPDATE that saw it.
LEMMA RevokedBy ==
  ASSUME TypeOK, TokensExist, [Next]_vars,
         NEW s \in DOMAIN sessions, sessions[s].revoked = "no", sessions'[s].revoked # "no"
  PROVE  \/ \E t \in Tabs : (RevokeReused(t) \/ LogoutEnd(t) \/ ChangePasswordEnd(t)) /\ s \in request[t].seen
         \/ UpdateUserEnd /\ s \in admin.seen
  <1>s. sessions[s] \in Session
    BY RowIds
  <1>1. ~(sessions' = sessions)
    OBVIOUS
  <1>2. ASSUME NEW t \in Tabs, LoginInsert(t) \/ Rotate(t) PROVE FALSE
    <2>1. sessions'[s] = sessions[s] \/ sessions'[s] = [sessions[s] EXCEPT !.used = "fresh"]
      BY <1>2, OpenedRows, RotatedRows
    <2>2. QED
      BY <1>s, <2>1 DEF Session
  <1>3. ASSUME NEW seen, NEW why, Revokes(seen, why) PROVE s \in seen
    <2>1. sessions \in Seq(Session) /\ why \in {"reuse", "told"} /\ sessions' = Revoked(seen, why)
      BY <1>3 DEF Revokes, TypeOK
    <2>2. sessions'[s] = IF s \in seen /\ sessions[s].revoked = "no"
                         THEN [sessions[s] EXCEPT !.revoked = why] ELSE sessions[s]
      BY <2>1, RevokedRows
    <2>3. QED
      BY <2>2
  <1>4. ~GraceEnds
    <2>1. SUFFICES ASSUME GraceEnds PROVE FALSE
      OBVIOUS
    <2>2. PICK r \in DOMAIN sessions : Graces(r)
      BY <2>1 DEF GraceEnds, Graces
    <2>3. sessions'[s] = sessions[s] \/ sessions'[s] = [sessions[s] EXCEPT !.used = "stale"]
      BY <2>2, Stamped DEF TypeOK, Graces
    <2>4. QED
      BY <1>s, <2>3 DEF Session
  <1>5. QED
    BY <1>1, <1>2, <1>3, <1>4, RowSteps, RevokedSteps

\* A token that can be presented is spoiled by the end of its grace, or revoked.
LEMMA Spoiled ==
  ASSUME TypeOK, TokensExist, [Next]_vars, NEW s \in DOMAIN sessions, Presentable(s), ~Presentable(s)'
  PROVE  \/ GraceEnds /\ Graces(s)
         \/ \E t \in Tabs : (RevokeReused(t) \/ LogoutEnd(t) \/ ChangePasswordEnd(t)) /\ s \in request[t].seen
         \/ UpdateUserEnd /\ s \in admin.seen
  <1>s. sessions[s] \in Session
    BY RowIds
  <1>1. CASE sessions' = sessions
    BY <1>1 DEF Presentable
  <1>2. ASSUME NEW t \in Tabs, LoginInsert(t) PROVE FALSE
    BY <1>2, OpenedRows DEF Presentable
  <1>3. ASSUME NEW t \in Tabs, Rotate(t) PROVE FALSE
    <2>1. sessions'[s] = sessions[s] \/ sessions'[s] = [sessions[s] EXCEPT !.used = "fresh"]
      BY <1>3, RotatedRows
    <2>2. QED
      BY <1>s, <2>1 DEF Presentable, Session
  <1>4. ASSUME NEW seen, NEW why, Revokes(seen, why) PROVE s \in seen
    <2>1. sessions \in Seq(Session) /\ why \in {"reuse", "told"} /\ sessions' = Revoked(seen, why)
      BY <1>4 DEF Revokes, TypeOK
    <2>2. sessions'[s] = IF s \in seen /\ sessions[s].revoked = "no"
                         THEN [sessions[s] EXCEPT !.revoked = why] ELSE sessions[s]
      BY <2>1, RevokedRows
    <2>3. QED
      BY <2>2 DEF Presentable
  <1>5. CASE GraceEnds
    <2>1. PICK r \in DOMAIN sessions : Graces(r)
      BY <1>5 DEF GraceEnds, Graces
    <2>2. \A q \in DOMAIN sessions \ {r} : sessions'[q] = sessions[q]
      BY <2>1, Stamped DEF TypeOK, Graces
    <2>3. QED
      BY <1>5, <2>1, <2>2 DEF Presentable
  <1>6. QED
    BY <1>1, <1>2, <1>3, <1>4, <1>5, RowSteps, RevokedSteps

\* The grace of a token ends when nobody will present it.
LEMMA GraceWaits ==
  ASSUME TypeOK, TokensExist, GraceEnds, NEW s \in DOMAIN sessions, Graces(s)
  PROVE  \A t \in Tabs :
           /\ ~(request[t].at = "sent" /\ request[t].token = s)
           /\ request[t].at = "answered" /\ jar[browser[t]].refresh = s => request[t].token \notin Kin(s)
  <1>1. PICK r \in DOMAIN sessions :
          /\ sessions[r].used = "fresh"
          /\ \A t \in Tabs :
               /\ ~(request[t].at = "sent" /\ request[t].token = r)
               /\ request[t].at = "answered" /\ jar[browser[t]].refresh = r => request[t].token \notin Kin(r)
          /\ sessions' = [sessions EXCEPT ![r].used = "stale"]
    BY DEF GraceEnds
  <1>2. r = s
    <2>1. SUFFICES ASSUME r # s PROVE FALSE
      OBVIOUS
    <2>2. sessions'[s] = sessions[s] /\ sessions[s].used = "fresh"
      BY <1>1, <2>1, Stamped DEF TypeOK, Graces
    <2>3. sessions'[s] = [sessions[s] EXCEPT !.used = "stale"] /\ sessions[s] \in Session
      BY Stamped, RowIds DEF TypeOK, Graces
    <2>4. QED
      BY <2>2, <2>3 DEF Session
  <1>3. QED
    BY <1>1, <1>2

\* Reuse is only ever detected in a family that was ended on purpose.
LEMMA ReuseStep ==
  ASSUME TypeOK, TokensExist, OneKeeper, NoFalseReuse, SessionKept, [Next]_vars
  PROVE  NoFalseReuse'
  <1> SUFFICES ASSUME losses' = 0
               PROVE  /\ \A s \in DOMAIN sessions' : sessions'[s].revoked = "reuse" => Told(s)'
                      /\ \A b \in Browsers : jar'[b].refresh # NoToken =>
                           Told(jar[b].refresh)' \/ Presentable(jar[b].refresh)'
                      /\ \A t \in Tabs :
                           /\ request'[t].at = "sent" => Told(request[t].token)' \/ Presentable(request[t].token)'
                           /\ request'[t].at = "revoking" /\ request'[t].op \in Refreshing => Told(request[t].token)'
                           /\ request'[t].at = "answered" /\ request'[t].cookies = "set" =>
                                Told(request[t].token)' \/ Live(request[t].token)'
    BY DEF NoFalseReuse
  <1>0. losses = 0
    BY LossSteps
  <1>d. \A s \in DOMAIN sessions : sessions[s] \in Session
    BY RowIds
  <1>1. ASSUME NEW s \in DOMAIN sessions', sessions'[s].revoked = "reuse" PROVE Told(s)'
    <2>1. s \in DOMAIN sessions
      BY <1>1, NewRow
    <2>2. CASE sessions[s].revoked # "no"
      BY <1>0, <1>1, <2>1, <2>2, RowsGrow, KinGrows DEF Grown, NoFalseReuse
    <2>3. CASE sessions[s].revoked = "no"
      BY <1>0, <1>1, <2>1, <2>3, RevokedBy, RevokedIsTold
    <2>4. QED
      BY <2>2, <2>3
  <1>p. ASSUME NEW s \in DOMAIN sessions, Told(s) \/ Presentable(s), GraceEnds /\ Graces(s) => Told(s)
        PROVE  Told(s)' \/ Presentable(s)'
    BY <1>0, <1>p, Spoiled, RevokedIsTold, KinGrows DEF Presentable
  <1>2. ASSUME NEW b \in Browsers, jar'[b].refresh # NoToken
        PROVE  Told(jar[b].refresh)' \/ Presentable(jar[b].refresh)'
    <2> PICK s : s = jar'[b].refresh
      OBVIOUS
    <2>1. CASE s = jar[b].refresh
      <3>1. s \in DOMAIN sessions /\ (Told(s) \/ Presentable(s))
        BY <1>0, <1>2, <2>1 DEF TokensExist, NoFalseReuse
      <3>2. ASSUME GraceEnds, Graces(s), ~Told(s) PROVE FALSE
        <4>1. ~Live(s)
          BY <3>2 DEF Graces, Live
        <4>2. PICK t \in Tabs : browser[t] = b /\ request[t].at = "answered" /\ request[t].token \in Kin(s)
          BY <1>0, <1>2, <2>1, <3>2, <4>1 DEF SessionKept, Told
        <4>3. QED
          BY <2>1, <3>1, <3>2, <4>2, GraceWaits
      <3>3. Told(s)' \/ Presentable(s)'
        BY <1>p, <3>1, <3>2
      <3>4. QED
        BY <3>3
    <2>2. ASSUME NEW t \in Tabs, Takes(t), s = request[t].token PROVE Told(s)' \/ Presentable(s)'
      <3>1. request[t].at = "answered" /\ request[t].cookies = "set" /\ sessions' = sessions
        BY <2>2 DEF Takes, Receive
      <3>2. s \in DOMAIN sessions /\ (Told(s) \/ Live(s))
        BY <1>0, <2>2, <3>1 DEF NoFalseReuse, TokensExist, TokenExists
      <3>3. Told(s) \/ Presentable(s)
        BY <3>2 DEF Live, Presentable
      <3>4. QED
        BY <3>1, <3>2, <3>3, KinGrows DEF Presentable
    <2>3. QED
      BY <1>2, <2>1, <2>2, JarSteps DEF Takes
  <1>3. ASSUME NEW t \in Tabs, request'[t].at = "sent"
        PROVE  Told(request[t].token)' \/ Presentable(request[t].token)'
    <2> PICK s : s = request'[t].token
      OBVIOUS
    <2>1. CASE request'[t] = request[t]
      <3>1. s \in DOMAIN sessions /\ (Told(s) \/ Presentable(s))
        BY <1>0, <1>3, <2>1 DEF TokensExist, TokenExists, NoFalseReuse
      <3>2. ~(GraceEnds /\ Graces(s))
        BY <1>3, <2>1, <3>1, GraceWaits
      <3>3. Told(s)' \/ Presentable(s)'
        BY <1>p, <3>1, <3>2
      <3>4. QED
        BY <3>3
    <2>2. CASE Sends(t)
      <3>1. browser[t] \in Browsers
        BY SessionsAssumption
      <3>2. s \in DOMAIN sessions /\ sessions' = sessions /\ (Told(s) \/ Presentable(s))
        BY <1>0, <2>2, <3>1 DEF Sends, TokensExist, NoFalseReuse
      <3>3. Told(s)' \/ Presentable(s)'
        BY <3>2, KinGrows DEF Presentable
      <3>4. QED
        BY <3>3
    <2>3. CASE Quiets(t) \/ Locks(t) \/ Suspects(t) \/ Gains(t)
      BY <1>3, <2>3 DEF Quiets, Quiet, Locks, Suspects, Gains
    <2>4. QED
      BY <2>1, <2>2, <2>3, RequestSteps DEF Quiets, Sends, Locks, Suspects, Gains, OnlyTab
  <1>4. ASSUME NEW t \in Tabs, request'[t].at = "revoking", request'[t].op \in Refreshing
        PROVE  Told(request[t].token)'
    <2> PICK s : s = request'[t].token
      OBVIOUS
    <2>1. CASE request'[t] = request[t]
      <3>1. s \in DOMAIN sessions /\ Told(s)
        BY <1>0, <1>4, <2>1 DEF TokensExist, TokenExists, NoFalseReuse
      <3>2. Told(s)'
        BY <3>1, KinGrows
      <3>3. QED
        BY <3>2
    <2>2. CASE Suspects(t)
      <3>1. s = request[t].token /\ request[t].at = "sent" /\ ~Raced(s) /\ Reused(s)
        BY <2>2 DEF Suspects, Arrives
      <3>2. s \in DOMAIN sessions /\ (Told(s) \/ Presentable(s))
        BY <1>0, <3>1 DEF TokensExist, TokenExists, NoFalseReuse
      <3>3. ~Presentable(s)
        BY <1>d, <3>1, <3>2 DEF Presentable, Raced, Reused, Session
      <3>4. Told(s)'
        BY <3>2, <3>3, KinGrows
      <3>5. QED
        BY <3>4
    <2>3. CASE Quiets(t) \/ Sends(t) \/ Locks(t) \/ Gains(t)
      BY <1>4, <2>3 DEF Quiets, Quiet, Sends, Locks, Gains, Refreshing, Telling
    <2>4. QED
      BY <2>1, <2>2, <2>3, RequestSteps DEF Quiets, Sends, Locks, Suspects, Gains, OnlyTab
  <1>5. ASSUME NEW t \in Tabs, request'[t].at = "answered", request'[t].cookies = "set"
        PROVE  Told(request[t].token)' \/ Live(request[t].token)'
    <2> PICK s : s = request'[t].token
      OBVIOUS
    <2>1. CASE request'[t] = request[t]
      <3>1. s \in DOMAIN sessions /\ (Told(s) \/ Live(s))
        BY <1>0, <1>5, <2>1 DEF TokensExist, TokenExists, NoFalseReuse
      <3>2. Told(s)' \/ Live(s)'
        BY <1>0, <1>5, <2>1, <3>1, KinGrows, BroughtStays
      <3>3. QED
        BY <3>2
    <2>2. CASE Gains(t)
      <3>1. s = Len(sessions) + 1
        BY <2>2 DEF Gains
      <3>2. sessions'[s].used = "no" /\ sessions'[s].revoked = "no"
        <4>1. DOMAIN sessions' = 1 .. (Len(sessions) + 1)
          BY <2>2, OpenedRows, RotatedRows DEF Gains
        <4>2. s \in DOMAIN sessions' /\ s \notin DOMAIN sessions
          BY <3>1, <4>1, RowIds
        <4>3. QED
          BY <4>2, NewRow
      <3>3. Live(s)'
        BY <3>2 DEF Live
      <3>4. QED
        BY <3>3
    <2>3. CASE Quiets(t) \/ Sends(t) \/ Locks(t) \/ Suspects(t)
      BY <1>5, <2>3 DEF Quiets, Quiet, Sends, Locks, Suspects
    <2>4. QED
      BY <2>1, <2>2, <2>3, RequestSteps DEF Quiets, Sends, Locks, Suspects, Gains, OnlyTab
  <1>6. QED
    BY <1>1, <1>2, <1>3, <1>4, <1>5

-----------------------------------------------------------------------------
(* The theorems.                                                           *)

SessionsInv ==
  /\ TypeOK /\ OneUpdate /\ UpdateSeesAll
  /\ LogoutsEndOne /\ LockedIsActive
  /\ TokensExist /\ FamiliesAreOlder /\ OneHolder /\ OneKeeper
  /\ OneLiveToken /\ RevocationIsComplete /\ NoFalseReuse /\ SessionKept

\* Whatever tabs, account updates and lost answers interleave, rows, row locks and
\* cookies stay within the inductive invariant (internal/authusers, client.ts and
\* auth.tsx).
THEOREM SessionsInductive == Spec => []SessionsInv
  <1>1. Init => SessionsInv
    <2> SUFFICES ASSUME Init PROVE SessionsInv
      OBVIOUS
    <2> USE SessionsAssumption
    <2>n. /\ None \in Request /\ None.at = "none" /\ None.op = "none"
          /\ None.token = NoToken
      BY NoneType DEF None
    <2>0. DOMAIN sessions = {} /\ Len(sessions) = 0 /\ sessions \in Seq(Session)
      BY DEF Init
    <2>1. /\ request \in [Tabs -> Request]
          /\ jar \in [Browsers -> [access : BOOLEAN, refresh : {NoToken} \cup Ids]]
          /\ \A t \in Tabs : request[t] = None
          /\ \A b \in Browsers : jar[b].refresh = NoToken
      BY <2>n DEF Init, Cleared
    <2>2. TypeOK
      BY <2>0, <2>1 DEF Init, TypeOK
    <2>3. OneUpdate /\ UpdateSeesAll
      BY <2>0, <2>1, <2>n DEF Init, OneUpdate, UpdateSeesAll, UserFree, Changing, Unrevoked
    <2>4. TokensExist /\ LogoutsEndOne /\ LockedIsActive
      BY <2>0, <2>1, <2>n DEF TokensExist, TokenExists, LogoutsEndOne, LockedIsActive
    <2>5. FamiliesAreOlder /\ OneLiveToken /\ RevocationIsComplete
      BY <2>0 DEF FamiliesAreOlder, OneLiveToken, RevocationIsComplete
    <2>6. OneHolder /\ OneKeeper
      BY <2>0, <2>1, <2>n DEF OneHolder, OneKeeper
    <2>7. NoFalseReuse /\ SessionKept
      BY <2>0, <2>1, <2>n DEF NoFalseReuse, SessionKept
    <2>8. QED
      BY <2>2, <2>3, <2>4, <2>5, <2>6, <2>7 DEF SessionsInv
  <1>2. SessionsInv /\ [Next]_vars => SessionsInv'
    BY TypeStep, OneUpdateStep, UpdateSeesAllStep, TokensStep, FamiliesStep, HolderStep, KeeperStep,
       OneLiveStep, RevocationStep, ReuseStep, KeptStep, LogoutsEndOneStep, LockedStep DEF SessionsInv
  <1>3. QED
    BY <1>1, <1>2, PTL DEF Spec

\* A rotation replaces a token, it never forks the family, however many refreshes
\* of one token race (Refresh, under the row lock of the token).
THEOREM OneTokenLives == Spec => []OneLiveToken
  BY SessionsInductive, PTL DEF SessionsInv

\* Tabs that share a session do not end it for each other: without a lost answer a
\* refresh of theirs is never taken for a reuse (client.ts under its Web Lock,
\* auth.tsx without it).
THEOREM TabsKeepTheirSession == Spec => []SessionKept
  BY SessionsInductive, PTL DEF SessionsInv

\* A disable, a reset or a new password leaves no session of an older credential
\* behind but that of a login which verified the old one first (UpdateUser,
\* ChangePassword).
THEOREM RevocationLeavesNothing == Spec => []RevocationIsComplete
  BY SessionsInductive, PTL DEF SessionsInv

\* A family without a live token stays without one: no later refresh, late answer
\* or replay revives it.
THEOREM FamiliesStayDead == Spec => DeadStaysDead
  <1>1. SessionsInv /\ [Next]_vars =>
          [\A s \in DOMAIN sessions : (\A r \in Kin(s) : ~Live(r)) => (\A r \in Kin(s)' : ~Live(r)')]_vars
    <2> SUFFICES ASSUME SessionsInv, [Next]_vars, NEW s \in DOMAIN sessions, \A r \in Kin(s) : ~Live(r)
                 PROVE  \A r \in Kin(s)' : ~Live(r)'
      OBVIOUS
    <2>1. QED
      BY DeadStep DEF SessionsInv
  <1>2. QED
    BY <1>1, SessionsInductive, PTL DEF Spec, DeadStaysDead

-----------------------------------------------------------------------------
(* The abstract specification.                                             *)

LEMMA LiveTokensAre ==
  ASSUME NEW g, g = [f \in Opened' |-> g[f]], \A f \in Opened' : g[f] = LiveOf(f)'
  PROVE  LiveTokens' = g
  <1>1. LiveTokens' = [f \in Opened' |-> LiveOf(f)']
    BY DEF LiveTokens
  <1>2. QED
    BY <1>1

\* The family of a row was opened by a row that is no younger.
LEMMA OpenedAreOlder ==
  ASSUME TypeOK, FamiliesAreOlder
  PROVE  \A f \in Opened : f \in Nat /\ f <= Len(sessions)
  <1> SUFFICES ASSUME NEW s \in DOMAIN sessions
               PROVE  sessions[s].family \in Nat /\ sessions[s].family <= Len(sessions)
    BY DEF Opened
  <1>1. s \in Nat /\ s <= Len(sessions) /\ sessions[s] \in Session /\ Len(sessions) \in Nat
    BY RowIds
  <1>2. sessions[s].family \in Nat /\ sessions[s].family <= s
    BY <1>1 DEF FamiliesAreOlder, Session, Ids
  <1>3. QED
    BY <1>1, <1>2

\* Where no row is added, no family is.
LEMMA SameOpened ==
  ASSUME TypeOK, TokensExist, [Next]_vars, DOMAIN sessions' = DOMAIN sessions
  PROVE  Opened' = Opened
  BY RowsGrow DEF Opened, Grown

LEMMA LoginOpens ==
  ASSUME TypeOK, TokensExist, FamiliesAreOlder, [Next]_vars, NEW t \in Tabs, LoginInsert(t)
  PROVE  Contract!Open
  <1> PICK k : k = Len(sessions) + 1
    OBVIOUS
  <1>1. /\ DOMAIN sessions' = 1 .. (Len(sessions) + 1)
        /\ \A s \in DOMAIN sessions : sessions'[s] = sessions[s]
        /\ sessions'[k].family = k /\ sessions'[k].used = "no" /\ sessions'[k].revoked = "no"
    <2> DEFINE late == request[t].era # user.era
    <2>1. /\ DOMAIN sessions' = 1 .. (Len(sessions) + 1)
          /\ \A s \in DOMAIN sessions : sessions'[s] = sessions[s]
          /\ sessions'[k] = [family |-> k, used |-> "no", revoked |-> "no", era |-> request[t].era, late |-> late]
      BY OpenedRows
    <2> HIDE DEF late
    <2>2. QED
      BY <2>1
  <1>2. DOMAIN sessions = 1 .. Len(sessions) /\ Len(sessions) \in Nat
    BY RowIds
  <1>3. k \in Ids \ DOMAIN sessions /\ DOMAIN sessions' = DOMAIN sessions \cup {k}
    <2>1. Len(sessions) < MaxSessions /\ MaxSessions \in Nat
      BY SessionsAssumption DEF LoginInsert
    <2>2. QED
      BY <1>1, <1>2, <2>1 DEF Ids
  <1>4. k \notin Opened
    BY <1>2, OpenedAreOlder
  <1>5. Opened' = Opened \cup {k}
    <2>1. Opened' = {sessions'[s].family : s \in DOMAIN sessions \cup {k}}
      BY <1>3 DEF Opened
    <2>2. \A s \in DOMAIN sessions : sessions'[s].family = sessions[s].family
      BY <1>1
    <2>3. {sessions'[s].family : s \in DOMAIN sessions \cup {k}}
            = {sessions'[s].family : s \in DOMAIN sessions} \cup {k}
      BY <1>1
    <2>4. {sessions'[s].family : s \in DOMAIN sessions} = Opened
      BY <2>2, Zenon DEF Opened
    <2>5. QED
      BY <2>1, <2>3, <2>4
  <1>6. LiveOf(k)' = {k}
    BY <1>1, <1>3, <1>4 DEF LiveOf, Live, Opened
  <1>7. \A f \in Opened : LiveOf(f)' = LiveOf(f)
    BY <1>1, <1>3, <1>4 DEF LiveOf, Live
  <1>8. LiveTokens' = [f \in Opened \cup {k} |-> IF f = k THEN {k} ELSE LiveTokens[f]]
    <2> DEFINE g == [f \in Opened \cup {k} |-> IF f = k THEN {k} ELSE LiveTokens[f]]
    <2>1. \A f \in Opened : LiveTokens[f] = LiveOf(f)
      BY DEF LiveTokens
    <2>2. \A f \in Opened' : g[f] = LiveOf(f)'
      BY <1>5, <1>6, <1>7, <2>1
    <2>3. g = [f \in Opened' |-> g[f]]
      BY <1>5
    <2> HIDE DEF g
    <2>4. LiveTokens' = g
      BY <2>2, <2>3, LiveTokensAre
    <2>5. QED
      BY <2>4 DEF g
  <1>9. DOMAIN LiveTokens = Opened
    BY DEF LiveTokens
  <1>10. user' = user
    BY DEF LoginInsert
  <1>11. QED
    BY <1>3, <1>8, <1>9, <1>10 DEF Contract!Open, Contract!Issue

LEMMA RotationRotates ==
  ASSUME TypeOK, TokensExist, FamiliesAreOlder, OneHolder, OneLiveToken, LockedIsActive, [Next]_vars,
         NEW t \in Tabs, Rotate(t)
  PROVE  Contract!Rotate
  <1> PICK k, s, o : k = Len(sessions) + 1 /\ s = request[t].token /\ o = sessions[s].family
    OBVIOUS
  <1>1. /\ s \in DOMAIN sessions
        /\ DOMAIN sessions' = 1 .. (Len(sessions) + 1)
        /\ \A r \in DOMAIN sessions \ {s} : sessions'[r] = sessions[r]
        /\ sessions'[k].family = o /\ sessions'[k].used = "no" /\ sessions'[k].revoked = "no"
    <2>1. sessions'[k] = [family |-> o, used |-> "no", revoked |-> "no",
                          era |-> sessions[s].era, late |-> sessions[s].late]
      BY RotatedRows
    <2>2. s \in DOMAIN sessions /\ DOMAIN sessions' = 1 .. (Len(sessions) + 1)
      BY RotatedRows
    <2>3. \A r \in DOMAIN sessions \ {s} : sessions'[r] = sessions[r]
      BY RotatedRows
    <2>4. QED
      BY <2>1, <2>2, <2>3
  <1>2. Live(s) /\ sessions'[s].used # "no"
    BY RotationReplaces
  <1>3. sessions'[s].family = o
    BY <1>1, RowsGrow DEF Grown
  <1>4. DOMAIN sessions = 1 .. Len(sessions) /\ Len(sessions) \in Nat
    BY RowIds
  <1>5. k \in Ids \ DOMAIN sessions /\ DOMAIN sessions' = DOMAIN sessions \cup {k}
    <2>1. Len(sessions) < MaxSessions /\ MaxSessions \in Nat
      BY SessionsAssumption DEF Rotate
    <2>2. QED
      BY <1>1, <1>4, <2>1 DEF Ids
  <1>6. user' = user /\ user.status = "active"
    BY DEF Rotate, LockedIsActive
  <1>7. Opened' = Opened /\ o \in Opened
    BY <1>1, <1>3, <1>5 DEF Opened
  <1>8. LiveOf(o) = {s}
    BY <1>1, <1>2 DEF LiveOf, OneLiveToken
  <1>9. LiveOf(o)' = {k}
    <2>1. \A r \in DOMAIN sessions : Live(r)' /\ sessions'[r].family = o => FALSE
      <3> SUFFICES ASSUME NEW r \in DOMAIN sessions, Live(r)', sessions'[r].family = o PROVE FALSE
        OBVIOUS
      <3>1. Live(r) /\ sessions[r].family = o
        BY LiveStays, RowsGrow DEF Grown
      <3>2. r = s
        BY <3>1, <1>8 DEF LiveOf
      <3>3. QED
        BY <3>2, <1>2 DEF Live
    <2>2. QED
      BY <1>1, <1>5, <2>1 DEF LiveOf, Live
  <1>10. \A f \in Opened \ {o} : LiveOf(f)' = LiveOf(f)
    BY <1>1, <1>3, <1>5 DEF LiveOf, Live
  <1>11. LiveTokens' = [LiveTokens EXCEPT ![o] = {k}]
    <2> DEFINE g == [LiveTokens EXCEPT ![o] = {k}]
    <2>1. DOMAIN LiveTokens = Opened /\ \A f \in Opened : LiveTokens[f] = LiveOf(f)
      BY DEF LiveTokens
    <2>2. \A f \in Opened' : g[f] = LiveOf(f)'
      BY <1>7, <1>9, <1>10, <2>1
    <2>3. g = [f \in Opened' |-> g[f]]
      BY <1>7, <2>1
    <2> HIDE DEF g
    <2>4. LiveTokens' = g
      BY <2>2, <2>3, LiveTokensAre
    <2>5. QED
      BY <2>4 DEF g
  <1>12. o \in DOMAIN LiveTokens /\ LiveTokens[o] # {}
    BY <1>7, <1>8 DEF LiveTokens
  <1>13. QED
    BY <1>5, <1>6, <1>11, <1>12 DEF Contract!Rotate, Contract!Issue

\* Rows keep their families and nothing lives anew, so that families differ in what
\* was killed.
LEMMA KilledOnly ==
  ASSUME TypeOK, TokensExist, [Next]_vars, DOMAIN sessions' = DOMAIN sessions, NEW f \in Opened
  PROVE  LiveOf(f)' = {s \in LiveOf(f) : Live(s)'}
  <1>1. \A s \in DOMAIN sessions : sessions'[s].family = sessions[s].family /\ (Live(s)' => Live(s))
    BY RowsGrow, LiveStays DEF Grown
  <1>2. QED
    BY <1>1 DEF LiveOf

\* What ends the tokens of one family at most.
LEMMA RevocationEnds ==
  ASSUME TypeOK, TokensExist, OneLiveToken, [Next]_vars, NEW seen, NEW why, Revokes(seen, why),
         \A r, s \in seen : r \in DOMAIN sessions /\ sessions[r].family = sessions[s].family,
         user' = user
  PROVE  Contract!End \/ UNCHANGED Contract!vars
  <1>1. /\ DOMAIN sessions' = DOMAIN sessions
        /\ \A s \in DOMAIN sessions :
             sessions'[s] = IF s \in seen /\ sessions[s].revoked = "no"
                            THEN [sessions[s] EXCEPT !.revoked = why] ELSE sessions[s]
    <2>1. sessions \in Seq(Session) /\ why \in {"reuse", "told"} /\ sessions' = Revoked(seen, why)
      BY DEF Revokes, TypeOK
    <2>2. QED
      BY <2>1, RevokedRows
  <1>2. why # "no" /\ \A s \in DOMAIN sessions : sessions[s] \in Session
    BY RowIds DEF Revokes
  <1>3. \A s \in DOMAIN sessions : Live(s) => (Live(s)' <=> s \notin seen)
    BY <1>1, <1>2 DEF Live, Session
  <1>4. Opened' = Opened
    BY <1>1, SameOpened
  <1>5. \A f \in Opened : LiveOf(f)' = LiveOf(f) \ seen
    BY <1>1, <1>3, KilledOnly DEF LiveOf
  <1>6. DOMAIN LiveTokens = Opened /\ \A f \in Opened : LiveTokens[f] = LiveOf(f)
    BY DEF LiveTokens
  <1>7. CASE \A s \in seen : ~Live(s)
    <2>1. \A f \in Opened' : LiveTokens[f] = LiveOf(f)'
      BY <1>4, <1>5, <1>6, <1>7 DEF LiveOf
    <2>2. LiveTokens = [f \in Opened' |-> LiveTokens[f]]
      BY <1>4, <1>6 DEF LiveTokens
    <2>3. LiveTokens' = LiveTokens
      BY <2>1, <2>2, LiveTokensAre
    <2>4. QED
      BY <1>1, <2>3 DEF Contract!vars
  <1>8. ASSUME NEW s \in seen, Live(s) PROVE Contract!End
    <2> DEFINE o == sessions[s].family
    <2>1. s \in DOMAIN sessions /\ o \in Opened
      BY DEF Opened
    <2>2. LiveOf(o) = {s}
      BY <1>8, <2>1 DEF LiveOf, OneLiveToken
    <2>3. \A f \in Opened \ {o} : LiveOf(f) \cap seen = {}
      BY DEF LiveOf
    <2> HIDE DEF o
    <2>4. \A f \in Opened : LiveOf(f)' = IF f = o THEN {} ELSE LiveTokens[f]
      BY <1>5, <1>6, <2>1, <2>2, <2>3
    <2>5. LiveTokens' = [LiveTokens EXCEPT ![o] = {}]
      <3> DEFINE g == [LiveTokens EXCEPT ![o] = {}]
      <3>1. \A f \in Opened' : g[f] = LiveOf(f)'
        BY <1>4, <1>6, <2>1, <2>4
      <3>2. g = [f \in Opened' |-> g[f]]
        BY <1>4, <1>6
      <3> HIDE DEF g
      <3>3. LiveTokens' = g
        BY <3>1, <3>2, LiveTokensAre
      <3>4. QED
        BY <3>3 DEF g
    <2>6. QED
      BY <1>1, <1>6, <2>1, <2>5 DEF Contract!End
  <1>9. QED
    BY <1>7, <1>8

LEMMA UpdateChanges ==
  ASSUME TypeOK, TokensExist, UpdateSeesAll, [Next]_vars,
         UpdateUserEnd \/ \E t \in Tabs : ChangePasswordEnd(t)
  PROVE  Contract!Change
  <1>1. DOMAIN sessions' = DOMAIN sessions /\ \A s \in DOMAIN sessions' : ~Live(s)'
    BY UpdateEndsAll
  <1>2. Opened' = Opened /\ DOMAIN LiveTokens = Opened
    BY <1>1, SameOpened DEF LiveTokens
  <1>3. LiveTokens' = [f \in Opened |-> {}]
    <2> DEFINE g == [f \in Opened |-> {}]
    <2>1. \A f \in Opened' : g[f] = LiveOf(f)'
      BY <1>1, <1>2 DEF LiveOf
    <2>2. g = [f \in Opened' |-> g[f]]
      BY <1>2
    <2> HIDE DEF g
    <2>3. LiveTokens' = g
      BY <2>1, <2>2, LiveTokensAre
    <2>4. QED
      BY <2>3 DEF g
  <1>4. user'.era = user.era + 1 /\ user'.status \in {user.status, "disabled"}
    BY DEF UpdateUserEnd, ChangePasswordEnd, TypeOK
  <1>5. QED
    BY <1>1, <1>2, <1>3, <1>4 DEF Contract!Change

LEMMA GraceIsUnseen ==
  ASSUME TypeOK, TokensExist, [Next]_vars, GraceEnds
  PROVE  UNCHANGED Contract!vars
  <1>1. PICK r \in DOMAIN sessions : Graces(r)
    BY DEF GraceEnds, Graces
  <1>2. /\ DOMAIN sessions' = DOMAIN sessions
        /\ \A s \in DOMAIN sessions \ {r} : sessions'[s] = sessions[s]
        /\ sessions'[r] = [sessions[r] EXCEPT !.used = "stale"]
        /\ sessions[r].used = "fresh" /\ sessions[r] \in Session
    BY <1>1, Stamped, RowIds DEF TypeOK, Graces
  <1>3. \A s \in DOMAIN sessions : Live(s)' <=> Live(s)
    BY <1>2 DEF Live, Session
  <1>4. Opened' = Opened /\ \A f \in Opened : LiveOf(f)' = LiveOf(f)
    BY <1>2, <1>3, SameOpened, KilledOnly DEF LiveOf
  <1>5. LiveTokens = [f \in Opened' |-> LiveTokens[f]] /\ \A f \in Opened' : LiveTokens[f] = LiveOf(f)'
    BY <1>4 DEF LiveTokens
  <1>6. LiveTokens' = LiveTokens
    BY <1>5, LiveTokensAre
  <1>7. user' = user
    BY DEF GraceEnds
  <1>8. QED
    BY <1>2, <1>6, <1>7 DEF Contract!vars

\* Without a change of the rows, only an account that is enabled shows.
LEMMA RowsStand ==
  ASSUME TypeOK, [Next]_vars, sessions' = sessions,
         ~UpdateUserEnd, \A t \in Tabs : ~ChangePasswordEnd(t)
  PROVE  Contract!Enable \/ UNCHANGED Contract!vars
  <1>1. LiveTokens' = LiveTokens
    BY DEF LiveTokens, LiveOf, Opened, Live
  <1>2. user' = user \/ Enable
    <2>1. ASSUME NEW t \in Tabs, Tab(t) PROVE user' = user
      BY <2>1 DEF Tab, Login, Call, KeepAlive, DoRefresh, Reload, Logout, ChangePassword, Receive, Lose
    <2>2. ASSUME NEW t \in Tabs, Serve(t) PROVE user' = user
      BY <2>2 DEF Serve, LoginInsert, Refresh, Rotate, RevokeReused, LogoutEnd, Fails
    <2>3. CASE Disable \/ ResetPassword \/ BreakDeadlock \/ GraceEnds \/ AccessExpires
      BY <2>3 DEF Disable, ResetPassword, BreakDeadlock, GraceEnds, AccessExpires
    <2>4. CASE UNCHANGED vars
      BY <2>4 DEF vars
    <2>5. QED
      BY <2>1, <2>2, <2>3, <2>4 DEF Next
  <1>3. CASE user' = user
    BY <1>1, <1>3 DEF Contract!vars
  <1>4. CASE Enable
    <2>1. user'.status = "active" /\ user'.era = user.era
      BY <1>4 DEF Enable, TypeOK
    <2>2. QED
      BY <1>1, <2>1 DEF Contract!Enable
  <1>5. QED
    BY <1>2, <1>3, <1>4

\* Refreshes, logouts and account updates, though they take several steps, wait for
\* each other's locks and may be aborted, are seen as one step each of a set of
\* families with one token (internal/authusers).
THEOREM SessionsImplementFamilies == Spec => ImplementsFamilies
  <1>1. Init => Contract!Init
    <2> SUFFICES ASSUME Init PROVE Contract!Init
      OBVIOUS
    <2>1. DOMAIN sessions = {} /\ user.status = "active" /\ user.era = 0
      BY DEF Init
    <2>2. LiveTokens = <<>>
      BY <2>1 DEF LiveTokens, Opened
    <2>3. QED
      BY <2>1, <2>2 DEF Contract!Init
  <1>2. SessionsInv /\ [Next]_vars => [Contract!Next]_(Contract!vars)
    <2> SUFFICES ASSUME SessionsInv, [Next]_vars PROVE Contract!Next \/ UNCHANGED Contract!vars
      OBVIOUS
    <2> USE DEF SessionsInv
    <2>1. ASSUME NEW t \in Tabs, LoginInsert(t) PROVE Contract!Open
      BY <2>1, LoginOpens
    <2>2. ASSUME NEW t \in Tabs, Rotate(t) PROVE Contract!Rotate
      BY <2>2, RotationRotates
    <2>3. ASSUME NEW t \in Tabs, RevokeReused(t) PROVE Contract!End \/ UNCHANGED Contract!vars
      <3>1. request[t].seen \subseteq Kin(request[t].token) /\ user' = user /\ Revokes(request[t].seen, "reuse")
        BY <2>3, RevokedSteps DEF RevokeReused, TokensExist, TokenExists
      <3>2. \A r, s \in request[t].seen : r \in DOMAIN sessions /\ sessions[r].family = sessions[s].family
        BY <3>1 DEF Kin
      <3>3. QED
        BY <3>1, <3>2, RevocationEnds
    <2>4. ASSUME NEW t \in Tabs, LogoutEnd(t) PROVE Contract!End \/ UNCHANGED Contract!vars
      <3>1. user' = user /\ Revokes(request[t].seen, "told") /\ request[t].op = "logout"
        BY <2>4, RevokedSteps DEF LogoutEnd
      <3>2. \A r, s \in request[t].seen : r \in DOMAIN sessions /\ sessions[r].family = sessions[s].family
        BY <3>1 DEF LogoutsEndOne
      <3>3. QED
        BY <3>1, <3>2, RevocationEnds
    <2>5. CASE UpdateUserEnd \/ \E t \in Tabs : ChangePasswordEnd(t)
      BY <2>5, UpdateChanges DEF Contract!Next
    <2>6. CASE GraceEnds
      BY <2>6, GraceIsUnseen
    <2>7. CASE sessions' = sessions
      BY <2>5, <2>7, RowsStand DEF Contract!Next
    <2>8. QED
      BY <2>1, <2>2, <2>3, <2>4, <2>5, <2>6, <2>7, RowSteps DEF Contract!Next
  <1>3. QED
    BY <1>1, <1>2, SessionsInductive, PTL DEF Spec, ImplementsFamilies, Contract!Spec
=============================================================================
