----------------------- MODULE WebSessionsLifeProofs -----------------------
(***************************************************************************)
(* Every step of WebSessions is a step of SessionLife or leaves it alone:  *)
(* what a browser and the administrators do to a session is what the       *)
(* tables promise of it.                                                   *)
(***************************************************************************)
EXTENDS WebSessionsProofs

\* LOGIN rows change their state, age or roles, never their mcuser: the claims
\* stay, and the others are read off the rows.
LEMMA SameSessions ==
    ASSUME \A j \in JwtIds : /\ Issued(j)' <=> Issued(j)
                             /\ Issued(j) => session'[j].uid = session[j].uid
    PROVE  /\ Claims' = Claims
           /\ Lapsed' = {<<session[j].uid, j>> : j \in {i \in JwtIds :
                            Issued(i) /\ Expired(i)'}}
           /\ Closed' = {<<session[j].uid, j>> : j \in {i \in JwtIds :
                            Issued(i) /\ session'[i].state # "open"}}
BY DEF Claims, Lapsed, Closed

\* The sessions of C, all of mcuser u, are closed or gone; the others stay.
LEMMA ClosingLife ==
    ASSUME TypeOK, NEW u \in Mcusers, NEW C \in SUBSET JwtIds,
           NEW s \in {"closed", "gone"},
           \A j \in C : Issued(j) /\ session[j].uid = u,
           \A j \in JwtIds : session'[j] = IF j \in C
                                           THEN [session[j] EXCEPT !.state = s]
                                           ELSE session[j]
    PROVE  /\ Claims' = Claims
           /\ Lapsed' = Lapsed
           /\ Closed' = Closed \cup {<<u, j>> : j \in C}
           /\ {<<u, j>> : j \in C} \subseteq {t \in Claims : t[1] = u}
<1>1. ASSUME NEW j \in JwtIds
      PROVE  /\ Issued(j)' <=> Issued(j)
             /\ Issued(j) => /\ session'[j].uid = session[j].uid
                             /\ session'[j].age = session[j].age
                             /\ session'[j].state # "open" <=>
                                    session[j].state # "open" \/ j \in C
  <2>1. CASE j \in C
      <3>1. session[j] \in Session /\ session'[j] = [session[j] EXCEPT !.state = s]
          BY <2>1, SessionKinds
      <3>2. /\ session'[j].uid = session[j].uid
            /\ session'[j].age = session[j].age
            /\ session'[j].state = s
          BY <3>1 DEF Session
      <3> QED
          BY <2>1, <3>1, <3>2 DEF Issued, Unissued
  <2>2. CASE j \notin C
      BY <2>2 DEF Issued
  <2> QED
      BY <2>1, <2>2
<1>2. \A j \in JwtIds : Issued(j) => (Expired(j)' <=> Expired(j))
  BY <1>1 DEF Expired
<1>3. Claims' = Claims /\ Lapsed' = Lapsed
  BY <1>1, <1>2, SameSessions DEF Lapsed
<1>4. Closed' = {<<session[j].uid, j>> : j \in {i \in JwtIds :
                    Issued(i) /\ session'[i].state # "open"}}
  BY <1>1, SameSessions
<1>5. Closed' = Closed \cup {<<u, j>> : j \in C}
  BY <1>1, <1>4 DEF Closed
<1>6. {<<u, j>> : j \in C} \subseteq {t \in Claims : t[1] = u}
  BY DEF Claims
<1> QED
  BY <1>3, <1>5, <1>6


\* A step that leaves the mcusers and the LOGIN rows alone stutters.
LEMMA StutterLife ==
    ASSUME UNCHANGED <<mcuser, session>>
    PROVE  UNCHANGED Life!lifeVars
BY DEF Life!lifeVars, Claims, Lapsed, Closed, Issued, Expired

\* A login whose LOGIN row is committed is issued, lapsed if it was too slow.
LEMMA LoginLife ==
    ASSUME IInv, NEW p \in Requests, req[p].pc = "passed", InsertLogin(p),
           UNCHANGED mcuser
    PROVE  Life!LifeNext
<1>1. /\ req[p] \in Passed
      /\ \A i \in JwtIds :
            session'[i] = IF i = req[p].jwt THEN req[p].row ELSE session[i]
      /\ ~Issued(req[p].jwt) /\ req[p].row # Unissued
  BY InsertedLogin
<1>2. PICK j \in JwtIds, u \in Mcusers :
          j = req[p].jwt /\ u = req[p].row.uid /\ req[p].row.state = "open"
  BY <1>1 DEF Passed
<1>3. Life!Exists(u)
  BY <1>2 DEF InsertLogin, Present, Statuses, Life!Exists
<1>4. /\ session'[j].uid = u
      /\ session'[j].state = "open"
      /\ Issued(j)'
  BY <1>1, <1>2 DEF Issued
<1>5. \A i \in JwtIds \ {j} : session'[i] = session[i] /\ (Issued(i)' <=> Issued(i))
                              /\ (Expired(i)' <=> Expired(i))
  BY <1>1, <1>2 DEF Issued, Expired
<1>6. \A t \in Claims : t[2] # j
  BY <1>1, <1>2 DEF Claims
<1>7. Claims' = Claims \cup {<<u, j>>}
  BY <1>1, <1>2, <1>4, <1>5 DEF Claims
<1>8. Closed' = Closed
  BY <1>1, <1>2, <1>4, <1>5 DEF Closed
<1>9. Lapsed' = Lapsed \/ Lapsed' = Lapsed \cup {<<u, j>>}
  <2>1. CASE Expired(j)'
      BY <1>1, <1>2, <1>4, <1>5, <2>1 DEF Lapsed
  <2>2. CASE ~Expired(j)'
      BY <1>1, <1>2, <1>4, <1>5, <2>2 DEF Lapsed
  <2> QED
      BY <2>1, <2>2
<1>10. Life!Issue(u, j)
  BY <1>3, <1>6, <1>7, <1>8, <1>9 DEF Life!Issue
<1> QED
  BY <1>2, <1>10 DEF Life!LifeNext

LEMMA LogoutLife ==
    ASSUME IInv, NEW p \in Requests, Logout(p)
    PROVE  Life!LifeNext
<1>1. PICK j \in JwtIds : j = req[p].jwt /\ Issued(j)
  BY RequestKinds DEF IInv, Logout, At, Admitted, CookiesIssued
<1>2. PICK u \in Mcusers : u = session[j].uid
  BY <1>1, SessionKinds DEF IInv, Session
<1>3. PICK C \in SUBSET JwtIds : C = {j}
  OBVIOUS
<1>4. \A i \in JwtIds : session'[i] = IF i \in C
                                      THEN [session[i] EXCEPT !.state = "closed"]
                                      ELSE session[i]
  BY <1>1, <1>3 DEF IInv, TypeOK, Logout
<1>5. PICK S : S = {<<u, i>> : i \in C}
  OBVIOUS
<1>6. /\ Claims' = Claims /\ Lapsed' = Lapsed
      /\ Closed' = Closed \cup S
      /\ S \subseteq {t \in Claims : t[1] = u}
  <2>1. \A i \in C : Issued(i) /\ session[i].uid = u
      BY <1>1, <1>2, <1>3
  <2> QED
      BY <1>4, <1>5, <2>1, ClosingLife DEF IInv
<1>7. Life!Close(u, S)
  BY <1>6 DEF Life!Close, Logout
<1> QED
  BY <1>6, <1>7 DEF Life!LifeNext

\* blacklist_jwt_ids_for closes sessions of one mcuser; a uid that no mcuser
\* has closes none.
LEMMA BlacklistLife ==
    ASSUME TypeOK, NEW u \in Mcusers \cup {Stranger}, session' = Blacklisted(u),
           UNCHANGED mcuser
    PROVE  Life!LifeNext \/ UNCHANGED Life!lifeVars
<1> DEFINE C == {j \in JwtIds : Open(j) /\ session[j].uid = u}
           S == {<<u, j>> : j \in C}
<1>1. \A j \in JwtIds : session'[j] = IF j \in C
                                      THEN [session[j] EXCEPT !.state = "closed"]
                                      ELSE session[j]
  BY DEF Blacklisted
<1>2. \A j \in C : Issued(j) /\ session[j].uid = u
  BY DEF Open
<1>3. CASE u \in Mcusers
  <2>1. /\ Claims' = Claims /\ Lapsed' = Lapsed
        /\ Closed' = Closed \cup S
        /\ S \subseteq {t \in Claims : t[1] = u}
      <3> C \in SUBSET JwtIds
          OBVIOUS
      <3> HIDE DEF C
      <3> QED
          BY <1>1, <1>2, <1>3, ClosingLife
  <2> HIDE DEF S
  <2>2. Life!Close(u, S)
      BY <2>1 DEF Life!Close
  <2> QED
      BY <1>3, <2>1, <2>2 DEF Life!LifeNext
<1>4. CASE u = Stranger
  <2>1. C = {}
      BY <1>2, <1>4, SessionKinds, NamesAssumption DEF Session, Stranger
  <2>2. session' = session
      BY <1>1, <2>1 DEF TypeOK, Blacklisted
  <2> QED
      BY <2>2, StutterLife
<1> QED
  BY <1>3, <1>4

\* An update changes the account's status at most.
LEMMA UpdateLife ==
    ASSUME TypeOK, NEW u \in Mcusers, NEW named \in McuserToUpdate, Update(u, named)
    PROVE  Life!LifeNext
<1>1. mcuser[u].status \in Statuses
  BY DEF Update, UpdateMcuser, Present
<1>2. WhenNotNull(ToBackend(named).status, Null, mcuser[u].status) \in Statuses
  BY <1>1 DEF McuserToUpdate, ToBackend, WhenNotNull
<1>3. PICK s \in Statuses :
          s = WhenNotNull(ToBackend(named).status, Null, mcuser[u].status)
  BY <1>2
<1>4. \A v \in Mcusers : mcuser'[v].status = IF v = u THEN s ELSE mcuser[v].status
  BY <1>3 DEF TypeOK, Update, UpdateMcuser
<1>5. Claims' = Claims /\ Lapsed' = Lapsed /\ Closed' = Closed
  BY DEF Update, Claims, Lapsed, Closed, Issued, Expired
<1>6. Life!SetStatus(u, s)
  BY <1>1, <1>4, <1>5 DEF Life!SetStatus, Life!Exists, Statuses
<1> QED
  BY <1>6 DEF Life!LifeNext, Statuses

\* ON DELETE CASCADE: the sessions of an mcuser that is deleted are gone.
LEMMA DeleteLife ==
    ASSUME TypeOK, NEW u \in Mcusers, Delete(u)
    PROVE  Life!LifeNext
<1> DEFINE C == {j \in JwtIds : Issued(j) /\ session[j].uid = u}
<1>1. \A j \in JwtIds : session'[j] = IF j \in C
                                      THEN [session[j] EXCEPT !.state = "gone"]
                                      ELSE session[j]
  BY DEF Delete
<1>2. {<<u, j>> : j \in C} = {t \in Claims : t[1] = u}
  BY DEF Claims
<1>3. C \in SUBSET JwtIds /\ \A j \in C : Issued(j) /\ session[j].uid = u
  OBVIOUS
<1>4. /\ Claims' = Claims /\ Lapsed' = Lapsed
      /\ Closed' = Closed \cup {t \in Claims : t[1] = u}
  <2> HIDE DEF C
  <2> QED
      BY <1>1, <1>2, <1>3, ClosingLife
<1>5. Life!Exists(u)
  BY DEF Delete, DeleteMcuser, Present, Statuses, Life!Exists
<1>6. \A v \in Mcusers : mcuser'[v].status = IF v = u THEN "DELETED" ELSE mcuser[v].status
  BY DEF TypeOK, Delete, DeleteMcuser, Deleted
<1>7. Life!Remove(u)
  BY <1>4, <1>5, <1>6 DEF Life!Remove
<1> QED
  BY <1>7 DEF Life!LifeNext

\* Time makes sessions lapse and opens none again.
LEMMA TickLife ==
    ASSUME IInv, Tick
    PROVE  Life!LifeNext
<1> USE DEF IInv
<1>1. ASSUME NEW j \in JwtIds
      PROVE  /\ Issued(j)' <=> Issued(j)
             /\ Issued(j) => /\ session'[j].uid = session[j].uid
                             /\ session'[j].state = session[j].state
                             /\ Expired(j) => Expired(j)'
  <2>1. CASE Issued(j)
      <3>1. session[j] \in Session /\ session[j].without <= session[j].age
          BY <2>1, SessionKinds DEF RolesFresh
      <3>2. session'[j] = Aged(session[j])
          BY <2>1 DEF Tick
      <3>3. Aged(session[j]).uid = session[j].uid
          BY <3>1 DEF Aged, Session
      <3>4. session[j].age > Lifetime => Older(session[j].age) > Lifetime
          BY DEF Older
      <3> QED
          BY <2>1, <3>1, <3>2, <3>3, <3>4, AgedRow DEF Issued, Expired
  <2>2. CASE ~Issued(j)
      BY <2>2 DEF Tick, Issued
  <2> QED
      BY <2>1, <2>2
<1>2. Claims' = Claims /\ Closed' = Closed
  BY <1>1, SameSessions DEF Closed
<1>3. Lapsed' = {<<session[j].uid, j>> : j \in {i \in JwtIds : Issued(i) /\ Expired(i)'}}
  BY <1>1, SameSessions
<1>4. Lapsed' \subseteq Claims /\ Lapsed \subseteq Lapsed'
  BY <1>1, <1>3 DEF Lapsed, Claims
<1>5. PICK S \in SUBSET Claims : S = Lapsed'
  BY <1>4
<1>6. Life!Lapse(S)
  BY <1>2, <1>4, <1>5 DEF Life!Lapse, Tick
<1> QED
  BY <1>6 DEF Life!LifeNext

-----------------------------------------------------------------------------
LEMMA NextLife == IInv /\ [Next]_vars => [Life!LifeNext]_(Life!lifeVars)
<1> SUFFICES ASSUME IInv, [Next]_vars
             PROVE  Life!LifeNext \/ UNCHANGED Life!lifeVars
    OBVIOUS
<1> USE DEF IInv
<1>1. ASSUME NEW p \in Requests, NEW op \in Ops, Send(p, op)
      PROVE  UNCHANGED Life!lifeVars
  BY <1>1, StutterLife DEF Send
<1>2. ASSUME NEW p \in Requests, Receive(p) \/ Lose(p)
      PROVE  UNCHANGED Life!lifeVars
  BY <1>2, StutterLife DEF Receive, Lose
<1>3. ASSUME NEW p \in Requests, Serve(p)
      PROVE  Life!LifeNext \/ UNCHANGED Life!lifeVars
  <2>1. CASE Admit(p) \/ Refuse(p) \/ Fail(p) \/ LoginFail(p)
      BY <2>1, StutterLife DEF Admit, Refuse, Fail, LoginFail
  <2>2. ASSUME NEW u \in Mcusers, NEW j \in JwtIds, LoginPass(p, u, j)
        PROVE  UNCHANGED Life!lifeVars
      BY <2>2, StutterLife DEF LoginPass
  <2>3. CASE LoginCommit(p) \/ LoginUnsigned(p)
      BY <2>3, LoginLife DEF LoginCommit, LoginUnsigned
  <2>4. CASE Logout(p)
      BY <2>4, LogoutLife
  <2>5. ASSUME NEW u \in Mcusers \cup {Stranger}, InvalidateJwtsFor(p, u)
        PROVE  Life!LifeNext \/ UNCHANGED Life!lifeVars
      BY <2>5, BlacklistLife DEF InvalidateJwtsFor
  <2> QED
      BY <1>3, <2>1, <2>2, <2>3, <2>4, <2>5 DEF Serve
<1>4. ASSUME NEW u \in Mcusers, Administer(u)
      PROVE  Life!LifeNext \/ UNCHANGED Life!lifeVars
  BY <1>4, UpdateLife, DeleteLife, BlacklistLife DEF Administer, InvalidateElsewhere
<1>5. CASE Tick
  BY <1>5, TickLife
<1>6. CASE UNCHANGED vars
  BY <1>6, StutterLife DEF vars
<1> QED
  BY <1>1, <1>2, <1>3, <1>4, <1>5, <1>6 DEF Next

\* The request layer drives each session through SessionLife only: logged in
\* once, closed for good by logout, invalidation or deletion, lapsed for good
\* by time, and never closed by what is done to another mcuser.
THEOREM FollowLife == Spec => SessionsFollowLife
BY InitIInv, NextIInv, NextLife, PTL DEF Spec, SessionsFollowLife
=============================================================================
