-------------------------- MODULE WebSessionsProofs --------------------------
(***************************************************************************)
(* WebSessions keeps IInv, and with it the sessions a browser opens one at *)
(* a time are held while they are open, and requests are carried out under *)
(* roles no older than a JWT.                                              *)
(***************************************************************************)
EXTENDS WebSessions, TLAPS

\* The requests by how far they have come.
LEMMA RequestKinds ==
    ASSUME TypeOK, NEW p \in Requests
    PROVE  /\ req[p] = Free \/ req[p].pc \in {"sent", "admitted", "passed", "replied"}
           /\ req[p].pc = "sent" => req[p] \in Sent
           /\ req[p].pc = "admitted" => req[p] \in Admitted
           /\ req[p].pc = "passed" => req[p] \in Passed
           /\ req[p].pc = "replied" => req[p] \in Replied
           /\ req[p] = Free <=> req[p].pc = "free"
BY SMTT(30) DEF TypeOK, Free, Sent, Admitted, Passed, Replied

\* A session's JWT is one whose row has the fields of a session.
LEMMA SessionKinds ==
    ASSUME TypeOK, NEW j \in JwtIds
    PROVE  /\ Issued(j) => session[j] \in Session
           /\ ~Issued(j) => session[j] = Unissued
           /\ Issued(j) <=> session[j].state \in {"open", "closed", "gone"}
BY SMTT(30) DEF TypeOK, Session, Unissued, Issued

LEMMA PassedJwts ==
    ASSUME TypeOK
    PROVE  \A p \in Requests : req[p].pc = "passed" => req[p].jwt \in JwtIds
BY RequestKinds DEF Passed

LEMMA Names == None \notin JwtIds /\ "expired" \notin JwtIds
BY NamesAssumption DEF None

LEMMA InitIInv == Init => IInv
<1> SUFFICES ASSUME Init PROVE IInv
    OBVIOUS
<1> USE Names, LifetimeAssumption DEF Init, NoCookie, Free, Unissued
<1>1. TypeOK
  <2>1. mcuser \in [Mcusers -> Row \cup {Deleted}]
      BY DEF Row, Statuses
  <2>2. jar \in [jwt : Cookie, left : 0 .. Lifetime]
      BY DEF Cookie
  <2> QED
      BY <2>1, <2>2 DEF TypeOK
<1>2. CookiesIssued /\ RolesFresh /\ OverlapIsCrossed /\ RequestsKnowTheJar /\ CookieLasts
  BY DEF CookiesIssued, RolesFresh, OverlapIsCrossed, RequestsKnowTheJar, CookieLasts,
         Issued, Held
<1>3. SerialLoginsAreHeld
  BY DEF SerialLoginsAreHeld, Open, Issued
<1> QED
  BY <1>1, <1>2, <1>3 DEF IInv

-----------------------------------------------------------------------------
(* Steps of one request that leave the sessions alone.                     *)

\* A request that has no reply under way is over, with a bare response.
LEMMA BareIInv ==
    ASSUME IInv, NEW p \in Requests, req[p].pc # "replied", Done(p),
           UNCHANGED <<mcuser, session, jar, changes, astray>>
    PROVE  IInv'
<1> USE DEF IInv, Done
<1>1. TypeOK'
  BY DEF TypeOK
<1>2. \A q \in Requests : req'[q] = IF q = p THEN Free ELSE req[q]
  BY DEF TypeOK
<1>3. CookiesIssued'
  BY <1>2 DEF CookiesIssued, Issued, Free
<1>4. RolesFresh'
  BY <1>2 DEF RolesFresh, Issued, Free
<1>5. OverlapIsCrossed'
  BY <1>2 DEF OverlapIsCrossed
<1>6. RequestsKnowTheJar'
  BY <1>2 DEF RequestsKnowTheJar, Held, Open, Issued, Expired, Free
<1>7. CookieLasts'
  BY DEF CookieLasts
<1>8. SerialLoginsAreHeld'
  BY <1>2 DEF SerialLoginsAreHeld, Open, Issued, Expired
<1> QED
  BY <1>1, <1>3, <1>4, <1>5, <1>6, <1>7, <1>8

LEMMA SendIInv ==
    ASSUME IInv, NEW p \in Requests, NEW op \in Ops, Send(p, op)
    PROVE  IInv'
<1> DEFINE r == [pc |-> "sent", op |-> op, jwt |-> jar.jwt]
<1> USE DEF IInv, Send
<1>1. r \in Sent /\ r # Free
  BY DEF TypeOK, Sent, Free
<1>2. TypeOK'
  BY <1>1 DEF TypeOK, UnderWay
<1>3. \A q \in Requests : req'[q] = IF q = p THEN r ELSE req[q]
  BY DEF TypeOK
<1>4. CookiesIssued'
  BY <1>3 DEF CookiesIssued, Issued
<1>5. RolesFresh'
  BY <1>3 DEF RolesFresh, Issued
<1>6. OverlapIsCrossed'
  BY <1>1, <1>3 DEF OverlapIsCrossed, UnderWay
<1>7. RequestsKnowTheJar'
  BY <1>3 DEF RequestsKnowTheJar, Held, Open, Issued, Expired
<1>8. CookieLasts'
  BY DEF CookieLasts
<1>9. SerialLoginsAreHeld'
  BY <1>3, RequestKinds DEF SerialLoginsAreHeld, Open, Issued, Expired, Free
<1> QED
  BY <1>2, <1>4, <1>5, <1>6, <1>7, <1>8, <1>9

LEMMA AdmitIInv ==
    ASSUME IInv, NEW p \in Requests, Admit(p)
    PROVE  IInv'
<1> DEFINE r == [pc |-> "admitted", op |-> req[p].op, jwt |-> req[p].jwt]
<1> USE DEF IInv, Admit
<1>1. req[p] \in Sent
  BY RequestKinds
<1>2. req[p].jwt \in JwtIds
  BY <1>1 DEF Verdict, Verdicts, CarriesOut, Sent, Cookie, Ops
<1>3. r \in Admitted /\ r # Free
  BY <1>1, <1>2 DEF Sent, Admitted, Ops, Free
<1>4. TypeOK'
  BY <1>3 DEF TypeOK
<1>5. \A q \in Requests : req'[q] = IF q = p THEN r ELSE req[q]
  BY DEF TypeOK
<1>6. CookiesIssued'
  BY <1>5 DEF CookiesIssued, Issued
<1>7. RolesFresh'
  BY <1>5 DEF RolesFresh, Issued
<1>8. OverlapIsCrossed'
  BY <1>1, <1>3, <1>5 DEF OverlapIsCrossed, Sent, Free
<1>9. RequestsKnowTheJar'
  BY <1>5 DEF RequestsKnowTheJar, Held, Open, Issued, Expired
<1>10. CookieLasts'
  BY DEF CookieLasts
<1>11. SerialLoginsAreHeld'
  BY <1>5 DEF SerialLoginsAreHeld, Open, Issued, Expired
<1> QED
  BY <1>4, <1>6, <1>7, <1>8, <1>9, <1>10, <1>11

LEMMA LoginPassIInv ==
    ASSUME IInv, NEW p \in Requests, NEW u \in Mcusers, NEW j \in JwtIds,
           LoginPass(p, u, j)
    PROVE  IInv'
<1> DEFINE row == [state |-> "open", uid |-> u, roles |-> mcuser[u].roles,
                   age |-> 0, without |-> 0]
<1> DEFINE r == [pc |-> "passed", jwt |-> j, row |-> row]
<1> USE DEF IInv, LoginPass
<1>1. req[p] \in Sent
  BY RequestKinds
<1>2. mcuser[u].roles \in SUBSET Roles
  BY DEF TypeOK, Row, Deleted
<1>3. r \in Passed /\ r # Free
  BY <1>2, LifetimeAssumption DEF Passed, Ages, Free
<1>4. TypeOK'
  BY <1>3 DEF TypeOK
<1>5. \A q \in Requests : req'[q] = IF q = p THEN r ELSE req[q]
  BY DEF TypeOK
<1>6. CookiesIssued'
  BY <1>5 DEF CookiesIssued, Issued
<1>7. RolesFresh'
  BY <1>5 DEF RolesFresh, Issued
<1>8. OverlapIsCrossed'
  BY <1>1, <1>3, <1>5 DEF OverlapIsCrossed, Sent, Free
<1>9. req[p].jwt = None \/ Expired(req[p].jwt)
  BY <1>1 DEF Verdict, Verdicts, CarriesOut, Status
<1>10. \A i \in JwtIds : Held(i) => ~Open(i)
  BY <1>9, Names DEF RequestsKnowTheJar, Open
<1>11. RequestsKnowTheJar'
  BY <1>5, <1>10 DEF RequestsKnowTheJar, Held, Open, Issued, Expired
<1>12. CookieLasts'
  BY DEF CookieLasts
<1>13. SerialLoginsAreHeld'
  BY <1>5 DEF SerialLoginsAreHeld, Open, Issued, Expired
<1> QED
  BY <1>4, <1>6, <1>7, <1>8, <1>11, <1>12, <1>13

-----------------------------------------------------------------------------
(* Logins.                                                                 *)

\* What the INSERT of p's LOGIN row does to the sessions.
LEMMA InsertedLogin ==
    ASSUME IInv, NEW p \in Requests, req[p].pc = "passed", InsertLogin(p)
    PROVE  /\ req[p] \in Passed
           /\ session' \in [JwtIds -> Session \cup {Unissued}]
           /\ \A j \in JwtIds :
                 session'[j] = IF j = req[p].jwt THEN req[p].row ELSE session[j]
           /\ ~Issued(req[p].jwt)
           /\ req[p].row # Unissued
<1> USE DEF IInv, InsertLogin
<1>1. req[p] \in Passed
  BY RequestKinds
<1>2. req[p].row \in Session /\ req[p].row # Unissued
  BY <1>1 DEF Passed, Session, Unissued
<1>3. session' \in [JwtIds -> Session \cup {Unissued}]
  BY <1>1, <1>2 DEF TypeOK
<1>4. \A j \in JwtIds :
          session'[j] = IF j = req[p].jwt THEN req[p].row ELSE session[j]
  BY <1>1 DEF TypeOK
<1>5. ~Issued(req[p].jwt)
  BY DEF CookiesIssued
<1> QED
  BY <1>1, <1>2, <1>3, <1>4, <1>5

LEMMA LoginCommitIInv ==
    ASSUME IInv, NEW p \in Requests, LoginCommit(p)
    PROVE  IInv'
<1> DEFINE j == req[p].jwt
<1> DEFINE r == [pc |-> "replied", set |-> j]
<1> USE DEF IInv, LoginCommit, Reply
<1>1. /\ req[p] \in Passed
      /\ session' \in [JwtIds -> Session \cup {Unissued}]
      /\ \A i \in JwtIds : session'[i] = IF i = j THEN req[p].row ELSE session[i]
      /\ ~Issued(j) /\ req[p].row # Unissued
  BY InsertedLogin
<1>2. j \in JwtIds /\ r \in Replied /\ r # Free
  BY <1>1 DEF Passed, Replied, Free
<1>3. TypeOK'
  BY <1>1, <1>2 DEF TypeOK
<1>4. \A q \in Requests : req'[q] = IF q = p THEN r ELSE req[q]
  BY DEF TypeOK
<1>5. \A i \in JwtIds : Issued(i)' <=> Issued(i) \/ i = j
  BY <1>1 DEF Issued
<1>6. CookiesIssued'
  BY <1>1, <1>2, <1>4, <1>5, PassedJwts DEF CookiesIssued
<1>7. RolesFresh'
  BY <1>1, <1>4, <1>5 DEF RolesFresh
<1>8. OverlapIsCrossed'
  BY <1>1, <1>2, <1>4 DEF OverlapIsCrossed, Passed, Free
<1>9. \A i \in JwtIds : i # j => (Open(i)' <=> Open(i))
  BY <1>1, <1>5 DEF Open, Expired
<1>10. jar.jwt # j
  BY <1>1, <1>2 DEF CookiesIssued
<1>11. RequestsKnowTheJar'
  BY <1>4, <1>9, <1>10 DEF RequestsKnowTheJar, Held
<1>12. CookieLasts'
  BY <1>1, <1>10 DEF CookieLasts
<1>13. SerialLoginsAreHeld'
  BY <1>2, <1>4, <1>9 DEF SerialLoginsAreHeld
<1> QED
  BY <1>3, <1>6, <1>7, <1>8, <1>11, <1>12, <1>13

LEMMA LoginUnsignedIInv ==
    ASSUME IInv, NEW p \in Requests, LoginUnsigned(p)
    PROVE  IInv'
<1> DEFINE j == req[p].jwt
<1> USE DEF IInv, LoginUnsigned, ReplyBare, Done
<1>1. /\ req[p] \in Passed
      /\ session' \in [JwtIds -> Session \cup {Unissued}]
      /\ \A i \in JwtIds : session'[i] = IF i = j THEN req[p].row ELSE session[i]
      /\ ~Issued(j) /\ req[p].row # Unissued
  BY InsertedLogin
<1>2. j \in JwtIds
  BY <1>1 DEF Passed
<1>3. TypeOK'
  BY <1>1, <1>2 DEF TypeOK
<1>4. \A q \in Requests : req'[q] = IF q = p THEN Free ELSE req[q]
  BY DEF TypeOK
<1>5. \A i \in JwtIds : Issued(i)' <=> Issued(i) \/ i = j
  BY <1>1 DEF Issued
<1>6. CookiesIssued'
  BY <1>1, <1>2, <1>4, <1>5, PassedJwts DEF CookiesIssued, Free
<1>7. RolesFresh'
  BY <1>1, <1>4, <1>5 DEF RolesFresh, Free
<1>8. OverlapIsCrossed'
  BY <1>4 DEF OverlapIsCrossed
<1>9. \A i \in JwtIds : i # j => (Open(i)' <=> Open(i))
  BY <1>1, <1>5 DEF Open, Expired
<1>10. jar.jwt # j
  BY <1>1, <1>2 DEF CookiesIssued
<1>11. RequestsKnowTheJar'
  BY <1>4, <1>9, <1>10 DEF RequestsKnowTheJar, Held, Free
<1>12. CookieLasts'
  BY <1>1, <1>10 DEF CookieLasts
<1>13. SerialLoginsAreHeld'
  BY <1>2, <1>4, <1>9 DEF SerialLoginsAreHeld
<1> QED
  BY <1>3, <1>6, <1>7, <1>8, <1>11, <1>12, <1>13

-----------------------------------------------------------------------------
(* Responses.                                                              *)

LEMMA ReceiveIInv ==
    ASSUME IInv, NEW p \in Requests, Receive(p)
    PROVE  IInv'
<1> USE DEF IInv, Receive, Done
<1>1. req[p] \in Replied
  BY RequestKinds
<1>2. \A q \in Requests : req'[q] = IF q = p THEN Free ELSE req[q]
  BY DEF TypeOK
<1>3. \/ /\ jar' = NoCookie
         /\ req[p].set = "expired"
      \/ /\ req[p].set \in JwtIds
         /\ jar' = [jwt |-> req[p].set, left |-> Lifetime]
  BY <1>1 DEF Replied, MaxAge
<1>4. jar' \in [jwt : Cookie, left : 0 .. Lifetime]
  BY <1>3, LifetimeAssumption DEF NoCookie, Cookie
<1>5. TypeOK'
  BY <1>4 DEF TypeOK
<1>6. CookiesIssued'
  BY <1>2, <1>3, Names DEF CookiesIssued, Issued, Free, NoCookie
<1>7. RolesFresh'
  BY <1>2 DEF RolesFresh, Issued, Free
<1>8. OverlapIsCrossed'
  BY <1>2 DEF OverlapIsCrossed
<1>9. \A q \in Requests : q # p /\ req[q] # Free => p \in crossed
  BY <1>1 DEF OverlapIsCrossed, Replied, Free
<1>10. RequestsKnowTheJar'
  <2> SUFFICES ASSUME NEW q \in Requests, NEW j \in JwtIds, Held(j)'
               PROVE  req'[q] = Free
      BY DEF RequestsKnowTheJar, Free
  <2>1. j = req[p].set /\ p \notin crossed
      BY <1>3, Names DEF Held, NoCookie
  <2> QED
      BY <2>1, <1>2, <1>9
<1>11. CookieLasts'
  <2> SUFFICES ASSUME NEW j \in JwtIds, jar'.jwt = j
               PROVE  jar'.left + session[j].age >= Lifetime
      BY DEF CookieLasts
  <2>1. j = req[p].set /\ jar'.left = Lifetime
      BY <1>3, Names DEF NoCookie
  <2>2. session[j] \in Session
      BY <1>1, <2>1, SessionKinds DEF CookiesIssued
  <2> QED
      BY <2>1, <2>2, LifetimeAssumption DEF Session, Ages
<1>12. SerialLoginsAreHeld'
  <2> SUFFICES ASSUME NEW j \in JwtIds, Open(j), j \notin astray'
               PROVE  \/ jar'.jwt = j
                      \/ \E q \in Requests : req'[q].pc = "replied" /\ req'[q].set = j
      BY DEF SerialLoginsAreHeld, Open, Issued, Expired
  <2>1. ~Held(j)
      BY DEF RequestsKnowTheJar
  <2>2. PICK q \in Requests : req[q].pc = "replied" /\ req[q].set = j
      BY <2>1 DEF SerialLoginsAreHeld, Held
  <2>3. CASE q = p
      BY <2>2, <2>3, <1>3, Names
  <2>4. CASE q # p
      BY <2>2, <2>4, <1>2
  <2> QED
      BY <2>3, <2>4
<1> QED
  BY <1>5, <1>6, <1>7, <1>8, <1>10, <1>11, <1>12

LEMMA LoseIInv ==
    ASSUME IInv, NEW p \in Requests, Lose(p)
    PROVE  IInv'
<1> USE DEF IInv, Lose, Done
<1>1. req[p] \in Replied
  BY RequestKinds
<1>2. \A q \in Requests : req'[q] = IF q = p THEN Free ELSE req[q]
  BY DEF TypeOK
<1>3. TypeOK'
  BY DEF TypeOK
<1>4. CookiesIssued'
  BY <1>2 DEF CookiesIssued, Issued, Free
<1>5. RolesFresh'
  BY <1>2 DEF RolesFresh, Issued, Free
<1>6. OverlapIsCrossed'
  BY <1>2 DEF OverlapIsCrossed
<1>7. RequestsKnowTheJar'
  BY <1>2 DEF RequestsKnowTheJar, Held, Open, Issued, Expired, Free
<1>8. CookieLasts'
  BY DEF CookieLasts
<1>9. SerialLoginsAreHeld'
  <2> SUFFICES ASSUME NEW j \in JwtIds, Open(j), j \notin astray'
               PROVE  \/ jar'.jwt = j
                      \/ \E q \in Requests : req'[q].pc = "replied" /\ req'[q].set = j
      BY DEF SerialLoginsAreHeld, Open, Issued, Expired
  <2>1. req[p].set # j
      OBVIOUS
  <2> QED
      BY <2>1, <1>2 DEF SerialLoginsAreHeld
<1> QED
  BY <1>3, <1>4, <1>5, <1>6, <1>7, <1>8, <1>9

-----------------------------------------------------------------------------
(* Steps that close sessions.                                              *)

\* Sessions may be closed or gone after the step, but are otherwise the same.
Closing ==
    /\ session' \in [JwtIds -> Session \cup {Unissued}]
    /\ \A j \in JwtIds :
          /\ Issued(j)' <=> Issued(j)
          /\ Issued(j) => /\ session'[j].age = session[j].age
                          /\ session'[j].without = session[j].without
          /\ Open(j)' => Open(j)

LEMMA BlacklistedCloses ==
    ASSUME TypeOK, NEW u, session' = Blacklisted(u)
    PROVE  /\ Closing
           /\ \A j \in JwtIds : session[j].uid = u => ~Open(j)'
<1>1. \A j \in JwtIds :
          session'[j] = IF Open(j) /\ session[j].uid = u
                        THEN [session[j] EXCEPT !.state = "closed"] ELSE session[j]
  BY DEF Blacklisted
<1>2. ASSUME NEW j \in JwtIds
      PROVE  /\ session'[j] \in Session \cup {Unissued}
             /\ session'[j] # Unissued <=> session[j] # Unissued
             /\ Issued(j) => /\ session'[j].age = session[j].age
                             /\ session'[j].without = session[j].without
             /\ Open(j)' => Open(j)
             /\ session[j].uid = u => ~Open(j)'
  <2>1. CASE Open(j) /\ session[j].uid = u
      <3>1. session[j] \in Session
          BY <2>1, SessionKinds DEF Open
      <3>2. session'[j] = [session[j] EXCEPT !.state = "closed"]
          BY <2>1, <1>1
      <3>3. /\ session'[j] \in Session
            /\ session'[j].state = "closed"
            /\ session'[j].age = session[j].age
            /\ session'[j].without = session[j].without
            /\ session'[j] # Unissued /\ session[j] # Unissued
          BY <3>1, <3>2 DEF Session, Unissued
      <3> QED
          BY <2>1, <3>3 DEF Open
  <2>2. CASE ~(Open(j) /\ session[j].uid = u)
      <3>1. session'[j] = session[j]
          BY <2>2, <1>1
      <3>2. session[j] \in Session \cup {Unissued}
          BY DEF TypeOK
      <3>3. Open(j)' <=> Open(j)
          BY <3>1 DEF Open, Issued, Expired
      <3> QED
          BY <2>2, <3>1, <3>2, <3>3
  <2> QED
      BY <2>1, <2>2
<1>3. session' \in [JwtIds -> Session \cup {Unissued}]
  BY <1>2 DEF Blacklisted
<1> QED
  BY <1>2, <1>3 DEF Closing, Issued

LEMMA LogoutCloses ==
    ASSUME IInv, NEW p \in Requests, Logout(p), NEW j, j = req[p].jwt
    PROVE  Closing /\ ~Open(j)'
<1> USE DEF IInv, Logout
<1>1. j \in JwtIds /\ Issued(j)
  BY RequestKinds DEF At, Admitted, CookiesIssued
<1>2. session[j] \in Session
  BY <1>1, SessionKinds
<1>3. \A i \in JwtIds :
          session'[i] = IF i = j THEN [session[j] EXCEPT !.state = "closed"]
                        ELSE session[i]
  BY <1>1 DEF TypeOK
<1>4. /\ session'[j] \in Session
      /\ session'[j].state = "closed"
      /\ session'[j].age = session[j].age
      /\ session'[j].without = session[j].without
      /\ session'[j] # Unissued /\ session[j] # Unissued
  BY <1>1, <1>2, <1>3 DEF Session, Unissued
<1>5. session' \in [JwtIds -> Session \cup {Unissued}]
  BY <1>4 DEF TypeOK
<1>6. ~Open(j)'
  BY <1>4 DEF Open
<1>7. \A i \in JwtIds : i # j => (Open(i)' <=> Open(i))
  BY <1>3 DEF Open, Issued, Expired
<1> QED
  BY <1>3, <1>4, <1>5, <1>6, <1>7 DEF Closing, Issued

LEMMA DeleteCloses ==
    ASSUME TypeOK, NEW u \in Mcusers, Delete(u)
    PROVE  Closing
<1>1. \A j \in JwtIds :
          session'[j] = IF Issued(j) /\ session[j].uid = u
                        THEN [session[j] EXCEPT !.state = "gone"] ELSE session[j]
  BY DEF Delete
<1>2. ASSUME NEW j \in JwtIds
      PROVE  /\ session'[j] \in Session \cup {Unissued}
             /\ session'[j] # Unissued <=> session[j] # Unissued
             /\ Issued(j) => /\ session'[j].age = session[j].age
                             /\ session'[j].without = session[j].without
             /\ Open(j)' => Open(j)
  <2>1. CASE Issued(j) /\ session[j].uid = u
      <3>1. session[j] \in Session
          BY <2>1, SessionKinds
      <3>2. session'[j] = [session[j] EXCEPT !.state = "gone"]
          BY <2>1, <1>1
      <3>3. /\ session'[j] \in Session
            /\ session'[j].state = "gone"
            /\ session'[j].age = session[j].age
            /\ session'[j].without = session[j].without
            /\ session'[j] # Unissued /\ session[j] # Unissued
          BY <3>1, <3>2 DEF Session, Unissued
      <3> QED
          BY <2>1, <3>3 DEF Open
  <2>2. CASE ~(Issued(j) /\ session[j].uid = u)
      <3>1. session'[j] = session[j]
          BY <2>2, <1>1
      <3>2. session[j] \in Session \cup {Unissued}
          BY DEF TypeOK
      <3>3. Open(j)' <=> Open(j)
          BY <3>1 DEF Open, Issued, Expired
      <3> QED
          BY <2>2, <3>1, <3>2, <3>3
  <2> QED
      BY <2>1, <2>2
<1>3. session' \in [JwtIds -> Session \cup {Unissued}]
  BY <1>2 DEF Delete
<1> QED
  BY <1>2, <1>3 DEF Closing, Issued

\* Sessions closed with no request moving.
LEMMA ElsewhereIInv ==
    ASSUME IInv, Closing, mcuser' \in [Mcusers -> Row \cup {Deleted}],
           changes' \in 0 .. MaxChanges, UNCHANGED <<jar, req, crossed, astray>>
    PROVE  IInv'
<1> USE DEF IInv, Closing
<1>1. TypeOK'
  BY DEF TypeOK
<1>2. CookiesIssued'
  BY PassedJwts DEF CookiesIssued
<1>3. RolesFresh'
  BY DEF RolesFresh
<1>4. OverlapIsCrossed'
  BY DEF OverlapIsCrossed
<1>5. RequestsKnowTheJar'
  BY DEF RequestsKnowTheJar, Held
<1>6. CookieLasts'
  BY DEF CookieLasts, CookiesIssued
<1>7. SerialLoginsAreHeld'
  BY DEF SerialLoginsAreHeld
<1> QED
  BY <1>1, <1>2, <1>3, <1>4, <1>5, <1>6, <1>7

\* Sessions closed by a request whose response takes the cookie away.
LEMMA ExpiringReplyIInv ==
    ASSUME IInv, Closing, NEW p \in Requests, req[p].pc = "admitted",
           Reply(p, "expired"), UNCHANGED <<mcuser, astray>>,
           \A j \in JwtIds : j = req[p].jwt => ~Open(j)'
    PROVE  IInv'
<1> DEFINE r == [pc |-> "replied", set |-> "expired"]
<1> USE DEF IInv, Closing, Reply
<1>1. r \in Replied /\ r # Free /\ req[p] # Free
  BY RequestKinds DEF Replied, Free
<1>2. \A q \in Requests : req'[q] = IF q = p THEN r ELSE req[q]
  BY DEF TypeOK
<1>3. TypeOK'
  BY <1>1 DEF TypeOK
<1>4. CookiesIssued'
  BY <1>2, Names, PassedJwts DEF CookiesIssued
<1>5. RolesFresh'
  BY <1>2 DEF RolesFresh
<1>6. OverlapIsCrossed'
  BY <1>1, <1>2 DEF OverlapIsCrossed
<1>7. RequestsKnowTheJar'
  BY <1>2 DEF RequestsKnowTheJar, Held
<1>8. CookieLasts'
  BY DEF CookieLasts, CookiesIssued
<1>9. SerialLoginsAreHeld'
  BY <1>2 DEF SerialLoginsAreHeld
<1> QED
  BY <1>3, <1>4, <1>5, <1>6, <1>7, <1>8, <1>9

LEMMA LogoutIInv ==
    ASSUME IInv, NEW p \in Requests, Logout(p)
    PROVE  IInv'
<1>1. Closing /\ \A j \in JwtIds : j = req[p].jwt => ~Open(j)'
  BY LogoutCloses DEF Closing
<1>2. Closing
  BY LogoutCloses
<1> QED
  BY <1>1, <1>2, ExpiringReplyIInv DEF Logout, At

LEMMA InvalidateIInv ==
    ASSUME IInv, NEW p \in Requests, NEW u, InvalidateJwtsFor(p, u)
    PROVE  IInv'
<1> USE DEF InvalidateJwtsFor, At
<1>1. TypeOK
  BY DEF IInv
<1>2. Closing /\ \A j \in JwtIds : session[j].uid = u => ~Open(j)'
  BY <1>1, BlacklistedCloses
<1>3. CASE OwnSessions(req[p].jwt, u)
  <2>1. \A j \in JwtIds : j = req[p].jwt => ~Open(j)'
      BY <1>2, <1>3 DEF OwnSessions
  <2> QED
      BY <1>2, <1>3, <2>1, ExpiringReplyIInv
<1>4. CASE ~OwnSessions(req[p].jwt, u)
  <2> USE DEF IInv, Closing, ReplyBare, Done
  <2>1. \A q \in Requests : req'[q] = IF q = p THEN Free ELSE req[q]
      BY <1>1, <1>4 DEF TypeOK
  <2>2. TypeOK'
      BY <1>2, <1>4 DEF TypeOK
  <2>3. CookiesIssued'
      BY <1>1, <1>2, <1>4, <2>1, PassedJwts DEF CookiesIssued, Free
  <2>4. RolesFresh'
      BY <1>2, <1>4, <2>1 DEF RolesFresh, Free
  <2>5. OverlapIsCrossed'
      BY <1>4, <2>1 DEF OverlapIsCrossed
  <2>6. RequestsKnowTheJar'
      BY <1>2, <1>4, <2>1 DEF RequestsKnowTheJar, Held, Free
  <2>7. CookieLasts'
      BY <1>2, <1>4 DEF CookieLasts, CookiesIssued
  <2>8. SerialLoginsAreHeld'
      BY <1>2, <1>4, <2>1 DEF SerialLoginsAreHeld
  <2> QED
      BY <2>2, <2>3, <2>4, <2>5, <2>6, <2>7, <2>8
<1> QED
  BY <1>3, <1>4

LEMMA AdministerIInv ==
    ASSUME IInv, NEW u \in Mcusers, Administer(u)
    PROVE  IInv'
<1> USE DEF Administer
<1>1. TypeOK
  BY DEF IInv
<1>2. changes' \in 0 .. MaxChanges
  BY <1>1, LifetimeAssumption DEF TypeOK
<1>3. ASSUME NEW named \in McuserToUpdate, Update(u, named)
      PROVE  IInv'
  <2> DEFINE d == ToBackend(named)
  <2> DEFINE status == WhenNotNull(d.status, Null, mcuser[u].status)
  <2> DEFINE roles == WhenNotNull(d.roles, NullRoles, mcuser[u].roles)
  <2>1. mcuser[u] \in Row
      BY <1>1, <1>3 DEF TypeOK, Update, UpdateMcuser, Present, Deleted, Statuses
  <2>2. d.status \in Statuses \cup {Null} /\ d.roles \in SUBSET Roles
      BY DEF McuserToUpdate, ToBackend, RolesArray
  <2>3. status \in Statuses /\ roles \in SUBSET Roles
      BY <2>1, <2>2 DEF WhenNotNull, Row
  <2>4. [status |-> status, roles |-> roles] \in Row
      BY <2>3 DEF Row
  <2>5. mcuser' = [mcuser EXCEPT ![u] = [status |-> status, roles |-> roles]]
      BY <1>3 DEF Update, UpdateMcuser
  <2>6. mcuser' \in [Mcusers -> Row \cup {Deleted}]
      BY <1>1, <2>4, <2>5 DEF TypeOK
  <2>7. Closing
      BY <1>1, <1>3 DEF TypeOK, Update, Closing, Open, Issued, Expired
  <2> QED
      BY <1>2, <1>3, <2>6, <2>7, ElsewhereIInv DEF Update
<1>4. CASE Delete(u)
  <2>1. mcuser' \in [Mcusers -> Row \cup {Deleted}]
      BY <1>1, <1>4 DEF TypeOK, Delete, DeleteMcuser
  <2>2. Closing
      BY <1>1, <1>4, DeleteCloses
  <2> QED
      BY <1>2, <1>4, <2>1, <2>2, ElsewhereIInv DEF Delete
<1>5. CASE InvalidateElsewhere(u)
  <2>1. Closing
      BY <1>1, <1>5, BlacklistedCloses DEF InvalidateElsewhere
  <2> QED
      BY <1>1, <1>2, <1>5, <2>1, ElsewhereIInv DEF InvalidateElsewhere, TypeOK
<1> QED
  BY <1>3, <1>4, <1>5

-----------------------------------------------------------------------------
(* Time.                                                                   *)

LEMMA OlderAge ==
    ASSUME NEW a \in Ages, NEW b \in Ages, a <= b
    PROVE  /\ Older(a) \in Ages /\ Older(b) \in Ages
           /\ 0 <= Older(b) /\ Older(a) <= Older(b)
           /\ b <= Older(b)
           /\ b >= Lifetime => Older(b) > Lifetime
           /\ b < Lifetime => Older(b) = b + 1
           /\ b > Lifetime => Older(b) > Lifetime
BY LifetimeAssumption DEF Older, Ages

\* What a tick does to a LOGIN row.
LEMMA AgedRow ==
    ASSUME NEW s \in Session, s.without <= s.age
    PROVE  /\ Aged(s) \in Session
           /\ Aged(s).state = s.state
           /\ Aged(s).age = Older(s.age)
           /\ Aged(s).without <= Aged(s).age
           /\ Aged(s) # Unissued
<1> DEFINE w == IF Present(s.uid) /\ mcuser[s.uid].roles = s.roles
                THEN 0 ELSE Older(s.without)
<1>1. s.age \in Ages /\ s.without \in Ages
  BY DEF Session
<1>2. Older(s.age) \in Ages /\ w \in Ages /\ w <= Older(s.age)
  BY <1>1, OlderAge, LifetimeAssumption DEF Ages
<1>3. Aged(s) = [s EXCEPT !.age = Older(s.age), !.without = w]
  BY DEF Aged
<1> HIDE DEF w
<1>4. /\ Aged(s) \in Session
      /\ Aged(s).state = s.state
      /\ Aged(s).age = Older(s.age)
      /\ Aged(s).without = w
  BY <1>2, <1>3 DEF Session
<1> QED
  BY <1>2, <1>4 DEF Session, Unissued

LEMMA TickIInv == IInv /\ Tick => IInv'
<1> SUFFICES ASSUME IInv, Tick PROVE IInv'
    OBVIOUS
<1> USE DEF IInv, Tick
<1>1. ASSUME NEW j \in JwtIds
      PROVE  /\ Issued(j)' <=> Issued(j)
             /\ session'[j] \in Session \cup {Unissued}
             /\ Issued(j) => /\ session'[j].without <= session'[j].age
                             /\ session'[j].age = Older(session[j].age)
                             /\ session'[j].state = session[j].state
  <2>1. CASE Issued(j)
      <3>1. session[j] \in Session /\ session[j].without <= session[j].age
          BY <2>1, SessionKinds DEF RolesFresh
      <3>2. session'[j] = Aged(session[j])
          BY <2>1
      <3> QED
          BY <2>1, <3>1, <3>2, AgedRow DEF Issued
  <2>2. CASE ~Issued(j)
      BY <2>2, SessionKinds DEF Issued
  <2> QED
      BY <2>1, <2>2
<1>2. ASSUME NEW j \in JwtIds, Issued(j)
      PROVE  /\ session[j].age \in Ages /\ session'[j].age \in Ages
             /\ session'[j].age >= session[j].age
             /\ session[j].age >= Lifetime => session'[j].age > Lifetime
             /\ session[j].age < Lifetime => session'[j].age = session[j].age + 1
  <2>1. session[j].age \in Ages
      BY <1>2, SessionKinds DEF Session
  <2> QED
      BY <1>1, <1>2, <2>1, OlderAge DEF Ages
<1>3. ASSUME NEW j \in JwtIds, Open(j)'
      PROVE  Open(j)
  BY <1>1, <1>2, <1>3, LifetimeAssumption DEF Open, Expired, Ages
<1>4. ASSUME NEW p \in Requests, req[p].pc = "passed"
      PROVE  /\ req[p] \in Passed
             /\ req'[p] = [req[p] EXCEPT !.row = Aged(req[p].row)]
             /\ Aged(req[p].row) \in Session
             /\ Aged(req[p].row).state = "open"
             /\ Aged(req[p].row).without <= Aged(req[p].row).age
  <2>1. req[p] \in Passed
      BY <1>4, RequestKinds
  <2>2. req[p].row \in Session /\ req[p].row.state = "open"
      BY <2>1 DEF Passed, Session
  <2>3. req[p].row.without <= req[p].row.age
      BY <1>4 DEF RolesFresh
  <2> QED
      BY <1>4, <2>1, <2>2, <2>3, AgedRow
<1>5. ASSUME NEW p \in Requests
      PROVE  /\ req'[p].pc = req[p].pc
             /\ req[p].pc # "passed" => req'[p] = req[p]
             /\ req[p].pc = "passed" => /\ req'[p] \in Passed
                                        /\ req'[p].jwt = req[p].jwt
                                        /\ req'[p].row.without <= req'[p].row.age
             /\ req'[p] # Free <=> req[p] # Free
  <2>1. CASE req[p].pc = "passed"
      BY <1>4, <2>1 DEF Passed, Session, Free
  <2>2. CASE req[p].pc # "passed"
      BY <2>2
  <2> QED
      BY <2>1, <2>2
<1>6. jar' \in [jwt : Cookie, left : 0 .. Lifetime]
  BY LifetimeAssumption DEF TypeOK, JarAged, NoCookie, Cookie
<1>7. \/ jar' = NoCookie
      \/ jar'.jwt = jar.jwt /\ jar'.left = jar.left - 1
  BY DEF TypeOK, JarAged
<1>8. TypeOK'
  <2>1. session' \in [JwtIds -> Session \cup {Unissued}]
      BY <1>1
  <2>2. req' \in [Requests -> {Free} \cup Sent \cup Admitted \cup Passed \cup Replied]
      <3>1. \A p \in Requests :
                req'[p] \in {Free} \cup Sent \cup Admitted \cup Passed \cup Replied
          BY <1>5 DEF TypeOK
      <3> QED
          BY <3>1
  <2> QED
      BY <1>6, <2>1, <2>2 DEF TypeOK
<1>9. CookiesIssued'
  BY <1>1, <1>5, <1>7, Names, PassedJwts DEF CookiesIssued, NoCookie
<1>10. RolesFresh'
  BY <1>1, <1>5 DEF RolesFresh
<1>11. OverlapIsCrossed'
  BY <1>5 DEF OverlapIsCrossed
<1>12. RequestsKnowTheJar'
  BY <1>3, <1>5, <1>7, Names DEF RequestsKnowTheJar, Held, NoCookie
<1>13. CookieLasts'
  <2> SUFFICES ASSUME NEW j \in JwtIds, jar'.jwt = j
               PROVE  jar'.left + session'[j].age >= Lifetime
      BY DEF CookieLasts
  <2>1. jar.jwt = j /\ jar'.left = jar.left - 1
      BY <1>7, Names DEF NoCookie
  <2>2. Issued(j) /\ jar.left + session[j].age >= Lifetime
      BY <2>1 DEF CookiesIssued, CookieLasts
  <2>3. jar.left \in Nat /\ jar'.left \in Nat
      BY <1>6 DEF TypeOK
  <2> QED
      BY <1>2, <2>1, <2>2, <2>3, LifetimeAssumption DEF Ages
<1>14. SerialLoginsAreHeld'
  <2> SUFFICES ASSUME NEW j \in JwtIds, Open(j)', j \notin astray
               PROVE  \/ jar'.jwt = j
                      \/ \E p \in Requests : req'[p].pc = "replied" /\ req'[p].set = j
      BY DEF SerialLoginsAreHeld
  <2>1. Open(j)
      BY <1>3
  <2>2. CASE jar.jwt = j
      <3>1. session'[j].age <= Lifetime
          BY <1>1, <1>2, <2>1, LifetimeAssumption DEF Open, Expired, Ages
      <3>2. session[j].age < Lifetime
          BY <1>2, <2>1, <3>1, LifetimeAssumption DEF Open, Ages
      <3>3. jar.left # 0
          BY <1>2, <2>1, <2>2, <3>2, LifetimeAssumption DEF CookieLasts, Open, Ages
      <3> QED
          BY <2>2, <3>3 DEF JarAged, TypeOK
  <2>3. CASE jar.jwt # j
      BY <1>5, <2>1, <2>3 DEF SerialLoginsAreHeld
  <2> QED
      BY <2>2, <2>3
<1> QED
  BY <1>8, <1>9, <1>10, <1>11, <1>12, <1>13, <1>14

-----------------------------------------------------------------------------
LEMMA NextIInv == IInv /\ [Next]_vars => IInv'
<1> SUFFICES ASSUME IInv, [Next]_vars PROVE IInv'
    OBVIOUS
<1>1. ASSUME NEW p \in Requests, NEW op \in Ops, Send(p, op) PROVE IInv'
  BY <1>1, SendIInv
<1>2. ASSUME NEW p \in Requests, Receive(p) PROVE IInv'
  BY <1>2, ReceiveIInv
<1>3. ASSUME NEW p \in Requests, Lose(p) PROVE IInv'
  BY <1>3, LoseIInv
<1>4. ASSUME NEW p \in Requests, Serve(p) PROVE IInv'
  <2>1. CASE Admit(p)
      BY <2>1, AdmitIInv
  <2>2. CASE Refuse(p) \/ Fail(p) \/ LoginFail(p)
      BY <2>2, BareIInv DEF Refuse, Fail, LoginFail, ReplyBare
  <2>3. ASSUME NEW u \in Mcusers, NEW j \in JwtIds, LoginPass(p, u, j) PROVE IInv'
      BY <2>3, LoginPassIInv
  <2>4. CASE LoginCommit(p) \/ LoginUnsigned(p)
      BY <2>4, LoginCommitIInv, LoginUnsignedIInv
  <2>5. CASE Logout(p)
      BY <2>5, LogoutIInv
  <2>6. ASSUME NEW u \in Mcusers \cup {Stranger}, InvalidateJwtsFor(p, u) PROVE IInv'
      BY <2>6, InvalidateIInv
  <2> QED
      BY <1>4, <2>1, <2>2, <2>3, <2>4, <2>5, <2>6 DEF Serve
<1>5. ASSUME NEW u \in Mcusers, Administer(u) PROVE IInv'
  BY <1>5, AdministerIInv
<1>6. CASE Tick
  BY <1>6, TickIInv
<1>7. CASE UNCHANGED vars
  BY <1>7 DEF vars, IInv, TypeOK, CookiesIssued, RolesFresh, OverlapIsCrossed,
     RequestsKnowTheJar, CookieLasts, SerialLoginsAreHeld, Held, Open, Issued, Expired
<1> QED
  BY <1>1, <1>2, <1>3, <1>4, <1>5, <1>6, <1>7 DEF Next

\* A session opened with no other request under way is held by the browser as
\* long as it is open, with any number of mcusers, JWTs and requests, whatever
\* jwtUserLogout, jwtInvalidateAllForUser and administrators do.
THEOREM SerialLogins == Spec => []SerialLoginsAreHeld
<1>1. IInv => SerialLoginsAreHeld
  BY DEF IInv
<1> QED
  BY InitIInv, NextIInv, <1>1, PTL DEF Spec

\* The variables keep the types TypeOK gives them.
THEOREM TypeCorrect == Spec => []TypeOK
<1>1. IInv => TypeOK
  BY DEF IInv
<1> QED
  BY InitIInv, NextIInv, <1>1, PTL DEF Spec

\* The gate admits a request only under roles that its mcuser had within the
\* lifetime of a JWT.
THEOREM RolesBounded == Spec => RolesAreBounded
<1>1. IInv /\ [Next]_vars =>
        [\A p \in Requests :
            req[p].pc = "sent" /\ req'[p].pc = "admitted"
            => session[req[p].jwt].without <= Lifetime]_vars
  <2> SUFFICES ASSUME IInv, Next, NEW p \in Requests,
                      req[p].pc = "sent", req'[p].pc = "admitted"
               PROVE  session[req[p].jwt].without <= Lifetime
      BY DEF vars
  <2> USE RequestKinds DEF IInv
  <2>1. req \in [Requests -> {Free} \cup Sent \cup Admitted \cup Passed \cup Replied]
      BY DEF TypeOK
  <2>2. ASSUME NEW q \in Requests, NEW op \in Ops, Send(q, op) PROVE FALSE
      BY <2>1, <2>2 DEF Send, Free
  <2>3. ASSUME NEW q \in Requests, Receive(q) \/ Lose(q) PROVE FALSE
      BY <2>1, <2>3 DEF Receive, Lose, Done, Free
  <2>4. ASSUME NEW u \in Mcusers, Administer(u) PROVE FALSE
      BY <2>4 DEF Administer, Update, Delete, InvalidateElsewhere
  <2>5. ASSUME Tick PROVE FALSE
      BY <2>1, <2>5 DEF Tick
  <2>6. PICK q \in Requests : Serve(q)
      BY <2>2, <2>3, <2>4, <2>5 DEF Next
  <2>7. ASSUME Refuse(q) \/ Fail(q) \/ LoginFail(q) PROVE FALSE
      BY <2>1, <2>7 DEF Refuse, Fail, LoginFail, ReplyBare, Done, Free
  <2>8. ASSUME NEW u \in Mcusers, NEW j \in JwtIds, LoginPass(q, u, j) PROVE FALSE
      BY <2>1, <2>8 DEF LoginPass
  <2>9. ASSUME LoginCommit(q) \/ LoginUnsigned(q) PROVE FALSE
      BY <2>1, <2>9 DEF LoginCommit, LoginUnsigned, Reply, ReplyBare, Done, Free
  <2>10. ASSUME Logout(q) PROVE FALSE
      BY <2>1, <2>10 DEF Logout, Reply
  <2>11. ASSUME NEW u \in Mcusers \cup {Stranger}, InvalidateJwtsFor(q, u) PROVE FALSE
      BY <2>1, <2>11 DEF InvalidateJwtsFor, Reply, ReplyBare, Done, Free
  <2>12. Admit(q)
      BY <2>6, <2>7, <2>8, <2>9, <2>10, <2>11 DEF Serve
  <2>13. q = p
      BY <2>1, <2>12 DEF Admit
  <2>14. req[p].jwt \in JwtIds /\ ~Expired(req[p].jwt)
      BY <2>12, <2>13 DEF Admit, Sent, Verdict, Verdicts, CarriesOut, Cookie, Ops
  <2>15. Issued(req[p].jwt)
      BY <2>14 DEF CookiesIssued
  <2>16. session[req[p].jwt] \in Session
      BY <2>14, <2>15, SessionKinds
  <2> QED
      BY <2>14, <2>15, <2>16, LifetimeAssumption DEF RolesFresh, Expired, Session, Ages
<1> QED
  BY InitIInv, NextIInv, <1>1, PTL DEF Spec, RolesAreBounded

-----------------------------------------------------------------------------
(* How long a cookie stays.                                                *)

\* At most one response on its way, or the jar, has j's cookie: a login makes
\* it of a JWT that nobody has seen, and each response is received once.
SetOnce ==
    \A p \in Requests : req[p].pc = "replied" /\ req[p].set \in JwtIds =>
        /\ jar.jwt # req[p].set
        /\ \A q \in Requests \ {p} :
              req[q].pc = "replied" => req[q].set # req[p].set

\* The cookies in responses on their way stay the same, or become fewer.
NoNewCookies ==
    \A q \in Requests : req'[q].pc = "replied" /\ req'[q].set \in JwtIds =>
        req'[q] = req[q]

\* Requests that are not answered with a new JWT.
LEMMA BareCookies ==
    ASSUME IInv, NEW p \in Requests, NEW r,
           r.pc = "replied" => r.set \notin JwtIds,
           req' = [req EXCEPT ![p] = r]
    PROVE  NoNewCookies
BY DEF IInv, TypeOK, NoNewCookies

\* Only a login sets a JWT, and only responses and time change the jar.
LEMMA ServedCookies ==
    ASSUME IInv, NEW p \in Requests, Serve(p), ~LoginCommit(p)
    PROVE  NoNewCookies /\ jar' = jar
<1> USE BareCookies
<1>1. CASE Admit(p)
  BY <1>1 DEF Admit
<1>2. ASSUME Done(p) PROVE NoNewCookies
  BY <1>2 DEF Done, Free
<1>3. CASE Refuse(p) \/ Fail(p) \/ LoginFail(p) \/ LoginUnsigned(p)
  BY <1>2, <1>3 DEF Refuse, Fail, LoginFail, LoginUnsigned, ReplyBare
<1>4. ASSUME NEW u \in Mcusers, NEW j \in JwtIds, LoginPass(p, u, j)
      PROVE  NoNewCookies /\ jar' = jar
  BY <1>4 DEF LoginPass
<1>5. ASSUME Reply(p, "expired") PROVE NoNewCookies
  BY <1>5, Names DEF Reply
<1>6. CASE Logout(p)
  BY <1>5, <1>6 DEF Logout, Reply
<1>7. ASSUME NEW u \in Mcusers \cup {Stranger}, InvalidateJwtsFor(p, u)
      PROVE  NoNewCookies /\ jar' = jar
  BY <1>2, <1>5, <1>7 DEF InvalidateJwtsFor, Reply, ReplyBare
<1> QED
  BY <1>1, <1>3, <1>4, <1>6, <1>7 DEF Serve

LEMMA CookieSteps ==
    ASSUME IInv, [Next]_vars
    PROVE  \/ NoNewCookies /\ jar' = jar
           \/ NoNewCookies /\ jar' = JarAged
           \/ \E p \in Requests : Receive(p) \/ LoginCommit(p)
<1>1. ASSUME NEW p \in Requests, NEW op \in Ops, Send(p, op)
      PROVE  NoNewCookies /\ jar' = jar
  BY <1>1, BareCookies DEF Send
<1>2. ASSUME NEW p \in Requests, Lose(p) PROVE NoNewCookies /\ jar' = jar
  BY <1>2, BareCookies DEF Lose, Done, Free
<1>3. ASSUME NEW u \in Mcusers, Administer(u) PROVE NoNewCookies /\ jar' = jar
  BY <1>3 DEF Administer, Update, Delete, InvalidateElsewhere, NoNewCookies
<1>4. CASE Tick
  <2>1. \A p \in Requests : req[p].pc = "passed" =>
            [req[p] EXCEPT !.row = Aged(@)].pc = "passed"
    BY RequestKinds DEF IInv, Passed
  <2>2. NoNewCookies
    BY <1>4, <2>1 DEF Tick, NoNewCookies
  <2> QED
    BY <1>4, <2>2 DEF Tick
<1>5. CASE UNCHANGED vars
  BY <1>5 DEF vars, NoNewCookies
<1> QED
  BY <1>1, <1>2, <1>3, <1>4, <1>5, ServedCookies DEF Next

\* A LOGIN row is never as if it had not been written.
LEMMA IssuedStays ==
    ASSUME IInv, [Next]_vars, NEW j \in JwtIds, Issued(j)
    PROVE  Issued(j)'
<1> USE DEF IInv
<1>1. ASSUME NEW p \in Requests, LoginCommit(p) \/ LoginUnsigned(p)
      PROVE  Issued(j)'
  BY <1>1, InsertedLogin DEF LoginCommit, LoginUnsigned, Issued
<1>2. session[j] \in Session
  BY SessionKinds
<1>3. ASSUME session'[j] = [session[j] EXCEPT !.state = "closed"]
             \/ session'[j] = [session[j] EXCEPT !.state = "gone"]
             \/ session'[j] = Aged(session[j]) \/ session'[j] = session[j]
      PROVE  Issued(j)'
  BY <1>2, <1>3 DEF Session, Issued, Unissued, Aged
<1>4. ASSUME NEW p \in Requests, Logout(p) PROVE Issued(j)'
  BY <1>3, <1>4 DEF TypeOK, Logout
<1>5. ASSUME NEW u, session' = Blacklisted(u) PROVE Issued(j)'
  BY <1>3, <1>5 DEF Blacklisted
<1>6. ASSUME NEW u \in Mcusers, Administer(u) PROVE Issued(j)'
  BY <1>3, <1>5, <1>6 DEF Administer, Update, Delete, InvalidateElsewhere
<1>7. ASSUME NEW p \in Requests, Serve(p) PROVE Issued(j)'
  BY <1>1, <1>3, <1>4, <1>5, <1>7
     DEF Serve, Admit, Refuse, Fail, LoginPass, LoginFail, InvalidateJwtsFor
<1>8. ASSUME NEW p \in Requests, Receive(p) \/ Lose(p) \/ \E op \in Ops : Send(p, op)
      PROVE  Issued(j)'
  BY <1>3, <1>8 DEF Receive, Lose, Send
<1>9. CASE Tick
  BY <1>3, <1>9 DEF Tick
<1>10. CASE UNCHANGED vars
  BY <1>3, <1>10 DEF vars
<1> QED
  BY <1>6, <1>7, <1>8, <1>9, <1>10 DEF Next

\* A response received takes its cookie to the jar.
LEMMA ReceivedCookie ==
    ASSUME IInv, NEW p \in Requests, Receive(p)
    PROVE  /\ NoNewCookies
           /\ req'[p] = Free
           /\ \/ req[p].set = "expired" /\ jar' = NoCookie
              \/ /\ req[p].set \in JwtIds
                 /\ jar' = [jwt |-> req[p].set, left |-> Lifetime]
<1>1. req[p] \in Replied
  BY RequestKinds DEF IInv, Receive
<1>2. NoNewCookies /\ req'[p] = Free
  BY BareCookies DEF Receive, Done, Free, IInv, TypeOK
<1> QED
  BY <1>1, <1>2 DEF Receive, Replied, MaxAge

\* A login's reply sets a JWT that no cookie is of.
LEMMA CommittedCookie ==
    ASSUME IInv, NEW p \in Requests, LoginCommit(p)
    PROVE  /\ req[p].pc = "passed" /\ req[p].jwt \in JwtIds /\ ~Issued(req[p].jwt)
           /\ jar' = jar /\ jar.jwt # req[p].jwt
           /\ req' = [req EXCEPT ![p] = [pc |-> "replied", set |-> req[p].jwt]]
           /\ \A q \in Requests : req[q].pc = "replied" => req[q].set # req[p].jwt
<1>1. req[p].jwt \in JwtIds /\ ~Issued(req[p].jwt)
  BY PassedJwts DEF IInv, LoginCommit, CookiesIssued
<1> QED
  BY <1>1 DEF IInv, LoginCommit, Reply, CookiesIssued

LEMMA SetOnceStays ==
    ASSUME IInv, SetOnce, [Next]_vars
    PROVE  SetOnce'
<1>1. CASE NoNewCookies /\ (jar' = jar \/ jar' = JarAged)
  BY <1>1, Names DEF NoNewCookies, SetOnce, JarAged, NoCookie, IInv, TypeOK
<1>2. ASSUME NEW p \in Requests, Receive(p) PROVE SetOnce'
  <2>1. \A q \in Requests : req'[q].pc = "replied" /\ req'[q].set \in JwtIds =>
            req'[q] = req[q] /\ q # p
    BY <1>2, ReceivedCookie DEF NoNewCookies, Free
  <2>2. req[p].pc = "replied"
    BY <1>2 DEF Receive
  <2> QED
    BY <1>2, <2>1, <2>2, ReceivedCookie, Names DEF SetOnce, NoCookie
<1>3. ASSUME NEW p \in Requests, LoginCommit(p) PROVE SetOnce'
  <2>1. \A q \in Requests : req'[q] =
            IF q = p THEN [pc |-> "replied", set |-> req[p].jwt] ELSE req[q]
    BY <1>3, CommittedCookie DEF IInv, TypeOK
  <2> QED
    BY <1>3, <2>1, CommittedCookie DEF SetOnce
<1> QED
  BY <1>1, <1>2, <1>3, CookieSteps

LEMMA DroppedStays ==
    ASSUME IInv, [Next]_vars, NEW j \in JwtIds, Dropped(j)
    PROVE  Dropped(j)'
<1> USE DEF Dropped, OnItsWay
<1>1. Issued(j)'
  BY IssuedStays
<1>2. CASE NoNewCookies /\ (jar' = jar \/ jar' = JarAged)
  BY <1>1, <1>2, Names DEF NoNewCookies, JarAged, NoCookie, IInv, TypeOK
<1>3. ASSUME NEW p \in Requests, Receive(p) PROVE Dropped(j)'
  <2>1. req[p].pc = "replied"
    BY <1>3 DEF Receive
  <2> QED
    BY <1>1, <1>3, <2>1, ReceivedCookie, Names DEF NoNewCookies, NoCookie
<1>4. ASSUME NEW p \in Requests, LoginCommit(p) PROVE Dropped(j)'
  <2>1. \A q \in Requests : req'[q] =
            IF q = p THEN [pc |-> "replied", set |-> req[p].jwt] ELSE req[q]
    BY <1>4, CommittedCookie DEF IInv, TypeOK
  <2> QED
    BY <1>1, <1>4, <2>1, CommittedCookie
<1> QED
  BY <1>2, <1>3, <1>4, CookieSteps

\* What a step does to the cookie in the jar.
LEMMA CookieShrinks ==
    ASSUME IInv, SetOnce, [Next]_vars, NEW j \in JwtIds, jar.jwt = j
    PROVE  \/ Dropped(j)'
           \/ /\ jar'.jwt = j /\ jar'.left <= jar.left
              /\ Tick => jar'.left < jar.left
<1> USE DEF Dropped, OnItsWay
<1>1. Issued(j)'
  BY IssuedStays DEF IInv, CookiesIssued
<1>2. jar.left \in Nat /\ jar = [jwt |-> j, left |-> jar.left]
  BY LifetimeAssumption DEF IInv, TypeOK
<1>3. \A q \in Requests : req[q].pc = "replied" => req[q].set # j
  BY DEF SetOnce
<1>4. ASSUME NoNewCookies, jar'.jwt # j PROVE Dropped(j)'
  BY <1>1, <1>3, <1>4 DEF NoNewCookies
<1>5. CASE NoNewCookies /\ jar' = JarAged
  <2>1. jar' = NoCookie \/ (jar'.jwt = j /\ jar'.left = jar.left - 1)
    BY <1>2, <1>5 DEF JarAged
  <2> QED
    BY <1>2, <1>4, <1>5, <2>1, Names DEF NoCookie
<1>6. CASE Tick
  <2>1. jar' = JarAged
    BY <1>6 DEF Tick
  <2>2. NoNewCookies
    <3>1. \A p \in Requests : req[p].pc = "passed" =>
              [req[p] EXCEPT !.row = Aged(@)].pc = "passed"
      BY RequestKinds DEF IInv, Passed
    <3> QED
      BY <1>6, <3>1 DEF Tick, NoNewCookies
  <2> QED
    BY <1>5, <2>1, <2>2
<1>7. CASE ~Tick /\ jar' = jar
  BY <1>2, <1>7
<1>8. ASSUME NEW p \in Requests, Receive(p) PROVE Dropped(j)'
  <2>1. jar'.jwt # j
    BY <1>3, <1>8, ReceivedCookie, Names DEF Receive, NoCookie
  <2> QED
    BY <1>4, <1>8, <2>1, ReceivedCookie
<1> QED
  BY <1>5, <1>6, <1>7, <1>8, CookieSteps, CommittedCookie

\* A cookie's time only runs out, and a cookie that has left the jar never
\* comes back: with any number of requests and whatever is lost, no browser
\* is kept from logging in for longer than one JWT lasts.
THEOREM CookiesExpire == Spec => CookiesRunOut
<1>1. Init => SetOnce
  BY DEF Init, SetOnce, Free
<1>2. IInv /\ SetOnce /\ [Next]_vars =>
        [\A j \in JwtIds :
            /\ jar.jwt = j =>
                  \/ Dropped(j)'
                  \/ /\ jar'.jwt = j /\ jar'.left <= jar.left
                     /\ Tick => jar'.left < jar.left
            /\ Dropped(j) => Dropped(j)']_vars
  BY CookieShrinks, DroppedStays
<1> QED
  BY InitIInv, NextIInv, SetOnceStays, <1>1, <1>2, PTL DEF Spec, CookiesRunOut
=============================================================================
