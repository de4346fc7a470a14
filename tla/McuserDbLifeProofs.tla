------------------------- MODULE McuserDbLifeProofs -------------------------
(***************************************************************************)
(* McuserDb implements SessionLife, get_jwt_status gives the answer        *)
(* SessionLife promises, and a session that is over never comes back.      *)
(***************************************************************************)
EXTENDS McuserDbProofs, WellFoundedInduction

USE DEF history

\* The refinement mapping, named.
Lapsed == {t \in issued : expires[t[2]] <= clock}
Closed == {t \in issued : Ended(t[2])}

LEMMA TokenTypes ==
    ASSUME IInv, NEW t \in issued
    PROVE  t[1] \in Mcusers /\ t[2] \in JwtIds /\ t = <<t[1], t[2]>> /\ IsIssued(t[2])
BY DEF IInv, TypeOK, IsIssued

\* All rows of an issued JWT are its mcuser's.
LEMMA RowsOfToken ==
    ASSUME IInv, NEW t \in issued, NEW r \in RowsOf(t[2])
    PROVE  r.uid = t[1]
<1>1. r \in mcuser_audit /\ r.jwt_id = t[2] /\ r.type \in {"LOGIN", "LOGOUT"}
  BY DEF IInv, TypeOK, AuditRow, RowsOf
<1>2. <<r.uid, t[2]>> \in issued
  BY <1>1 DEF IInv, RowsSound, LoginRecorded
<1>3. QED
  BY <1>2, TokenTypes DEF IInv, IdsUnique

LEMMA LifeInitHolds == Init => Life!LifeInit
BY DEF Init, Life!LifeInit

LEMMA TickLife == ASSUME IInv, Tick PROVE Life!LifeNext
<1>1. Closed' = Closed
  BY DEF Tick, Closed, Ended, RowsOf
<1>2. PICK S \in SUBSET issued : S = Lapsed'
  BY DEF Tick, Lapsed
<1>3. Lapsed' = Lapsed \cup S
  BY <1>2 DEF Tick, Lapsed, IInv, TypeOK
<1>4. Life!Lapse(S)
  BY <1>1, <1>3 DEF Life!Lapse, Tick, Lapsed, Closed
<1>5. QED
  BY <1>4 DEF Life!LifeNext

LEMMA AccountLife == ASSUME IInv, AccountStep PROVE Life!LifeNext
<1>1. ASSUME NEW u \in Mcusers, NEW s \in {"ACTIVE", "INACTIVE"},
             InsertMcuser(u, s) \/ UpdateMcuserStatus(u, s)
      PROVE  Life!LifeNext
  <2>1. Closed' = Closed /\ Lapsed' = Lapsed
    BY <1>1 DEF InsertMcuser, UpdateMcuserStatus, Closed, Lapsed, Ended, RowsOf
  <2>2. Life!Add(u, s) \/ Life!SetStatus(u, s)
    BY <1>1, <2>1 DEF InsertMcuser, UpdateMcuserStatus, Life!Add, Life!SetStatus,
                      Life!Exists, Present, Closed, Lapsed
  <2>3. QED
    BY <2>2 DEF Life!LifeNext
<1>2. ASSUME NEW u \in Mcusers, DeleteMcuser(u)
      PROVE  Life!LifeNext
  <2>1. Lapsed' = Lapsed
    BY <1>2 DEF DeleteMcuser, Lapsed
  <2>2. ASSUME NEW t \in issued, t[1] = u PROVE Ended(t[2])'
    BY <1>2, <2>2, RowsOfToken DEF DeleteMcuser, Ended, RowsOf
  <2>3. ASSUME NEW t \in issued, t[1] # u PROVE Ended(t[2])' <=> Ended(t[2])
    <3>1. RowsOf(t[2])' = RowsOf(t[2])
      BY <1>2, <2>3, RowsOfToken DEF DeleteMcuser, RowsOf
    <3>2. QED
      BY <3>1 DEF Ended
  <2>4. Closed' = Closed \cup {t \in issued : t[1] = u}
    BY <1>2, <2>2, <2>3 DEF DeleteMcuser, Closed
  <2>5. Life!Remove(u)
    BY <1>2, <2>1, <2>4 DEF DeleteMcuser, Life!Remove, Life!Exists, Present,
                            Closed, Lapsed
  <2>6. QED
    BY <2>5 DEF Life!LifeNext
<1>3. QED
  BY <1>1, <1>2 DEF AccountStep

\* A step that leaves the mcusers, the rows and the clock alone stutters.
LEMMA StutterLife ==
    ASSUME UNCHANGED <<clock, mcuser, mcuser_audit, history>>
    PROVE  UNCHANGED Life!lifeVars
BY DEF Life!lifeVars, Ended, RowsOf

LEMMA LoginLife ==
    ASSUME IInv, NEW c \in Conns, LoginCommit(c)
    PROVE  Life!LifeNext
<1>1. tx[c] \in LoginTx
  BY CallKinds DEF IInv, LoginCommit
<1>2. PICK u \in Mcusers, j \in JwtIds, n \in Nat, e \in Nat :
          tx[c].uid = u /\ tx[c].jwt = j /\ tx[c].now = n /\ tx[c].exp = e
  BY <1>1 DEF LoginTx
<1> DEFINE row == LoginRow(u, j, n, e)
<1>3. row.jwt_id = j /\ row.type = "LOGIN"
  BY DEF LoginRow
<1>4. /\ mcuser_audit' = mcuser_audit \cup {row}
      /\ issued' = issued \cup {<<u, j>>}
      /\ expires' = [expires EXCEPT ![j] = e]
      /\ Present(u)
      /\ ~IsIssued(j)
      /\ UNCHANGED <<clock, mcuser>>
  <2>1. ~IsIssued(j)
    BY <1>2 DEF LoginCommit, IInv, IdsUnique
  <2>2. QED
    BY <1>2, <2>1 DEF LoginCommit
<1> HIDE DEF row
<1>5. \A t \in issued : t[2] # j
  BY <1>4 DEF IsIssued
<1>6. \A r \in mcuser_audit : r.jwt_id # j
  <2>1. ASSUME NEW r \in mcuser_audit PROVE <<r.uid, r.jwt_id>> \in issued
    <3>1. r.type \in {"LOGIN", "LOGOUT"}
      BY DEF IInv, TypeOK, AuditRow
    <3>2. QED
      BY <3>1 DEF IInv, RowsSound, LoginRecorded
  <2>2. QED
    BY <1>5, <2>1
<1>7. ~Ended(j)'
  BY <1>3, <1>4, <1>6 DEF Ended, RowsOf
<1>8. ASSUME NEW t \in issued PROVE Ended(t[2])' <=> Ended(t[2])
  <2>1. RowsOf(t[2])' = RowsOf(t[2])
    BY <1>3, <1>4, <1>5 DEF RowsOf
  <2>2. QED
    BY <2>1 DEF Ended
<1>9. Closed' = Closed
  BY <1>4, <1>7, <1>8 DEF Closed
<1>10. \A t \in issued : expires'[t[2]] = expires[t[2]]
  BY <1>4, <1>5, TokenTypes DEF IInv, TypeOK
<1>11. Lapsed' = Lapsed \/ Lapsed' = Lapsed \cup {<<u, j>>}
  BY <1>4, <1>10 DEF Lapsed
<1>12. Life!Issue(u, j)
  BY <1>4, <1>5, <1>9, <1>11 DEF Life!Issue, Life!Exists, Present, Closed, Lapsed
<1>13. QED
  BY <1>12 DEF Life!LifeNext

\* LOGOUT rows of one mcuser close sessions of that mcuser only.
LEMMA ClosingLife ==
    ASSUME IInv, NEW R, Closing(R), NEW u \in Mcusers, \A r \in R : r.uid = u
    PROVE  Life!LifeNext
<1>1. PICK S \in SUBSET issued : S = {t \in Closed' : t[1] = u}
  BY DEF Closing, Closed
<1>2. Closed \subseteq Closed'
  BY ClosingKeeps, TokenTypes DEF Closed, Keeps, Closing
<1>3. ASSUME NEW t \in issued, t[1] # u PROVE Ended(t[2])' <=> Ended(t[2])
  <2>1. \A r \in R : r.jwt_id # t[2]
    <3>1. ASSUME NEW r \in R, r.jwt_id = t[2] PROVE FALSE
      <4>1. <<u, t[2]>> \in issued
        BY <3>1 DEF Closing, LoginRecorded, IInv, RowsSound
      <4>2. QED
        BY <1>3, <4>1, TokenTypes DEF IInv, IdsUnique
    <3>2. QED
      BY <3>1
  <2>2. RowsOf(t[2])' = RowsOf(t[2])
    BY <2>1 DEF Closing, RowsOf
  <2>3. QED
    BY <2>2 DEF Ended
<1>4. Closed' = Closed \cup S
  BY <1>1, <1>2, <1>3 DEF Closed, Closing
<1>5. S \subseteq {t \in issued : t[1] = u}
  BY <1>1
<1>6. Life!Close(u, S)
  BY <1>4, <1>5 DEF Life!Close, Closing, Closed, Lapsed
<1>7. QED
  BY <1>6 DEF Life!LifeNext

LEMMA LogoutLife ==
    ASSUME IInv, NEW c \in Conns, LogoutCommit(c)
    PROVE  Life!LifeNext
<1>1. tx[c] \in LogoutTx
  BY CallKinds DEF IInv, LogoutCommit
<1>2. PICK u \in Mcusers, j \in JwtIds, n \in Nat :
          tx[c].uid = u /\ tx[c].jwt = j /\ tx[c].now = n
  BY <1>1 DEF LogoutTx
<1> DEFINE row == LogoutRow(u, j, n)
<1>3. /\ row \in AuditRow /\ row.uid = u /\ row.jwt_id = j /\ row.created = n
      /\ row.type = "LOGOUT" /\ row.jwt_id_status = "BLACKLISTED"
  BY DEF LogoutRow, AuditRow
<1>4. <<u, j>> \in issued /\ Present(u) /\ n < clock
  BY <1>1, <1>2 DEF IInv, CallsSound, CallSound, LogoutCommit, LogoutTx
<1>5. LoginRecorded(u, j)
  BY <1>4 DEF IInv, LoginsKept
<1>6. Closing({row})
  BY <1>2, <1>3, <1>4, <1>5 DEF LogoutCommit, Closing
<1>7. QED
  BY <1>3, <1>6, ClosingLife

LEMMA BlacklistLife ==
    ASSUME IInv, NEW c \in Conns, BlacklistCommit(c)
    PROVE  Life!LifeNext
<1>1. tx[c] \in BlacklistTx
  BY CallKinds DEF IInv, BlacklistCommit
<1>2. PICK u \in Mcusers, n \in Nat, g \in SUBSET JwtIds :
          tx[c].uid = u /\ tx[c].now = n /\ tx[c].targets = g
  BY <1>1 DEF BlacklistTx
<1> DEFINE R == {LogoutRow(u, j, n) : j \in g}
<1>3. /\ mcuser_audit' = mcuser_audit \cup R
      /\ n < clock
      /\ g # {} => Present(u)
      /\ UNCHANGED <<clock, mcuser, issued, expires>>
  BY <1>2 DEF BlacklistCommit, BlacklistRows
<1>4. \A j \in g : <<u, j>> \in issued
  BY <1>1, <1>2 DEF IInv, CallsSound, CallSound, BlacklistTx
<1>5. ASSUME NEW j \in g
      PROVE  /\ LogoutRow(u, j, n) \in AuditRow
             /\ LogoutRow(u, j, n).type = "LOGOUT"
             /\ LogoutRow(u, j, n).jwt_id_status = "BLACKLISTED"
             /\ LogoutRow(u, j, n).uid = u
             /\ LogoutRow(u, j, n).created = n
             /\ LogoutRow(u, j, n).jwt_id = j
             /\ LoginRecorded(u, j)
  <2>1. LoginRecorded(u, j)
    BY <1>3, <1>4 DEF IInv, LoginsKept
  <2>2. QED
    BY <2>1 DEF LogoutRow, AuditRow
<1>6. Closing(R) /\ \A r \in R : r.uid = u
  BY <1>3, <1>5 DEF Closing
<1> HIDE DEF R
<1>7. QED
  BY <1>6, ClosingLife

LEMMA NextLife == IInv /\ [Next]_vars => [Life!LifeNext]_(Life!lifeVars)
<1> SUFFICES ASSUME IInv, [Next]_vars
             PROVE  Life!LifeNext \/ UNCHANGED Life!lifeVars
  OBVIOUS
<1>1. CASE UNCHANGED vars
  BY <1>1, StutterLife DEF vars
<1>2. ASSUME NEW c \in Conns, LoginStep(c)
      PROVE  Life!LifeNext \/ UNCHANGED Life!lifeVars
  BY <1>2, LoginLife, StutterLife
     DEF LoginStep, LoginBegin, LoginPass, LoginRefuse, LoginFail, Abandon
<1>3. ASSUME NEW c \in Conns, LogoutStep(c)
      PROVE  Life!LifeNext \/ UNCHANGED Life!lifeVars
  BY <1>3, LogoutLife, StutterLife
     DEF LogoutStep, LogoutBegin, LogoutPass, LogoutRefuse, LogoutFail, Abandon
<1>4. ASSUME NEW c \in Conns, BlacklistStep(c)
      PROVE  Life!LifeNext \/ UNCHANGED Life!lifeVars
  BY <1>4, BlacklistLife, StutterLife
     DEF BlacklistStep, BlacklistBegin, BlacklistSelect, BlacklistFail, Abandon
<1>5. QED
  BY <1>1, <1>2, <1>3, <1>4, TickLife, AccountLife DEF Next

\* The tables and stored functions implement the life of a session: opened
\* once under an id of its own, over for good once over.
THEOREM ImplementsSessionLife == Spec => SessionsLive
<1>1. Init => Life!LifeInit
  BY LifeInitHolds
<1>2. IInv /\ [Next]_vars => [Life!LifeNext]_(Life!lifeVars)
  BY NextLife
<1>3. QED
  BY <1>1, <1>2, InvariantHolds, PTL DEF Spec, SessionsLive, Life!LifeSpec

LEMMA LeastOf ==
    ASSUME NEW T, T \subseteq Nat, T # {}
    PROVE  \E m \in T : \A n \in T : m <= n
<1>1. PICK R : IsWellFoundedOn(R, Nat) /\ R = OpToRel(<, Nat)
  BY NatLessThanWellFounded
<1>2. \A x, y \in Nat : y < x => <<y, x>> \in R
  BY <1>1 DEF OpToRel
<1>3. PICK m \in T : \A n \in T : ~ (<<n, m>> \in R)
  BY <1>1, WFMin, Zenon
<1>4. ASSUME NEW n \in T PROVE m <= n
  <2>1. m \in Nat /\ n \in Nat
    OBVIOUS
  <2>2. ~(n < m)
    BY <1>2, <1>3, <2>1
  <2>3. QED
    BY <2>1, <2>2
<1>5. QED
  BY <1>4, Zenon

\* Naturals below a bound have a greatest among them.
LEMMA GreatestOf ==
    ASSUME NEW T, T \subseteq Nat, T # {}, NEW b \in Nat, \A n \in T : n < b
    PROVE  \E m \in T : \A n \in T : n <= m
<1>1. PICK U : U = {n \in Nat : \E t \in T : n + t = b}
  OBVIOUS
<1>2. \A t \in T : t \in Nat /\ b - t \in Nat /\ b - t \in U
  BY <1>1
<1>3. U \subseteq Nat /\ U # {}
  BY <1>1, <1>2
<1>4. PICK k \in U : \A n \in U : k <= n
  BY <1>3, LeastOf, Zenon
<1>5. PICK m \in T : k \in Nat /\ k + m = b
  BY <1>1
<1>6. ASSUME NEW n \in T PROVE n <= m
  <2>1. n \in Nat /\ m \in Nat /\ b - n \in U
    BY <1>2
  <2>2. k <= b - n
    BY <1>4, <2>1
  <2>3. QED
    BY <1>5, <2>1, <2>2
<1>7. QED
  BY <1>6, Zenon

\* However many rows a JWT has, some row is the latest.
LEMMA SomeLatest ==
    ASSUME IInv, NEW j \in JwtIds, RowsOf(j) # {}
    PROVE  LatestRecs(j) # {}
<1>1. \A r \in RowsOf(j) : r.created \in Nat /\ r.created < clock
  BY DEF IInv, TypeOK, AuditRow, RowsSound, RowsOf
<1>2. PICK T : T = {r.created : r \in RowsOf(j)}
  OBVIOUS
<1>3. T \subseteq Nat /\ T # {} /\ \A n \in T : n < clock
  BY <1>1, <1>2
<1>4. clock \in Nat
  BY DEF IInv, TypeOK
<1>5. PICK m \in T : \A n \in T : n <= m
  BY <1>3, <1>4, GreatestOf
<1>6. PICK r \in RowsOf(j) : r.created = m
  BY <1>2, <1>5
<1>7. \A s \in RowsOf(j) : s.created <= r.created
  BY <1>2, <1>5, <1>6
<1>8. QED
  BY <1>7 DEF LatestRecs

\* What a row of an issued JWT makes get_jwt_status say: BLACKLISTED if it is
\* a LOGOUT row, and what SessionLife promises of an open session if it is the
\* LOGIN row.
LEMMA RowSays ==
    ASSUME IInv, NEW t \in issued, NEW r \in RowsOf(t[2])
    PROVE  /\ r.type = "LOGOUT" => StatusOf(r, clock) = "BLACKLISTED"
           /\ r.type = "LOGIN" =>
                 /\ StatusOf(r, clock) # "BLACKLISTED"
                 /\ t \notin Closed => StatusOf(r, clock) = Life!BackendStatus(t)
<1>1. r \in mcuser_audit /\ r.jwt_id = t[2] /\ r.uid = t[1] /\ Present(t[1])
  BY RowsOfToken DEF RowsOf, IInv, RowsSound
<1>2. ASSUME r.type = "LOGOUT" PROVE StatusOf(r, clock) = "BLACKLISTED"
  BY <1>1, <1>2 DEF IInv, RowsSound, StatusOf
<1>3. ASSUME r.type = "LOGIN"
      PROVE  /\ StatusOf(r, clock) # "BLACKLISTED"
             /\ t \notin Closed => StatusOf(r, clock) = Life!BackendStatus(t)
  <2>1. r.jwt_id_status = "OK" /\ r.login_expiration = expires[t[2]]
    BY <1>1, <1>3 DEF IInv, RowsSound
  <2>2. mcuser[t[1]] # "ACTIVE" => mcuser[t[1]] = "INACTIVE"
    BY <1>1 DEF Present
  <2>3. t \in Lapsed <=> expires[t[2]] <= clock
    BY DEF Lapsed
  <2>4. QED
    BY <1>1, <1>3, <2>1, <2>2, <2>3
       DEF StatusOf, Life!BackendStatus, Life!Exists, Present, Closed, Lapsed
<1>4. QED
  BY <1>2, <1>3

\* get_jwt_status gives the promised answer.
LEMMA PromisedStatus ==
    ASSUME IInv, NEW t \in issued
    PROVE  /\ Life!BackendStatus(t) \in JwtStatuses(t[2], clock)
           /\ JwtStatuses(t[2], clock) \subseteq {Life!BackendStatus(t), "BLACKLISTED"}
           /\ ~Raced(t[2]) => JwtStatuses(t[2], clock) = {Life!BackendStatus(t)}
<1>1. CASE ~Present(t[1])
  <2>1. RowsOf(t[2]) = {}
    BY <1>1, RowsOfToken DEF IInv, RowsSound, RowsOf
  <2>2. Life!BackendStatus(t) = "NOT_PRESENT"
    BY <1>1 DEF Life!BackendStatus, Life!Exists, Present
  <2>3. QED
    BY <2>1, <2>2 DEF JwtStatuses
<1>2. CASE Present(t[1])
  <2>1. PICK l \in RowsOf(t[2]) : l.type = "LOGIN"
    BY <1>2 DEF IInv, LoginsKept, LoginRecorded, RowsOf
  <2>2. \A r \in RowsOf(t[2]) :
            r.created \in Nat /\ r.type \in {"LOGIN", "LOGOUT"} /\ (r.type = "LOGIN" => r = l)
    BY <2>1 DEF IInv, TypeOK, AuditRow, IdsUnique, RowsOf
  <2>3. JwtStatuses(t[2], clock) = {StatusOf(r, clock) : r \in LatestRecs(t[2])}
    BY <2>1 DEF JwtStatuses
  <2>4. LatestRecs(t[2]) # {} /\ LatestRecs(t[2]) \subseteq RowsOf(t[2])
    BY <2>1, SomeLatest, TokenTypes DEF LatestRecs
  <2>5. CASE t \in Closed
    <3>1. Life!BackendStatus(t) = "BLACKLISTED"
      BY <1>2, <2>5 DEF Life!BackendStatus, Life!Exists, Present, Closed
    <3>2. PICK o \in RowsOf(t[2]) : o.created > l.created
      BY <2>1, <2>5 DEF Closed, Ended
    <3>3. \A r \in LatestRecs(t[2]) : r.type = "LOGOUT"
      BY <2>1, <2>2, <2>4, <3>2 DEF LatestRecs
    <3>4. \A r \in LatestRecs(t[2]) : StatusOf(r, clock) = "BLACKLISTED"
      BY <2>4, <3>3, RowSays
    <3>5. QED
      BY <2>3, <2>4, <3>1, <3>4
  <2>6. CASE t \notin Closed
    <3>1. \A o \in RowsOf(t[2]) : o.type = "LOGOUT" => ~(o.created > l.created)
      BY <2>1, <2>2, <2>6 DEF Closed, Ended
    <3>2. l \in LatestRecs(t[2])
      BY <2>1, <2>2, <3>1 DEF LatestRecs
    <3>3. StatusOf(l, clock) = Life!BackendStatus(t)
      BY <2>1, <2>6, RowSays
    <3>4. \A r \in LatestRecs(t[2]) : r = l \/ StatusOf(r, clock) = "BLACKLISTED"
      BY <2>2, <2>4, RowSays
    <3>5. ASSUME ~Raced(t[2]) PROVE \A r \in LatestRecs(t[2]) : r = l
      <4>1. \A o \in RowsOf(t[2]) : o.type = "LOGOUT" => ~(o.created <= l.created)
        BY <2>1, <3>5 DEF Raced
      <4>2. QED
        BY <2>1, <2>2, <2>4, <3>1, <4>1
    <3>6. QED
      BY <2>3, <3>2, <3>3, <3>4, <3>5
  <2>7. QED
    BY <2>5, <2>6
<1>3. QED
  BY <1>1, <1>2

LEMMA ValidIsAccepted ==
    ASSUME IInv, NEW t \in issued
    PROVE  "VALID" \in JwtStatuses(t[2], clock) <=> t \in Life!Accepted
<1>1. Life!BackendStatus(t) = "VALID" <=> t \in Life!Accepted
  <2>1. mcuser[t[1]] \in {"NONE", "ACTIVE", "INACTIVE", "DELETED"}
    BY TokenTypes DEF IInv, TypeOK
  <2>2. QED
    BY <2>1 DEF Life!BackendStatus, Life!Accepted, Life!Exists
<1>2. QED
  BY <1>1, PromisedStatus

\* get_jwt_status answers VALID for exactly the JWTs SessionLife accepts, and
\* otherwise what SessionLife promises, unless the login was overtaken.
THEOREM StatusIsLife == Spec => []StatusAgreesWithLife
<1>1. IInv => StatusAgreesWithLife
  BY ValidIsAccepted, PromisedStatus DEF StatusAgreesWithLife
<1>2. QED
  BY <1>1, InvariantHolds, PTL

\* The row fetched is no LOGIN row still in time when SessionLife counts the
\* session as closed or lapsed, and then only.
LEMMA SpentIsOver ==
    IInv => \A t \in issued : Spent(t[2]) <=> t \in Closed \cup Lapsed
<1> SUFFICES ASSUME IInv, NEW t \in issued
             PROVE  Spent(t[2]) <=> t \in Closed \cup Lapsed
  OBVIOUS
<1>1. \A r \in RowsOf(t[2]) :
        /\ r.created \in Nat /\ r.type \in {"LOGIN", "LOGOUT"}
        /\ r.type = "LOGIN" => r.login_expiration = expires[t[2]]
  BY DEF IInv, TypeOK, AuditRow, RowsSound, RowsOf
<1>2. LatestRecs(t[2]) \subseteq RowsOf(t[2])
  BY DEF LatestRecs
<1>3. CASE t \in Closed
  <2>1. \A r \in LatestRecs(t[2]) : r.type # "LOGIN"
    BY <1>1, <1>3 DEF Closed, Ended, LatestRecs
  <2>2. QED
    BY <1>3, <2>1 DEF Spent
<1>4. CASE t \in Lapsed
  BY <1>1, <1>2, <1>4 DEF Lapsed, Spent
<1>5. CASE t \notin Closed \cup Lapsed
  <2>1. PICK l \in RowsOf(t[2]) :
          /\ l.type = "LOGIN"
          /\ \A o \in RowsOf(t[2]) : o.type = "LOGOUT" => ~(o.created > l.created)
    BY <1>5 DEF Closed, Ended
  <2>2. \A r \in RowsOf(t[2]) : r.type = "LOGIN" => r = l
    BY <2>1 DEF IInv, IdsUnique, RowsOf
  <2>3. l \in LatestRecs(t[2])
    BY <1>1, <2>1, <2>2 DEF LatestRecs
  <2>4. ~(l.login_expiration <= clock)
    BY <1>1, <1>5, <2>1 DEF Lapsed
  <2>5. QED
    BY <1>5, <2>1, <2>3, <2>4 DEF Spent
<1>6. QED
  BY <1>3, <1>4, <1>5

\* What SessionLife has closed or lapsed stays so.
LEMMA OverStays ==
    [Life!LifeNext]_(Life!lifeVars) =>
        issued \subseteq issued' /\ Closed \subseteq Closed' /\ Lapsed \subseteq Lapsed'
BY DEF Life!LifeNext, Life!lifeVars, Life!Add, Life!SetStatus, Life!Remove,
       Life!Issue, Life!Lapse, Life!Close, Closed, Lapsed

\* A session logged out, blacklisted, expired or deleted never comes back,
\* whatever calls are in flight and whatever becomes of its mcuser.
THEOREM SpentForGood == Spec => SpentIsForGood
<1>1. IInv' => (\A t \in issued : Spent(t[2]) <=> t \in Closed \cup Lapsed)'
  BY SpentIsOver, PTL
<1>2. IInv /\ IInv' /\ [Next]_vars =>
        [\A t \in issued : Spent(t[2]) => Spent(t[2])']_vars
  BY <1>1, SpentIsOver, NextLife, OverStays
<1>3. QED
  BY <1>2, InvariantHolds, PTL DEF Spec, SpentIsForGood

\* The same said of all that follows: from the moment a session is over,
\* get_jwt_status never calls its JWT VALID.
THEOREM NeverValidAgain ==
    ASSUME NEW u \in Mcusers, NEW j \in JwtIds
    PROVE  Spec => [](<<u, j>> \in issued /\ Spent(j) =>
                         []("VALID" \notin JwtStatuses(j, clock)))
<1> DEFINE Over == <<u, j>> \in issued /\ Spent(j)
<1>1. IInv /\ Over => "VALID" \notin JwtStatuses(j, clock)
  BY DEF Spent, JwtStatuses, StatusOf
<1>2. IInv /\ Over /\ [Next]_vars
        /\ [\A t \in issued : Spent(t[2]) => Spent(t[2])']_vars => Over'
  <2>1. ASSUME IInv, Over, [Next]_vars PROVE issued \subseteq issued'
    BY <2>1, NextLife, OverStays
  <2>2. ASSUME UNCHANGED vars PROVE Spent(j)' <=> Spent(j)
    BY <2>2 DEF vars, Spent, LatestRecs, RowsOf
  <2>3. <<u, j>>[2] = j
    OBVIOUS
  <2>4. QED
    BY <2>1, <2>2, <2>3
<1>3. QED
  BY <1>1, <1>2, SpentForGood, InvariantHolds, PTL DEF Spec, SpentIsForGood

\* get_num_active_logins counts the sessions with a LOGIN row, no LOGOUT row and
\* an expiration not yet past, whatever their mcuser's status.
LEMMA CountedIsOpen ==
    ASSUME IInv, NEW t \in issued
    PROVE  t[2] \in ActiveLogins(t[1], clock) <=>
              ~Ended(t[2]) /\ ~Raced(t[2]) /\ expires[t[2]] >= clock
<1> DEFINE u == t[1]
           j == t[2]
<1>1. j \in ActiveLogins(u, clock) <=>
        \E l \in mcuser_audit : /\ l.type = "LOGIN" /\ l.jwt_id_status = "OK"
                               /\ l.login_expiration >= clock
                               /\ l.uid = u /\ l.jwt_id = j /\ j \notin EndedIds(u)
  BY DEF ActiveLogins
<1>2. \A r \in RowsOf(j) :
        /\ r \in mcuser_audit /\ r.jwt_id = j /\ r.uid = u
        /\ r.created \in Nat /\ r.type \in {"LOGIN", "LOGOUT"}
        /\ r.type = "LOGIN" => r.jwt_id_status = "OK" /\ r.login_expiration = expires[j]
  BY RowsOfToken DEF IInv, TypeOK, AuditRow, RowsSound, RowsOf
<1>3. j \in EndedIds(u) <=> \E o \in RowsOf(j) : o.type = "LOGOUT"
  <2>1. ASSUME NEW o \in RowsOf(j), o.type = "LOGOUT" PROVE j \in EndedIds(u)
    BY <1>2, <2>1 DEF EndedIds
  <2>2. ASSUME j \in EndedIds(u) PROVE \E o \in RowsOf(j) : o.type = "LOGOUT"
    <3>1. PICK o \in mcuser_audit :
            o.uid = u /\ o.jwt_id = j /\ (o.type # "LOGIN" \/ o.jwt_id_status # "OK")
      BY <2>2 DEF EndedIds
    <3>2. o \in RowsOf(j)
      BY <3>1 DEF RowsOf
    <3>. QED
      BY <1>2, <3>1, <3>2
  <2>. QED
    BY <2>1, <2>2
<1>4. ASSUME j \in ActiveLogins(u, clock)
      PROVE  ~Ended(j) /\ ~Raced(j) /\ expires[j] >= clock
  <2>1. PICK l \in mcuser_audit :
          l.type = "LOGIN" /\ l.login_expiration >= clock /\ l.jwt_id = j /\ j \notin EndedIds(u)
    BY <1>1, <1>4
  <2>2. l \in RowsOf(j)
    BY <2>1 DEF RowsOf
  <2>. QED
    BY <1>2, <1>3, <2>1, <2>2 DEF Ended, Raced
<1>5. ASSUME ~Ended(j), ~Raced(j), expires[j] >= clock
      PROVE  j \in ActiveLogins(u, clock)
  <2>1. PICK l \in RowsOf(j) :
          /\ l.type = "LOGIN"
          /\ \A o \in RowsOf(j) : o.type = "LOGOUT" => ~(o.created > l.created)
    BY <1>5 DEF Ended
  <2>2. \A o \in RowsOf(j) : o.type # "LOGOUT"
    BY <1>2, <1>5, <2>1 DEF Raced
  <2>. QED
    BY <1>1, <1>2, <1>3, <1>5, <2>1, <2>2
<1>. QED
  BY <1>4, <1>5

\* The cases in which get_num_active_logins and get_jwt_status differ are these,
\* no others, and these always.
THEOREM CountDiffers == Spec => []CountDiffersFromStatus
<1>1. ASSUME IInv, NEW u \in Mcusers, NEW j \in ActiveLogins(u, clock)
      PROVE  <<u, j>> \in issued
  <2>1. PICK l \in mcuser_audit : l.type = "LOGIN" /\ l.uid = u /\ l.jwt_id = j
    BY <1>1 DEF ActiveLogins
  <2>. QED
    BY <1>1, <2>1 DEF IInv, RowsSound
<1>2. ASSUME IInv, NEW t \in issued
      PROVE  LET counted == t[2] \in ActiveLogins(t[1], clock)
                 valid   == "VALID" \in JwtStatuses(t[2], clock)
             IN  /\ counted /\ ~valid <=>
                     /\ ~Ended(t[2]) /\ ~Raced(t[2])
                     /\ \/ expires[t[2]] = clock
                        \/ expires[t[2]] > clock /\ mcuser[t[1]] = "INACTIVE"
                 /\ valid /\ ~counted <=> t \in Life!Accepted /\ Raced(t[2])
  <2>1. "VALID" \in JwtStatuses(t[2], clock) <=> t \in Life!Accepted
    BY <1>2, ValidIsAccepted
  <2>2. t \in Life!Accepted <=>
          ~(expires[t[2]] <= clock) /\ ~Ended(t[2]) /\ mcuser[t[1]] = "ACTIVE"
    BY <1>2 DEF Life!Accepted
  <2>3. ~Ended(t[2]) => mcuser[t[1]] \in {"ACTIVE", "INACTIVE"}
    BY <1>2, RowsOfToken DEF Ended, IInv, RowsSound, RowsOf, Present
  <2>4. expires[t[2]] \in Nat /\ clock \in Nat
    BY <1>2, TokenTypes DEF IInv, TypeOK
  <2>. QED
    BY <1>2, <2>1, <2>2, <2>3, <2>4, CountedIsOpen
<1>3. IInv => CountDiffersFromStatus
  BY <1>1, <1>2 DEF CountDiffersFromStatus
<1>. QED
  BY <1>3, InvariantHolds, PTL
=============================================================================
