--------------------------- MODULE McuserDbProofs ---------------------------
(***************************************************************************)
(* Proofs about McuserDb, for every set of mcusers, jwt ids and            *)
(* connections, every lifetime and every bound on the clock.               *)
(***************************************************************************)
EXTENDS McuserDb, TLAPS

Calls == {Idle} \cup LoginTx \cup LogoutTx \cup BlacklistTx

USE DEF history

(***************************************************************************)
(* Type correctness.                                                       *)
(***************************************************************************)

LEMMA InitType == Init => TypeOK
BY MaxClockAssumption DEF Init, TypeOK, AuditRow

LEMMA AccountType ==
    ASSUME TypeOK, AccountStep
    PROVE  TypeOK'
<1>1. ASSUME NEW u \in Mcusers, NEW s \in {"ACTIVE", "INACTIVE"},
             InsertMcuser(u, s) \/ UpdateMcuserStatus(u, s)
      PROVE  TypeOK'
  BY <1>1 DEF TypeOK, InsertMcuser, UpdateMcuserStatus
<1>2. ASSUME NEW u \in Mcusers, DeleteMcuser(u)
      PROVE  TypeOK'
  BY <1>2 DEF TypeOK, DeleteMcuser
<1>3. QED
  BY <1>1, <1>2 DEF AccountStep

\* A call keeps its record in the type of its kind.
LEMMA CallKinds ==
    ASSUME TypeOK, NEW c \in Conns
    PROVE  /\ tx[c].op = "login" => tx[c] \in LoginTx
           /\ tx[c].op = "logout" => tx[c] \in LogoutTx
           /\ tx[c].op = "blacklist" => tx[c] \in BlacklistTx
BY DEF TypeOK, Idle, LoginTx, LogoutTx, BlacklistTx

LEMMA AbandonType ==
    ASSUME TypeOK, NEW c \in Conns, Abandon(c)
    PROVE  TypeOK'
BY DEF TypeOK, Abandon

LEMMA LoginType ==
    ASSUME TypeOK, NEW c \in Conns, LoginStep(c)
    PROVE  TypeOK'
<1>1. ASSUME NEW u \in Mcusers, NEW j \in JwtIds, LoginBegin(c, u, j)
      PROVE  TypeOK'
  <2>1. [op |-> "login", pc |-> "begun", now |-> clock, uid |-> u, jwt |-> j,
         exp |-> LoginExpiration(clock)] \in LoginTx
    BY LifetimeAssumption DEF TypeOK, LoginTx, LoginExpiration
  <2>2. QED
    BY <1>1, <2>1 DEF TypeOK, LoginBegin
<1>2. ASSUME LoginPass(c) PROVE TypeOK'
  <2>1. tx[c] \in LoginTx
    BY <1>2, CallKinds DEF LoginPass
  <2>2. [tx[c] EXCEPT !.pc = "passed"] \in LoginTx
    BY <2>1 DEF LoginTx
  <2>3. tx' = [tx EXCEPT ![c] = [tx[c] EXCEPT !.pc = "passed"]]
    BY <1>2 DEF LoginPass
  <2>4. QED
    BY <1>2, <2>2, <2>3 DEF TypeOK, LoginPass
<1>3. ASSUME LoginCommit(c) PROVE TypeOK'
  <2>1. tx[c] \in LoginTx
    BY <1>3, CallKinds DEF LoginCommit
  <2>2. /\ tx[c].uid \in Mcusers
        /\ tx[c].jwt \in JwtIds
        /\ tx[c].now \in Nat
        /\ tx[c].exp \in Nat
    BY <2>1 DEF LoginTx
  <2>3. LoginRow(tx[c].uid, tx[c].jwt, tx[c].now, tx[c].exp) \in AuditRow
    BY <2>2 DEF LoginRow, AuditRow
  <2>4. QED
    BY <1>3, <2>2, <2>3 DEF TypeOK, LoginCommit
<1>4. QED
  BY <1>1, <1>2, <1>3, AbandonType DEF LoginStep, LoginRefuse, LoginFail

LEMMA LogoutType ==
    ASSUME TypeOK, NEW c \in Conns, LogoutStep(c)
    PROVE  TypeOK'
<1>1. ASSUME NEW t \in issued, LogoutBegin(c, t)
      PROVE  TypeOK'
  <2>1. t[1] \in Mcusers /\ t[2] \in JwtIds
    BY DEF TypeOK
  <2>2. [op |-> "logout", pc |-> "begun", now |-> clock, uid |-> t[1],
         jwt |-> t[2]] \in LogoutTx
    BY <2>1 DEF TypeOK, LogoutTx
  <2>3. QED
    BY <1>1, <2>2 DEF TypeOK, LogoutBegin
<1>2. ASSUME LogoutPass(c) PROVE TypeOK'
  <2>1. tx[c] \in LogoutTx
    BY <1>2, CallKinds DEF LogoutPass
  <2>2. [tx[c] EXCEPT !.pc = "passed"] \in LogoutTx
    BY <2>1 DEF LogoutTx
  <2>3. tx' = [tx EXCEPT ![c] = [tx[c] EXCEPT !.pc = "passed"]]
    BY <1>2 DEF LogoutPass
  <2>4. QED
    BY <1>2, <2>2, <2>3 DEF TypeOK, LogoutPass
<1>3. ASSUME LogoutCommit(c) PROVE TypeOK'
  <2>1. tx[c] \in LogoutTx
    BY <1>3, CallKinds DEF LogoutCommit
  <2>2. /\ tx[c].uid \in Mcusers
        /\ tx[c].jwt \in JwtIds
        /\ tx[c].now \in Nat
    BY <2>1 DEF LogoutTx
  <2>3. LogoutRow(tx[c].uid, tx[c].jwt, tx[c].now) \in AuditRow
    BY <2>2 DEF LogoutRow, AuditRow
  <2>4. QED
    BY <1>3, <2>2, <2>3 DEF TypeOK, LogoutCommit
<1>4. QED
  BY <1>1, <1>2, <1>3, AbandonType DEF LogoutStep, LogoutRefuse, LogoutFail

LEMMA BlacklistType ==
    ASSUME TypeOK, NEW c \in Conns, BlacklistStep(c)
    PROVE  TypeOK'
<1>1. ASSUME NEW u \in Mcusers, BlacklistBegin(c, u)
      PROVE  TypeOK'
  <2>1. [op |-> "blacklist", pc |-> "begun", now |-> clock, uid |-> u,
         held |-> {j \in JwtIds : <<u, j>> \in issued}, targets |-> {}]
            \in BlacklistTx
    BY DEF TypeOK, BlacklistTx
  <2>2. QED
    BY <1>1, <2>1 DEF TypeOK, BlacklistBegin
<1>2. ASSUME BlacklistSelect(c) PROVE TypeOK'
  <2>1. tx[c] \in BlacklistTx
    BY <1>2, CallKinds DEF BlacklistSelect
  <2>2. BlacklistTargets(tx[c].uid, tx[c].now) \subseteq JwtIds
    BY DEF TypeOK, BlacklistTargets, AuditRow
  <2> DEFINE rec == [tx[c] EXCEPT !.pc = "passed",
                        !.targets = BlacklistTargets(tx[c].uid, tx[c].now)]
  <2>3. rec \in BlacklistTx
    BY <2>1, <2>2 DEF BlacklistTx
  <2>4. tx' = [tx EXCEPT ![c] = rec]
    BY <1>2 DEF BlacklistSelect
  <2>5. QED
    BY <1>2, <2>3, <2>4 DEF TypeOK, BlacklistSelect
<1>3. ASSUME BlacklistCommit(c) PROVE TypeOK'
  <2>1. tx[c] \in BlacklistTx
    BY <1>3, CallKinds DEF BlacklistCommit
  <2>2. /\ tx[c].uid \in Mcusers
        /\ tx[c].now \in Nat
        /\ tx[c].held \subseteq JwtIds
        /\ tx[c].targets \subseteq JwtIds
    BY <2>1 DEF BlacklistTx
  <2>3. BlacklistRows(c) \subseteq AuditRow
    BY <2>2 DEF BlacklistRows, LogoutRow, AuditRow
  <2>4. QED
    BY <1>3, <2>2, <2>3 DEF TypeOK, BlacklistCommit
<1>4. QED
  BY <1>1, <1>2, <1>3, AbandonType DEF BlacklistStep, BlacklistFail

LEMMA NextType == TypeOK /\ [Next]_vars => TypeOK'
<1> SUFFICES ASSUME TypeOK, [Next]_vars PROVE TypeOK'
  OBVIOUS
<1>1. CASE Tick
  BY <1>1 DEF TypeOK, Tick
<1>2. CASE UNCHANGED vars
  BY <1>2 DEF TypeOK, vars
<1>3. QED
  BY <1>1, <1>2, AccountType, LoginType, LogoutType, BlacklistType DEF Next

\* The tables, the calls in progress and the JWTs issued have their types.
THEOREM TypeCorrect == Spec => []TypeOK
BY InitType, NextType, PTL DEF Spec

(***************************************************************************)
(* The inductive invariant.  Steps fall into four kinds by what they do to *)
(* the audit rows: nothing, a LOGIN row for a new id, LOGOUT rows, or the  *)
(* removal of one mcuser's rows.  Each keeps what is known of a JWT that   *)
(* has been issued.                                                        *)
(***************************************************************************)

Keeps(j) ==
    /\ IsIssued(j)'
    /\ Ended(j) => Ended(j)'
    /\ OverOrRaced(j) => OverOrRaced(j)'
    /\ \A now \in Nat : LoginBefore(j, now) => LoginBefore(j, now)'

\* No row is written or removed, and no mcuser with sessions comes or goes.
Quiet ==
    /\ clock' \in Nat /\ clock <= clock'
    /\ \A u \in Mcusers : mcuser[u] # "NONE" => (Present(u)' <=> Present(u))
    /\ \A u \in Mcusers : mcuser[u] # "NONE" => mcuser'[u] # "NONE"
    /\ UNCHANGED <<mcuser_audit, history>>

LEMMA QuietKeeps ==
    ASSUME IInv, Quiet, NEW j \in JwtIds, IsIssued(j)
    PROVE  Keeps(j)
<1>1. expires[j] \in Nat /\ clock \in Nat
  BY DEF IInv, TypeOK
<1>2. IsIssued(j)' /\ (Ended(j) => Ended(j)') /\ (Raced(j) => Raced(j)')
  BY DEF Quiet, IsIssued, Ended, Raced, RowsOf
<1>3. OverOrRaced(j) => OverOrRaced(j)'
  BY <1>1, <1>2 DEF Quiet, OverOrRaced
<1>4. ASSUME NEW now \in Nat PROVE LoginBefore(j, now) => LoginBefore(j, now)'
  BY DEF Quiet, LoginBefore, RowsOf
<1>5. QED
  BY <1>2, <1>3, <1>4 DEF Keeps

LEMMA QuietSound ==
    ASSUME IInv, Quiet
    PROVE  RowsSound' /\ LoginsKept' /\ PromisesKept'
<1>1. RowsSound'
  <2> SUFFICES ASSUME NEW r \in mcuser_audit
               PROVE  /\ Present(r.uid)'
                      /\ r.created < clock'
                      /\ r.type = "LOGIN" =>
                            /\ <<r.uid, r.jwt_id>> \in issued
                            /\ r.jwt_id_status = "OK"
                            /\ r.login_expiration = expires[r.jwt_id]
                      /\ r.type = "LOGOUT" =>
                            /\ r.jwt_id_status = "BLACKLISTED"
                            /\ LoginRecorded(r.uid, r.jwt_id)
    BY DEF Quiet, RowsSound, LoginRecorded
  <2>1. r.uid \in Mcusers /\ r.created \in Nat /\ clock \in Nat
    BY DEF IInv, TypeOK, AuditRow
  <2>2. Present(r.uid) /\ r.created < clock
    BY DEF IInv, RowsSound
  <2>3. Present(r.uid)'
    BY <2>1, <2>2 DEF Quiet, Present
  <2>4. QED
    BY <2>1, <2>2, <2>3 DEF Quiet, IInv, RowsSound
<1>2. PromisesKept'
  <2>1. ASSUME NEW j \in loggedOut PROVE IsIssued(j)' /\ Ended(j)'
    BY QuietKeeps DEF Keeps, IInv, TypeOK, PromisesKept
  <2>2. ASSUME NEW j \in revoked PROVE IsIssued(j)' /\ OverOrRaced(j)'
    BY QuietKeeps DEF Keeps, IInv, TypeOK, PromisesKept
  <2>3. QED
    BY <2>1, <2>2 DEF Quiet, PromisesKept
<1>3. LoginsKept'
  BY DEF Quiet, IInv, TypeOK, LoginsKept, LoginRecorded
<1>4. QED
  BY <1>1, <1>2, <1>3

\* LOGOUT rows are written for issued JWTs of one mcuser, with the created
\* time of the call that writes them.
Closing(R) ==
    /\ mcuser_audit' = mcuser_audit \cup R
    /\ \A r \in R :
          /\ r \in AuditRow
          /\ r.type = "LOGOUT" /\ r.jwt_id_status = "BLACKLISTED"
          /\ Present(r.uid)
          /\ r.created < clock
          /\ LoginRecorded(r.uid, r.jwt_id)
    /\ UNCHANGED <<clock, mcuser, issued, expires>>

LEMMA ClosingKeeps ==
    ASSUME IInv, NEW R, Closing(R), NEW j \in JwtIds, IsIssued(j)
    PROVE  Keeps(j)
<1>1. \A l : l \in RowsOf(j)' /\ l.type = "LOGIN" => l \in RowsOf(j)
  BY DEF Closing, RowsOf
<1>2. RowsOf(j) \subseteq RowsOf(j)'
  BY DEF Closing, RowsOf
<1>3. IsIssued(j)'
  BY DEF Closing, IsIssued
<1>4. Ended(j) => Ended(j)'
  BY <1>1, <1>2 DEF Ended
<1>5. Raced(j) => Raced(j)'
  BY <1>2 DEF Raced
<1>6. OverOrRaced(j) => OverOrRaced(j)'
  BY <1>4, <1>5 DEF OverOrRaced, Closing
<1>7. ASSUME NEW now \in Nat PROVE LoginBefore(j, now) => LoginBefore(j, now)'
  BY <1>1 DEF LoginBefore
<1>8. QED
  BY <1>3, <1>4, <1>6, <1>7 DEF Keeps

LEMMA ClosingSound ==
    ASSUME IInv, NEW R, Closing(R)
    PROVE  RowsSound' /\ LoginsKept' /\ (\A l1, l2 \in mcuser_audit' :
             l1.type = "LOGIN" /\ l2.type = "LOGIN" /\ l1.jwt_id = l2.jwt_id => l1 = l2)
<1>1. \A l \in mcuser_audit' : l.type = "LOGIN" => l \in mcuser_audit
  BY DEF Closing
<1>2. ASSUME NEW u, NEW j, LoginRecorded(u, j) PROVE LoginRecorded(u, j)'
  BY <1>2 DEF LoginRecorded, Closing
<1>3. ASSUME NEW r \in mcuser_audit'
      PROVE  /\ Present(r.uid)'
             /\ r.created < clock'
             /\ r.type = "LOGIN" =>
                   /\ <<r.uid, r.jwt_id>> \in issued'
                   /\ r.jwt_id_status = "OK"
                   /\ r.login_expiration = expires'[r.jwt_id]
             /\ r.type = "LOGOUT" =>
                   /\ r.jwt_id_status = "BLACKLISTED"
                   /\ LoginRecorded(r.uid, r.jwt_id)'
  <2>1. CASE r \in mcuser_audit
    BY <2>1, <1>2 DEF IInv, RowsSound, Closing, Present
  <2>2. CASE r \in R
    BY <2>2, <1>2 DEF Closing, Present
  <2>3. QED
    BY <2>1, <2>2 DEF Closing
<1>4. RowsSound'
  BY <1>3 DEF RowsSound
<1>5. LoginsKept'
  BY <1>2 DEF IInv, LoginsKept, Closing, Present
<1>6. QED
  BY <1>1, <1>4, <1>5 DEF IInv, IdsUnique

\* deleteMcuser: the LOGIN and LOGOUT rows of a JWT go together.
LEMMA DeletionKeeps ==
    ASSUME IInv, NEW v \in Mcusers, DeleteMcuser(v), NEW j \in JwtIds, IsIssued(j)
    PROVE  Keeps(j)
<1>1. RowsOf(j)' = {r \in RowsOf(j) : r.uid # v}
  BY DEF DeleteMcuser, RowsOf
<1>2. \A l, o \in RowsOf(j) : l.type = "LOGIN" /\ o.type = "LOGOUT" => l.uid = o.uid
  BY DEF IInv, RowsSound, IdsUnique, LoginRecorded, RowsOf
<1>3. \A l1, l2 \in RowsOf(j) : l1.type = "LOGIN" /\ l2.type = "LOGIN" => l1 = l2
  BY DEF IInv, IdsUnique, RowsOf
<1>4. IsIssued(j)'
  BY DEF DeleteMcuser, IsIssued
<1>5. Ended(j) => Ended(j)'
  BY <1>1, <1>2 DEF Ended
<1>6. Raced(j) => Raced(j)' \/ Ended(j)'
  BY <1>1, <1>2, <1>3 DEF Raced, Ended
<1>7. OverOrRaced(j) => OverOrRaced(j)'
  BY <1>5, <1>6 DEF OverOrRaced, DeleteMcuser
<1>8. ASSUME NEW now \in Nat PROVE LoginBefore(j, now) => LoginBefore(j, now)'
  BY <1>1 DEF LoginBefore
<1>9. QED
  BY <1>4, <1>5, <1>7, <1>8 DEF Keeps

\* mcuser_login: what is known of the JWTs issued before is not disturbed.
LEMMA OpeningKeeps ==
    ASSUME IInv, NEW c \in Conns, LoginCommit(c), NEW j \in JwtIds, IsIssued(j)
    PROVE  Keeps(j)
<1>1. tx[c] \in LoginTx
  BY CallKinds DEF IInv, LoginCommit
<1>2. j # tx[c].jwt /\ tx[c].jwt \in JwtIds
  BY <1>1 DEF IInv, IdsUnique, LoginCommit, LoginTx
<1>3. RowsOf(j)' = RowsOf(j)
  BY <1>2 DEF LoginCommit, RowsOf, LoginRow
<1>4. expires'[j] = expires[j]
  BY <1>2 DEF IInv, TypeOK, LoginCommit
<1>5. IsIssued(j)'
  BY DEF LoginCommit, IsIssued
<1>6. OverOrRaced(j) => OverOrRaced(j)'
  BY <1>3, <1>4 DEF OverOrRaced, Ended, Raced, LoginCommit
<1>7. QED
  BY <1>3, <1>5, <1>6 DEF Keeps, Ended, LoginBefore

(***************************************************************************)
(* The calls in progress.                                                  *)
(***************************************************************************)

\* The clock does not go back and nothing known of an issued JWT is undone.
Steady ==
    /\ clock' \in Nat /\ clock <= clock'
    /\ issued \subseteq issued'
    /\ \A j \in JwtIds : IsIssued(j) => Keeps(j)

LEMMA CallKept ==
    ASSUME IInv, Steady, NEW d \in Conns, tx'[d] = tx[d]
    PROVE  CallSound(tx[d])'
<1>1. CallSound(tx[d])
  BY DEF IInv, CallsSound
<1>2. clock \in Nat
  BY DEF IInv, TypeOK
<1>3. CASE tx[d] = Idle
  BY <1>3 DEF CallSound, Idle
<1>4. CASE tx[d] \in LoginTx
  BY <1>1, <1>2, <1>4 DEF CallSound, LoginTx, Steady
<1>5. CASE tx[d] \in LogoutTx
  <2>1. tx[d].jwt \in JwtIds /\ tx[d].now \in Nat /\ tx[d].op = "logout"
    BY <1>5 DEF LogoutTx
  <2>2. <<tx[d].uid, tx[d].jwt>> \in issued /\ IsIssued(tx[d].jwt)
    BY <1>1, <2>1 DEF CallSound, IsIssued
  <2>3. LoginBefore(tx[d].jwt, tx[d].now)'
    BY <1>1, <2>1, <2>2 DEF CallSound, Steady, Keeps, LoginBefore
  <2>4. QED
    BY <1>1, <1>2, <2>1, <2>2, <2>3 DEF CallSound, Steady
<1>6. CASE tx[d] \in BlacklistTx
  <2>1. /\ tx[d].held \subseteq JwtIds
        /\ tx[d].now \in Nat
        /\ tx[d].op = "blacklist"
    BY <1>6 DEF BlacklistTx
  <2>2. \A j \in tx[d].held : IsIssued(j)
    BY <1>1, <2>1 DEF CallSound, IsIssued
  <2>3. \A j \in tx[d].held : LoginBefore(j, tx[d].now)'
    BY <1>1, <2>1, <2>2 DEF CallSound, Steady, Keeps, LoginBefore
  <2>4. tx[d].pc = "passed" =>
            \A j \in tx[d].held : j \in tx[d].targets \/ OverOrRaced(j)'
    BY <1>1, <2>1, <2>2 DEF CallSound, Steady, Keeps
  <2>5. QED
    BY <1>1, <1>2, <2>1, <2>3, <2>4 DEF CallSound, Steady
<1>7. QED
  BY <1>3, <1>4, <1>5, <1>6 DEF IInv, TypeOK

\* What one connection does leaves the calls of the others sound.
LEMMA OneCall ==
    ASSUME IInv, Steady, NEW c \in Conns,
           \A d \in Conns \ {c} : tx'[d] = tx[d],
           CallSound(tx[c])'
    PROVE  CallsSound'
<1>1. ASSUME NEW d \in Conns PROVE CallSound(tx[d])'
  <2>1. CASE d = c
    BY <2>1
  <2>2. CASE d # c
    BY <2>2, CallKept
  <2>3. QED
    BY <2>1, <2>2
<1>2. QED
  BY <1>1 DEF CallsSound

LEMMA QuietSteady == ASSUME IInv, Quiet PROVE Steady
BY QuietKeeps DEF Steady, Quiet

\* A step that writes nothing and moves only connection c.
LEMMA QuietCall ==
    ASSUME IInv, Quiet, TypeOK', NEW c \in Conns, NEW call,
           tx' = [tx EXCEPT ![c] = call],
           CallSound(tx[c])',
           call.op = "login" =>
                \/ tx[c].op = "login" /\ tx[c].jwt = call.jwt
                \/ Fresh(call.jwt)
    PROVE  IInv'
<1>1. CallsSound'
  BY QuietSteady, OneCall DEF IInv, TypeOK
<1>2. tx'[c] = call /\ \A d \in Conns \ {c} : tx'[d] = tx[d]
  BY DEF IInv, TypeOK
<1>3. IdsUnique'
  BY <1>2 DEF IInv, IdsUnique, Quiet, IsIssued, Fresh
<1>4. QED
  BY <1>1, <1>3, QuietSound DEF IInv

(***************************************************************************)
(* Every step keeps the invariant.                                         *)
(***************************************************************************)

LEMMA InitIInv == Init => IInv
BY InitType
   DEF Init, IInv, RowsSound, LoginsKept, IdsUnique, IsIssued, CallsSound,
       CallSound, Idle, PromisesKept

LEMMA TickIInv == ASSUME IInv, Tick PROVE IInv'
<1>1. Quiet
  BY DEF IInv, TypeOK, Tick, Quiet, Present
<1>2. CallsSound'
  BY <1>1, QuietSteady, CallKept DEF Tick, CallsSound
<1>3. IdsUnique'
  BY DEF IInv, IdsUnique, IsIssued, Tick
<1>4. TypeOK'
  BY NextType DEF IInv, Next
<1>5. QED
  BY <1>1, <1>2, <1>3, <1>4, QuietSound DEF IInv

LEMMA AccountIInv == ASSUME IInv, AccountStep PROVE IInv'
<1>1. TypeOK'
  BY AccountType DEF IInv
<1>2. ASSUME NEW u \in Mcusers, NEW s \in {"ACTIVE", "INACTIVE"},
             InsertMcuser(u, s) \/ UpdateMcuserStatus(u, s)
      PROVE  IInv'
  <2>1. Quiet
    BY <1>2 DEF IInv, TypeOK, InsertMcuser, UpdateMcuserStatus, Quiet, Present
  <2>2. CallsSound'
    BY <1>2, <2>1, QuietSteady, CallKept
       DEF InsertMcuser, UpdateMcuserStatus, CallsSound
  <2>3. IdsUnique'
    BY <1>2 DEF IInv, IdsUnique, IsIssued, InsertMcuser, UpdateMcuserStatus
  <2>4. QED
    BY <1>1, <2>1, <2>2, <2>3, QuietSound DEF IInv
<1>3. ASSUME NEW u \in Mcusers, DeleteMcuser(u)
      PROVE  IInv'
  <2>1. Steady
    <3>1. \A j \in JwtIds : IsIssued(j) => Keeps(j)
      BY <1>3, DeletionKeeps
    <3>2. QED
      BY <1>3, <3>1 DEF IInv, TypeOK, Steady, DeleteMcuser
  <2>2. CallsSound'
    BY <1>3, <2>1, CallKept DEF DeleteMcuser, CallsSound
  <2>3. IdsUnique'
    BY <1>3 DEF IInv, IdsUnique, IsIssued, DeleteMcuser
  <2>4. RowsSound'
    <3>1. ASSUME NEW v, NEW j, v # u, LoginRecorded(v, j) PROVE LoginRecorded(v, j)'
      BY <1>3, <3>1 DEF LoginRecorded, DeleteMcuser
    <3>2. \A v : v # u => (Present(v) => Present(v)')
      BY <1>3 DEF IInv, TypeOK, DeleteMcuser, Present
    <3>3. QED
      BY <1>3, <3>1, <3>2 DEF IInv, RowsSound, DeleteMcuser
  <2>5. LoginsKept'
    <3>1. ASSUME NEW t \in issued
          PROVE  /\ mcuser'[t[1]] # "NONE"
                 /\ Present(t[1])' => LoginRecorded(t[1], t[2])'
      <4>1. t[1] \in Mcusers
        BY DEF IInv, TypeOK
      <4>2. CASE t[1] = u
        BY <1>3, <4>1, <4>2 DEF IInv, TypeOK, DeleteMcuser, Present
      <4>3. CASE t[1] # u
        BY <1>3, <4>1, <4>3
           DEF IInv, TypeOK, LoginsKept, LoginRecorded, DeleteMcuser, Present
      <4>4. QED
        BY <4>2, <4>3
    <3>2. QED
      BY <1>3, <3>1 DEF LoginsKept, DeleteMcuser
  <2>6. PromisesKept'
    BY <1>3, <2>1 DEF IInv, TypeOK, PromisesKept, Steady, Keeps, DeleteMcuser
  <2>7. QED
    BY <1>1, <2>2, <2>3, <2>4, <2>5, <2>6 DEF IInv
<1>4. QED
  BY <1>2, <1>3 DEF AccountStep

LEMMA AbandonIInv == ASSUME IInv, NEW c \in Conns, Abandon(c) PROVE IInv'
<1>1. Quiet
  BY DEF IInv, TypeOK, Abandon, Quiet, Present
<1>2. CallSound(tx[c])'
  BY DEF IInv, TypeOK, Abandon, CallSound, Idle
<1>3. TypeOK'
  BY AbandonType DEF IInv
<1>4. QED
  BY <1>1, <1>2, <1>3, QuietCall DEF Abandon, Idle

LEMMA LoginIInv == ASSUME IInv, NEW c \in Conns, LoginStep(c) PROVE IInv'
<1>1. TypeOK'
  BY LoginType DEF IInv
<1>2. ASSUME NEW u \in Mcusers, NEW j \in JwtIds, LoginBegin(c, u, j)
      PROVE  IInv'
  <2>1. Quiet
    BY <1>2 DEF IInv, TypeOK, LoginBegin, Quiet, Present
  <2>2. CallSound(tx[c])'
    BY <1>2 DEF IInv, TypeOK, LoginBegin, CallSound
  <2>3. QED
    BY <1>1, <1>2, <2>1, <2>2, QuietCall DEF LoginBegin
<1>3. ASSUME LoginPass(c) PROVE IInv'
  <2>1. Quiet
    BY <1>3 DEF IInv, TypeOK, LoginPass, Quiet, Present
  <2>2. tx[c] \in LoginTx
    BY <1>3, CallKinds DEF IInv, LoginPass
  <2> DEFINE call == [tx[c] EXCEPT !.pc = "passed"]
  <2>3. tx' = [tx EXCEPT ![c] = call]
    BY <1>3 DEF LoginPass
  <2>4. call.op = "login" /\ call.jwt = tx[c].jwt /\ call.now = tx[c].now
    BY <2>2 DEF LoginTx
  <2>5. tx'[c] = call
    BY <2>3 DEF IInv, TypeOK
  <2>6. tx[c].now <= clock
    BY <2>2 DEF IInv, CallsSound, CallSound, LoginTx
  <2>7. CallSound(tx[c])'
    BY <1>3, <2>4, <2>5, <2>6 DEF CallSound, LoginPass
  <2> HIDE DEF call
  <2>8. QED
    BY <1>1, <1>3, <2>1, <2>3, <2>4, <2>7, QuietCall DEF LoginPass
<1>4. ASSUME LoginCommit(c) PROVE IInv'
  <2>1. tx[c] \in LoginTx
    BY <1>4, CallKinds DEF IInv, LoginCommit
  <2>2. PICK u \in Mcusers, j \in JwtIds, n \in Nat, e \in Nat :
            tx[c].uid = u /\ tx[c].jwt = j /\ tx[c].now = n /\ tx[c].exp = e
    BY <2>1 DEF LoginTx
  <2> DEFINE row == LoginRow(u, j, n, e)
  <2>3. /\ row.uid = u /\ row.jwt_id = j /\ row.created = n
        /\ row.type = "LOGIN" /\ row.jwt_id_status = "OK"
        /\ row.login_expiration = e
    BY DEF LoginRow
  <2>4. /\ mcuser_audit' = mcuser_audit \cup {row}
        /\ issued' = issued \cup {<<u, j>>}
        /\ expires' = [expires EXCEPT ![j] = e]
        /\ tx' = [tx EXCEPT ![c] = Idle]
        /\ n < clock
        /\ Present(u)
        /\ UNCHANGED <<clock, mcuser, loggedOut, revoked>>
    BY <1>4, <2>2 DEF LoginCommit
  <2>5. ~IsIssued(j)
    BY <1>4, <2>2 DEF LoginCommit, IInv, IdsUnique
  <2>6. Steady
    BY <1>4, <2>4, OpeningKeeps DEF IInv, TypeOK, Steady
  <2>7. \A l \in mcuser_audit : l.type = "LOGIN" => l.jwt_id # j
    BY <2>5 DEF IInv, RowsSound, IsIssued
  <2> HIDE DEF row
  <2>8. CallsSound'
    <3>1. tx'[c] = Idle /\ \A d \in Conns \ {c} : tx'[d] = tx[d]
      BY <2>4 DEF IInv, TypeOK
    <3>2. CallSound(tx[c])'
      BY <3>1 DEF CallSound, Idle
    <3>3. QED
      BY <2>6, <3>1, <3>2, OneCall
  <2>9. ASSUME NEW v, NEW k, LoginRecorded(v, k) PROVE LoginRecorded(v, k)'
    BY <2>4, <2>9 DEF LoginRecorded
  <2>10. RowsSound'
    <3>1. ASSUME NEW r \in mcuser_audit'
          PROVE  /\ Present(r.uid)'
                 /\ r.created < clock'
                 /\ r.type = "LOGIN" =>
                       /\ <<r.uid, r.jwt_id>> \in issued'
                       /\ r.jwt_id_status = "OK"
                       /\ r.login_expiration = expires'[r.jwt_id]
                 /\ r.type = "LOGOUT" =>
                       /\ r.jwt_id_status = "BLACKLISTED"
                       /\ LoginRecorded(r.uid, r.jwt_id)'
      <4>1. CASE r \in mcuser_audit
        <5>1. Present(r.uid)' /\ r.created < clock'
          BY <2>4, <4>1 DEF IInv, RowsSound, Present
        <5>2. r.jwt_id \in JwtIds
          BY <4>1 DEF IInv, TypeOK, AuditRow
        <5>3. QED
          BY <2>4, <2>7, <2>9, <4>1, <5>1, <5>2 DEF IInv, TypeOK, RowsSound
      <4>2. CASE r = row
        BY <2>2, <2>3, <2>4, <4>2 DEF IInv, TypeOK, Present
      <4>3. QED
        BY <2>4, <4>1, <4>2
    <3>2. QED
      BY <3>1 DEF RowsSound
  <2>11. LoginsKept'
    <3>1. LoginRecorded(u, j)' /\ mcuser'[u] # "NONE"
      BY <2>3, <2>4 DEF LoginRecorded, Present
    <3>2. QED
      BY <2>4, <2>9, <3>1 DEF IInv, LoginsKept, Present
  <2>12. IdsUnique'
    <3>1. \A t1, t2 \in issued' : t1[2] = t2[2] => t1 = t2
      BY <2>4, <2>5 DEF IInv, IdsUnique, IsIssued
    <3>2. \A l1, l2 \in mcuser_audit' :
              l1.type = "LOGIN" /\ l2.type = "LOGIN" /\ l1.jwt_id = l2.jwt_id => l1 = l2
      BY <2>3, <2>4, <2>7 DEF IInv, IdsUnique
    <3>3. ASSUME NEW d \in Conns, tx'[d].op = "login"
          PROVE  /\ ~IsIssued(tx[d].jwt)'
                 /\ \A d2 \in Conns \ {d} : tx'[d2].op = "login" => tx'[d2].jwt # tx'[d].jwt
      <4>1. d # c /\ tx'[d] = tx[d]
        BY <2>4, <3>3 DEF IInv, TypeOK, Idle
      <4>2. tx[d].jwt # j /\ ~IsIssued(tx[d].jwt)
        BY <1>4, <2>2, <3>3, <4>1 DEF IInv, IdsUnique, LoginCommit
      <4>3. \A d2 \in Conns : tx'[d2].op = "login" => tx'[d2] = tx[d2]
        BY <2>4 DEF IInv, TypeOK, Idle
      <4>4. QED
        BY <2>4, <3>3, <4>1, <4>2, <4>3 DEF IInv, IdsUnique, IsIssued
    <3>4. QED
      BY <3>1, <3>2, <3>3 DEF IdsUnique
  <2>13. PromisesKept'
    BY <2>4, <2>6 DEF IInv, TypeOK, PromisesKept, Steady, Keeps
  <2>14. QED
    BY <1>1, <2>8, <2>10, <2>11, <2>12, <2>13 DEF IInv
<1>5. QED
  BY <1>2, <1>3, <1>4, AbandonIInv DEF LoginStep, LoginRefuse, LoginFail

\* LOGOUT rows written by a call that then ends, for JWTs whose logins are
\* older than the call, leave nothing to prove but the promise made on return.
LEMMA ClosingIInv ==
    ASSUME IInv, TypeOK', NEW c \in Conns, NEW R, Closing(R),
           tx' = [tx EXCEPT ![c] = Idle],
           PromisesKept'
    PROVE  IInv'
<1>1. Steady
  BY ClosingKeeps DEF IInv, TypeOK, Steady, Closing
<1>2. tx'[c] = Idle /\ \A d \in Conns \ {c} : tx'[d] = tx[d]
  BY DEF IInv, TypeOK
<1>3. CallSound(tx[c])'
  BY <1>2 DEF CallSound, Idle
<1>4. CallsSound'
  BY <1>1, <1>2, <1>3, OneCall
<1>5. IdsUnique'
  <2>1. \A d \in Conns : tx'[d].op = "login" => tx'[d] = tx[d]
    BY <1>2 DEF Idle
  <2>2. QED
    BY <2>1, ClosingSound DEF IInv, IdsUnique, IsIssued, Closing
<1>6. QED
  BY <1>4, <1>5, ClosingSound DEF IInv

\* A LOGOUT row younger than the login ends the session.
LEMMA RowEnds ==
    ASSUME IInv, NEW R, Closing(R), NEW j \in JwtIds, NEW n \in Nat,
           LoginBefore(j, n),
           \E o \in R : o.jwt_id = j /\ o.created = n
    PROVE  Ended(j)'
<1>1. PICK o \in R : o.jwt_id = j /\ o.created = n
  OBVIOUS
<1>2. o \in RowsOf(j)' /\ o.type = "LOGOUT"
  BY <1>1 DEF Closing, RowsOf
<1>3. \A l : l \in RowsOf(j)' /\ l.type = "LOGIN" => l \in RowsOf(j)
  BY DEF Closing, RowsOf
<1>4. \A l \in RowsOf(j) : l.type = "LOGIN" => l.created < n /\ l.created \in Nat
  BY DEF LoginBefore, IInv, TypeOK, AuditRow, RowsOf
<1>5. QED
  BY <1>1, <1>2, <1>3, <1>4 DEF Ended

LEMMA LogoutIInv == ASSUME IInv, NEW c \in Conns, LogoutStep(c) PROVE IInv'
<1>1. TypeOK'
  BY LogoutType DEF IInv
<1>2. ASSUME NEW t \in issued, LogoutBegin(c, t)
      PROVE  IInv'
  <2>1. Quiet
    BY <1>2 DEF IInv, TypeOK, LogoutBegin, Quiet, Present
  <2>2. t = <<t[1], t[2]>>
    BY DEF IInv, TypeOK
  <2>3. LoginBefore(t[2], clock)
    BY DEF IInv, RowsSound, LoginBefore, RowsOf
  <2>4. CallSound(tx[c])'
    BY <1>2, <2>2, <2>3
       DEF IInv, TypeOK, LogoutBegin, CallSound, LoginBefore, RowsOf
  <2>5. QED
    BY <1>1, <1>2, <2>1, <2>4, QuietCall DEF LogoutBegin
<1>3. ASSUME LogoutPass(c) PROVE IInv'
  <2>1. Quiet
    BY <1>3 DEF IInv, TypeOK, LogoutPass, Quiet, Present
  <2>2. tx[c] \in LogoutTx
    BY <1>3, CallKinds DEF IInv, LogoutPass
  <2> DEFINE call == [tx[c] EXCEPT !.pc = "passed"]
  <2>3. tx' = [tx EXCEPT ![c] = call]
    BY <1>3 DEF LogoutPass
  <2>4. /\ call.op = "logout" /\ call.now = tx[c].now
        /\ call.uid = tx[c].uid /\ call.jwt = tx[c].jwt
    BY <2>2 DEF LogoutTx
  <2>5. tx'[c] = call
    BY <2>3 DEF IInv, TypeOK
  <2>6. /\ tx[c].now <= clock
        /\ <<tx[c].uid, tx[c].jwt>> \in issued
        /\ LoginBefore(tx[c].jwt, tx[c].now)
    BY <2>2 DEF IInv, CallsSound, CallSound, LogoutTx
  <2>7. CallSound(tx[c])'
    BY <1>3, <2>4, <2>5, <2>6 DEF CallSound, LogoutPass, LoginBefore, RowsOf
  <2> HIDE DEF call
  <2>8. QED
    BY <1>1, <2>1, <2>3, <2>4, <2>7, QuietCall
<1>4. ASSUME LogoutCommit(c) PROVE IInv'
  <2>1. tx[c] \in LogoutTx
    BY <1>4, CallKinds DEF IInv, LogoutCommit
  <2>2. PICK u \in Mcusers, j \in JwtIds, n \in Nat :
            tx[c].uid = u /\ tx[c].jwt = j /\ tx[c].now = n
    BY <2>1 DEF LogoutTx
  <2> DEFINE row == LogoutRow(u, j, n)
  <2>3. /\ row.uid = u /\ row.jwt_id = j /\ row.created = n
        /\ row.type = "LOGOUT" /\ row.jwt_id_status = "BLACKLISTED"
        /\ row \in AuditRow
    BY DEF LogoutRow, AuditRow
  <2>4. /\ mcuser_audit' = mcuser_audit \cup {row}
        /\ loggedOut' = loggedOut \cup {j}
        /\ tx' = [tx EXCEPT ![c] = Idle]
        /\ n < clock
        /\ Present(u)
        /\ UNCHANGED <<clock, mcuser, issued, expires, revoked>>
    BY <1>4, <2>2 DEF LogoutCommit
  <2>5. <<u, j>> \in issued /\ LoginBefore(j, n)
    BY <2>1, <2>2 DEF IInv, CallsSound, CallSound, LogoutTx
  <2>6. LoginRecorded(u, j) /\ IsIssued(j)
    BY <2>4, <2>5 DEF IInv, LoginsKept, IsIssued
  <2> HIDE DEF row
  <2>7. Closing({row})
    BY <2>3, <2>4, <2>6 DEF Closing
  <2>8. Ended(j)'
    BY <2>3, <2>5, <2>7, RowEnds
  <2>9. PromisesKept'
    <3>1. \A k \in JwtIds : IsIssued(k) => Keeps(k)
      BY <2>7, ClosingKeeps
    <3>2. IsIssued(j)'
      BY <2>4, <2>6 DEF IsIssued
    <3>3. QED
      BY <2>4, <2>8, <3>1, <3>2 DEF IInv, TypeOK, PromisesKept, Keeps
  <2>10. QED
    BY <1>1, <2>4, <2>7, <2>9, ClosingIInv
<1>5. QED
  BY <1>2, <1>3, <1>4, AbandonIInv DEF LogoutStep, LogoutRefuse, LogoutFail

\* What the snapshot of blacklist_jwt_ids_for leaves out is over already, or
\* had its login overtaken.
LEMMA LeftOut ==
    ASSUME IInv, NEW u \in Mcusers, NEW n \in Nat, n <= clock,
           NEW j \in JwtIds, <<u, j>> \in issued, j \notin BlacklistTargets(u, n)
    PROVE  OverOrRaced(j)
<1>1. CASE \A l \in RowsOf(j) : l.type # "LOGIN"
  BY <1>1 DEF OverOrRaced, Ended
<1>2. CASE \E l \in RowsOf(j) : l.type = "LOGIN"
  <2>1. PICK l \in RowsOf(j) : l.type = "LOGIN"
    BY <1>2
  <2>2. /\ l \in mcuser_audit /\ l.jwt_id = j /\ l.jwt_id_status = "OK"
        /\ <<l.uid, j>> \in issued
        /\ l.login_expiration = expires[j]
        /\ l.created \in Nat
    BY <2>1 DEF RowsOf, IInv, TypeOK, AuditRow, RowsSound
  <2>3. l.uid = u
    BY <2>2 DEF IInv, IdsUnique
  <2>4. \A m \in RowsOf(j) : m.type = "LOGIN" => m = l
    BY <2>1, <2>2 DEF IInv, IdsUnique, RowsOf
  <2>5. CASE j \in EndedIds(u)
    <3>1. PICK o \in mcuser_audit : o.jwt_id = j /\ (o.type # "LOGIN" \/ o.jwt_id_status # "OK")
      BY <2>5 DEF EndedIds
    <3>2. o.type = "LOGOUT" /\ o \in RowsOf(j) /\ o.created \in Nat
      BY <3>1 DEF IInv, TypeOK, AuditRow, RowsSound, RowsOf
    <3>3. CASE o.created > l.created
      BY <2>4, <3>2, <3>3 DEF OverOrRaced, Ended
    <3>4. CASE o.created <= l.created
      BY <2>1, <3>2, <3>4 DEF OverOrRaced, Raced
    <3>5. QED
      BY <2>2, <3>2, <3>3, <3>4
  <2>6. CASE j \notin EndedIds(u)
    <3>1. ~(l.login_expiration >= n)
      BY <2>1, <2>2, <2>3, <2>6 DEF BlacklistTargets
    <3>2. expires[j] \in Nat /\ clock \in Nat
      BY DEF IInv, TypeOK
    <3>3. QED
      BY <2>2, <3>1, <3>2 DEF OverOrRaced
  <2>7. QED
    BY <2>5, <2>6
<1>3. QED
  BY <1>1, <1>2

LEMMA BlacklistIInv == ASSUME IInv, NEW c \in Conns, BlacklistStep(c) PROVE IInv'
<1>1. TypeOK'
  BY BlacklistType DEF IInv
<1>2. ASSUME NEW u \in Mcusers, BlacklistBegin(c, u)
      PROVE  IInv'
  <2>1. Quiet
    BY <1>2 DEF IInv, TypeOK, BlacklistBegin, Quiet, Present
  <2>2. \A j \in JwtIds : LoginBefore(j, clock)
    BY DEF IInv, RowsSound, LoginBefore, RowsOf
  <2>3. CallSound(tx[c])'
    BY <1>2, <2>2
       DEF IInv, TypeOK, BlacklistBegin, CallSound, LoginBefore, RowsOf
  <2>4. QED
    BY <1>1, <1>2, <2>1, <2>3, QuietCall DEF BlacklistBegin
<1>3. ASSUME BlacklistSelect(c) PROVE IInv'
  <2>1. Quiet
    BY <1>3 DEF IInv, TypeOK, BlacklistSelect, Quiet, Present
  <2>2. tx[c] \in BlacklistTx
    BY <1>3, CallKinds DEF IInv, BlacklistSelect
  <2>3. PICK u \in Mcusers, n \in Nat, h \in SUBSET JwtIds :
            tx[c].uid = u /\ tx[c].now = n /\ tx[c].held = h
    BY <2>2 DEF BlacklistTx
  <2> DEFINE call == [tx[c] EXCEPT !.pc = "passed", !.targets = BlacklistTargets(u, n)]
  <2>4. tx' = [tx EXCEPT ![c] = call]
    BY <1>3, <2>3 DEF BlacklistSelect
  <2>5. /\ call.op = "blacklist" /\ call.uid = u /\ call.now = n /\ call.held = h
        /\ call.targets = BlacklistTargets(u, n)
    BY <2>2, <2>3 DEF BlacklistTx
  <2>6. tx'[c] = call
    BY <2>4 DEF IInv, TypeOK
  <2>7. /\ n <= clock
        /\ \A j \in h : <<u, j>> \in issued /\ LoginBefore(j, n)
    BY <2>2, <2>3 DEF IInv, CallsSound, CallSound, BlacklistTx
  <2>8. \A j \in BlacklistTargets(u, n) : <<u, j>> \in issued
    BY DEF BlacklistTargets, IInv, RowsSound
  <2>9. \A j \in h : j \in BlacklistTargets(u, n) \/ OverOrRaced(j)
    BY <2>7, LeftOut
  <2> HIDE DEF call
  <2>10. \A j \in h : LoginBefore(j, n)' /\ (OverOrRaced(j) => OverOrRaced(j)')
    BY <1>3, <2>7
       DEF BlacklistSelect, LoginBefore, OverOrRaced, Ended, Raced, RowsOf
  <2>11. CallSound(tx[c])'
    <3>1. UNCHANGED <<clock, issued>>
      BY <1>3 DEF BlacklistSelect
    <3>2. QED
      BY <2>5, <2>6, <2>7, <2>8, <2>9, <2>10, <3>1 DEF CallSound
  <2>12. QED
    BY <1>1, <2>1, <2>4, <2>5, <2>11, QuietCall
<1>4. ASSUME BlacklistCommit(c) PROVE IInv'
  <2>1. tx[c] \in BlacklistTx
    BY <1>4, CallKinds DEF IInv, BlacklistCommit
  <2>2. PICK u \in Mcusers, n \in Nat, h \in SUBSET JwtIds, g \in SUBSET JwtIds :
            tx[c].uid = u /\ tx[c].now = n /\ tx[c].held = h /\ tx[c].targets = g
    BY <2>1 DEF BlacklistTx
  <2> DEFINE R == {LogoutRow(u, j, n) : j \in g}
  <2>3. /\ mcuser_audit' = mcuser_audit \cup R
        /\ revoked' = revoked \cup h
        /\ tx' = [tx EXCEPT ![c] = Idle]
        /\ n < clock
        /\ g # {} => Present(u)
        /\ UNCHANGED <<clock, mcuser, issued, expires, loggedOut>>
    BY <1>4, <2>2 DEF BlacklistCommit, BlacklistRows
  <2>4. /\ \A j \in h : <<u, j>> \in issued /\ LoginBefore(j, n)
        /\ \A j \in g : <<u, j>> \in issued
        /\ \A j \in h : j \in g \/ OverOrRaced(j)
    BY <1>4, <2>1, <2>2
       DEF IInv, CallsSound, CallSound, BlacklistTx, BlacklistCommit
  <2>5. ASSUME NEW j \in g
        PROVE  /\ LogoutRow(u, j, n) \in AuditRow
               /\ LogoutRow(u, j, n).type = "LOGOUT"
               /\ LogoutRow(u, j, n).jwt_id_status = "BLACKLISTED"
               /\ LogoutRow(u, j, n).uid = u
               /\ LogoutRow(u, j, n).created = n
               /\ LogoutRow(u, j, n).jwt_id = j
               /\ LoginRecorded(u, j)
    <3>1. LoginRecorded(u, j)
      BY <2>3, <2>4 DEF IInv, LoginsKept
    <3>2. QED
      BY <3>1 DEF LogoutRow, AuditRow
  <2>6. Closing(R)
    BY <2>3, <2>5 DEF Closing
  <2>7. ASSUME NEW j \in h PROVE IsIssued(j)' /\ OverOrRaced(j)'
    <3>1. IsIssued(j) /\ j \in JwtIds
      BY <2>4 DEF IsIssued
    <3>2. Keeps(j)
      BY <2>6, <3>1, ClosingKeeps
    <3>3. CASE j \in g
      <4>1. \E o \in R : o.jwt_id = j /\ o.created = n
        BY <2>5, <3>3
      <4>2. LoginBefore(j, n)
        BY <2>4
      <4>3. Ended(j)'
        BY <2>6, <3>1, <4>1, <4>2, RowEnds
      <4>4. QED
        BY <3>2, <4>3 DEF OverOrRaced, Keeps
    <3>4. CASE OverOrRaced(j)
      BY <3>2, <3>4 DEF Keeps
    <3>5. QED
      BY <2>4, <3>2, <3>3, <3>4 DEF Keeps
  <2> HIDE DEF R
  <2>8. PromisesKept'
    <3>1. \A k \in JwtIds : IsIssued(k) => Keeps(k)
      BY <2>6, ClosingKeeps
    <3>2. QED
      BY <2>3, <2>7, <3>1 DEF IInv, TypeOK, PromisesKept, Keeps
  <2>9. QED
    BY <1>1, <2>3, <2>6, <2>8, ClosingIInv
<1>5. QED
  BY <1>2, <1>3, <1>4, AbandonIInv DEF BlacklistStep, BlacklistFail

LEMMA NextIInv == IInv /\ [Next]_vars => IInv'
<1> SUFFICES ASSUME IInv, [Next]_vars PROVE IInv'
  OBVIOUS
<1>1. CASE UNCHANGED vars
  BY <1>1 DEF vars, IInv, TypeOK, RowsSound, LoginsKept, IdsUnique, CallsSound,
              PromisesKept, CallSound, LoginBefore, OverOrRaced, Ended, Raced,
              RowsOf, IsIssued, LoginRecorded, Present
<1>2. QED
  BY <1>1, TickIInv, AccountIInv, LoginIInv, LogoutIInv, BlacklistIInv DEF Next

\* IInv is an invariant: it implies every state property proved below.
THEOREM InvariantHolds == Spec => []IInv
BY InitIInv, NextIInv, PTL DEF Spec

(***************************************************************************)
(* What the invariant says of the queries.                                 *)
(***************************************************************************)

\* A session that is over is not VALID: the latest row is not its LOGIN row.
LEMMA EndedNotValid ==
    ASSUME IInv, NEW j \in JwtIds, Ended(j)
    PROVE  "VALID" \notin JwtStatuses(j, clock)
<1>1. ASSUME NEW r \in LatestRecs(j) PROVE StatusOf(r, clock) # "VALID"
  <2>1. r \in RowsOf(j) /\ \A s \in RowsOf(j) : s.created <= r.created
    BY <1>1 DEF LatestRecs
  <2>2. \A s \in RowsOf(j) : s.created \in Nat
    BY DEF IInv, TypeOK, AuditRow, RowsOf
  <2>3. r.type # "LOGIN"
    BY <2>1, <2>2 DEF Ended
  <2>4. r.type = "LOGOUT" /\ r.jwt_id_status = "BLACKLISTED"
    BY <2>1, <2>3 DEF IInv, TypeOK, AuditRow, RowsSound, RowsOf
  <2>5. QED
    BY <2>4 DEF StatusOf
<1>2. QED
  BY <1>1 DEF JwtStatuses

\* Nor is one whose expiration has come.
LEMMA LapsedNotValid ==
    ASSUME IInv, NEW j \in JwtIds, expires[j] <= clock
    PROVE  "VALID" \notin JwtStatuses(j, clock)
<1>1. ASSUME NEW r \in LatestRecs(j) PROVE StatusOf(r, clock) # "VALID"
  <2>1. r \in mcuser_audit /\ r.jwt_id = j
    BY <1>1 DEF LatestRecs, RowsOf
  <2>2. CASE r.type = "LOGIN"
    BY <1>1, <2>1, <2>2 DEF StatusOf, IInv, RowsSound
  <2>3. CASE r.type # "LOGIN"
    BY <2>3 DEF StatusOf
  <2>4. QED
    BY <2>2, <2>3
<1>2. QED
  BY <1>1 DEF JwtStatuses

\* No LOGOUT row without the LOGIN row of the same mcuser and jwt id.
THEOREM LogoutRowsFollowLogins == Spec => []LogoutFollowsLogin
<1>1. IInv => LogoutFollowsLogin
  BY DEF IInv, RowsSound, LogoutFollowsLogin
<1>2. QED
  BY <1>1, InvariantHolds, PTL

\* A JWT that mcuser_logout returned true for is never VALID again.
THEOREM LogoutFinality == Spec => []LogoutIsFinal
<1>1. IInv => LogoutIsFinal
  BY EndedNotValid DEF IInv, TypeOK, PromisesKept, LogoutIsFinal
<1>2. QED
  BY <1>1, InvariantHolds, PTL

\* After blacklist_jwt_ids_for, no JWT in force when it was called is VALID,
\* but for those whose login another such call overtook.
THEOREM RevocationFinality == Spec => []RevokedIsFinalUnlessRaced
<1>1. IInv => RevokedIsFinalUnlessRaced
  BY EndedNotValid, LapsedNotValid
     DEF IInv, TypeOK, PromisesKept, OverOrRaced, RevokedIsFinalUnlessRaced
<1>2. QED
  BY <1>1, InvariantHolds, PTL
=============================================================================
