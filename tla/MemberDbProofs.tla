--------------------------- MODULE MemberDbProofs ---------------------------
(***************************************************************************)
(* Proofs about MemberDb, for every set of member ids, keys, address names *)
(* and connections.                                                        *)
(***************************************************************************)
EXTENDS MemberDb, FiniteSetTheorems, WellFoundedInduction, TLAPS

USE DEF rows, At

Calls == {Idle} \cup AddTx \cup UpdateTx \cup DeleteTx \cup LoginTx \cup VisitTx

(***************************************************************************)
(* Type correctness.                                                       *)
(***************************************************************************)

\* A call keeps its record in the type of its kind.
LEMMA CallKinds ==
    ASSUME TypeOK, NEW c \in Conns
    PROVE  /\ tx[c].op = "add" => tx[c] \in AddTx
           /\ tx[c].op = "update" => tx[c] \in UpdateTx
           /\ tx[c].op = "delete" => tx[c] \in DeleteTx
           /\ tx[c].op = "login" => tx[c] \in LoginTx
           /\ tx[c].op = "visit" => tx[c] \in VisitTx
BY DEF TypeOK, Idle, AddTx, UpdateTx, DeleteTx, LoginTx, VisitTx

LEMMA InitType == Init => TypeOK
BY DEF Init, TypeOK

\* A step that changes one call and no row keeps the types if the call's new
\* record is one.
LEMMA ProceedType ==
    ASSUME TypeOK, NEW c \in Conns, NEW call \in Calls, Proceed(c, call)
    PROVE  TypeOK'
BY DEF TypeOK, Proceed, Calls

LEMMA BeginType ==
    ASSUME TypeOK, NEW c \in Conns, Call(c)
    PROVE  TypeOK'
<1>1. ASSUME NEW e \in Emps, NEW u \in Usernames, BeginAdd(c, e, u)
      PROVE  TypeOK'
  <2>1. [op |-> "add", pc |-> "begun", emp |-> e, username |-> u] \in Calls
    BY DEF Calls, AddTx
  <2>2. QED
    BY <1>1, <2>1, ProceedType DEF BeginAdd, Begin, Proceed
<1>2. ASSUME NEW m \in Mids, NEW e \in Emps \cup {Keep, Null},
             NEW u \in Usernames \cup {Keep, Null}, BeginUpdate(c, m, e, u)
      PROVE  TypeOK'
  <2>1. [op |-> "update", pc |-> "begun", mid |-> m, emp |-> e,
         username |-> u] \in Calls
    BY DEF Calls, UpdateTx
  <2>2. QED
    BY <1>2, <2>1, ProceedType DEF BeginUpdate, Begin, Proceed
<1>3. ASSUME NEW m \in Mids, BeginDelete(c, m)
      PROVE  TypeOK'
  <2>1. [op |-> "delete", pc |-> "begun", mid |-> m] \in Calls
    BY DEF Calls, DeleteTx
  <2>2. QED
    BY <1>3, <2>1, ProceedType DEF BeginDelete, Begin, Proceed
<1>4. ASSUME NEW m \in Mids, BeginLogout(c, m)
      PROVE  TypeOK'
  <2>1. [op |-> "visit", mid |-> m] \in Calls
    BY DEF Calls, VisitTx
  <2>2. QED
    BY <1>4, <2>1, ProceedType DEF BeginLogout, Begin, Proceed
<1>5. ASSUME NEW u \in Usernames, BeginLogin(c, u)
      PROVE  TypeOK'
  <2>1. [op |-> "login", pc |-> "passed", username |-> u] \in Calls
    BY DEF Calls, LoginTx
  <2>2. QED
    BY <1>5, <2>1, ProceedType DEF BeginLogin, Begin, Proceed
<1>6. QED
  BY <1>1, <1>2, <1>3, <1>4, <1>5 DEF Call

\* The ways a call fails, all of which roll back.
Fails(c) ==
    \/ InsertMember_Duplicate(c) \/ InsertMauth_Duplicate(c)
    \/ UpdateMauth_Fails(c) \/ UpdateMember_Fails(c)
    \/ DeleteMember_Fails(c) \/ LookUpLogin_Fails(c)
    \/ WriteVisit_Fails(c) \/ DeadlockVictim(c)

LEMMA FailsRollBack ==
    ASSUME NEW c \in Conns, Fails(c)
    PROVE  Rollback(c)
BY DEF Fails, InsertMember_Duplicate, InsertMauth_Duplicate,
       UpdateMauth_Fails, UpdateMember_Fails, DeleteMember_Fails,
       LookUpLogin_Fails, WriteVisit_Fails, DeadlockVictim

\* The steps by which a call takes a row or a key.
Takes(c) ==
    \/ \E m \in Mids : InsertMember(c, m)
    \/ UpdateMauth(c)
    \/ EnterUsername(c)
    \/ ChangeEmp(c)
    \/ DeleteMember(c)

\* The steps by which a call commits.
Commits(c) ==
    InsertMauth(c) \/ UpdateMember(c) \/ Cascade(c) \/ WriteVisit(c)

LEMMA AdvanceKinds ==
    ASSUME NEW c \in Conns, Advance(c)
    PROVE  \/ Takes(c) \/ Commits(c) \/ Fails(c)
           \/ \E m \in Mids : LookUpLogin(c, m)
BY DEF Advance, Takes, Commits, Fails

LEMMA RollbackType ==
    ASSUME TypeOK, NEW c \in Conns, Rollback(c)
    PROVE  TypeOK'
BY ProceedType DEF Rollback, Proceed, Calls

LEMMA TakesType ==
    ASSUME TypeOK, NEW c \in Conns, Takes(c)
    PROVE  TypeOK'
<1>1. ASSUME NEW m \in Mids, InsertMember(c, m) PROVE TypeOK'
  <2>1. Inserted(c, m) \in Calls
    BY <1>1, CallKinds DEF InsertMember, Inserted, Calls, AddTx
  <2>2. QED
    BY <1>1, <2>1, ProceedType DEF InsertMember
<1>2. ASSUME UpdateMauth(c) PROVE TypeOK'
  <2>1. PICK pc \in {"mauth", "mauthRow"} :
            Proceed(c, [tx[c] EXCEPT !.pc = pc])
    BY <1>2 DEF UpdateMauth
  <2>2. tx[c] \in UpdateTx
    BY <1>2, CallKinds DEF UpdateMauth
  <2>3. [tx[c] EXCEPT !.pc = pc] \in Calls
    BY <2>2 DEF Calls, UpdateTx
  <2>4. QED
    BY <2>1, <2>3, ProceedType
<1>3. ASSUME EnterUsername(c) PROVE TypeOK'
  <2>1. [tx[c] EXCEPT !.pc = "mauth"] \in Calls
    BY <1>3, CallKinds DEF EnterUsername, Calls, UpdateTx
  <2>2. QED
    BY <1>3, <2>1, ProceedType DEF EnterUsername
<1>4. ASSUME ChangeEmp(c) PROVE TypeOK'
  <2>1. [tx[c] EXCEPT !.pc = "memberRow"] \in Calls
    BY <1>4, CallKinds DEF ChangeEmp, Calls, UpdateTx
  <2>2. QED
    BY <1>4, <2>1, ProceedType DEF ChangeEmp
<1>5. ASSUME DeleteMember(c) PROVE TypeOK'
  <2>1. [tx[c] EXCEPT !.pc = "member"] \in Calls
    BY <1>5, CallKinds DEF DeleteMember, Calls, DeleteTx
  <2>2. QED
    BY <1>5, <2>1, ProceedType DEF DeleteMember
<1>6. QED
  BY <1>1, <1>2, <1>3, <1>4, <1>5 DEF Takes

LEMMA CommitsType ==
    ASSUME TypeOK, KeysToEnter, NEW c \in Conns, Commits(c)
    PROVE  TypeOK'
<1>1. ASSUME InsertMauth(c) PROVE TypeOK'
  <2>1. tx[c].mid \in Mids /\ tx[c].emp \in Emps /\ tx[c].username \in Usernames
    BY <1>1, CallKinds DEF InsertMauth, AddTx
  <2>2. QED
    BY <1>1, <2>1 DEF TypeOK, InsertMauth, Commit
<1>2. ASSUME UpdateMember(c) PROVE TypeOK'
  <2> DEFINE m == tx[c].mid
  <2>1. tx[c] \in UpdateTx
    BY <1>2, CallKinds DEF UpdateMember
  <2>2. /\ Set(tx[c].emp, member[m]) \in Emps \cup {None, Deleted}
        /\ Set(tx[c].username, mauth[m]) \in Usernames \cup {None}
    BY <2>1 DEF TypeOK, UpdateTx, Set
  <2>3. QED
    BY <1>2, <2>1, <2>2 DEF TypeOK, UpdateMember, Commit, UpdateTx
<1>3. ASSUME Cascade(c) PROVE TypeOK'
  BY <1>3 DEF TypeOK, Cascade, Commit
<1>4. ASSUME WriteVisit(c) PROVE TypeOK'
  <2>1. tx[c].mid \in Mids
    BY <1>4, CallKinds DEF WriteVisit, VisitTx
  <2>2. QED
    BY <1>4, <2>1 DEF TypeOK, WriteVisit, Commit
<1>5. QED
  BY <1>1, <1>2, <1>3, <1>4 DEF Commits

LEMMA NextType ==
    ASSUME TypeOK, KeysToEnter, [Next]_vars
    PROVE  TypeOK'
<1>1. ASSUME NEW c \in Conns, Advance(c) PROVE TypeOK'
  <2>1. ASSUME NEW m \in Mids, LookUpLogin(c, m) PROVE TypeOK'
    <3>1. [op |-> "visit", mid |-> m] \in Calls
      BY DEF Calls, VisitTx
    <3>2. QED
      BY <2>1, <3>1, ProceedType DEF LookUpLogin
  <2>2. QED
    BY <1>1, <2>1, AdvanceKinds, TakesType, CommitsType, FailsRollBack,
       RollbackType
<1>2. ASSUME NEW m \in Mids, NEW name \in AddressNames,
             AddMemberAddress(m, name) \/ DeleteMemberAddress(m, name)
      PROVE  TypeOK'
  BY <1>2 DEF TypeOK, AddMemberAddress, DeleteMemberAddress
<1>3. CASE UNCHANGED vars
  BY <1>3 DEF TypeOK, vars
<1>4. QED
  BY <1>1, <1>2, <1>3, BeginType DEF Next

(***************************************************************************)
(* The invariant.  A call holds rows and keys between the steps that take  *)
(* them and its end; what the invariant says of rows alone can then only   *)
(* be disturbed by a commit, and what it says of claims by taking one.     *)
(***************************************************************************)

\* A call's record that holds nothing.
Quiet(call) ==
    call.op \in {"idle", "login", "visit"} \/ call.pc = "begun"

\* What the invariant says of rows alone.
RowsInv == MembersAreWhole /\ KeysAreUnique /\ NothingIsOrphaned

ClaimsInv ==
    /\ InsertsAreFresh
    /\ LocksAreExclusive
    /\ UsernamesAreEnteredOnce
    /\ KeysToEnter

LEMMA InitInv == Init => IInv
BY KeysAssumption
   DEF Init, IInv, MembersAreWhole, KeysAreUnique, NothingIsOrphaned,
       InsertsAreFresh, LocksAreExclusive, UsernamesAreEnteredOnce,
       KeysToEnter, Present, LocksMember, LocksMauth, HasEntered, Idle

LEMMA RowsUnchanged ==
    ASSUME RowsInv, UNCHANGED rows
    PROVE  RowsInv'
BY DEF RowsInv, MembersAreWhole, KeysAreUnique, NothingIsOrphaned, Present

\* A call that comes to hold nothing, or goes on holding nothing, disturbs no
\* claim of the others.
LEMMA QuietClaims ==
    ASSUME TypeOK, ClaimsInv, NEW c \in Conns, NEW call, Quiet(call),
           Proceed(c, call)
    PROVE  ClaimsInv'
<1>1. tx'[c] = call /\ \A d \in Conns \ {c} : tx'[d] = tx[d]
  BY DEF TypeOK, Proceed
<1>2. member' = member /\ mauth' = mauth
  BY DEF Proceed
<1>3. InsertsAreFresh'
  BY <1>1, <1>2 DEF ClaimsInv, InsertsAreFresh, Quiet
<1>4. LocksAreExclusive'
  BY <1>1, <1>2
     DEF ClaimsInv, LocksAreExclusive, LocksMember, LocksMauth, Present, Quiet
<1>5. UsernamesAreEnteredOnce'
  BY <1>1, <1>2
     DEF ClaimsInv, UsernamesAreEnteredOnce, HasEntered, UsernameTaken, Quiet
<1>6. KeysToEnter'
  BY <1>1 DEF ClaimsInv, KeysToEnter, Quiet
<1>7. QED
  BY <1>3, <1>4, <1>5, <1>6 DEF ClaimsInv

LEMMA QuietInv ==
    ASSUME TypeOK, IInv, NEW c \in Conns, NEW call, Quiet(call),
           Proceed(c, call)
    PROVE  IInv'
BY QuietClaims, RowsUnchanged DEF IInv, RowsInv, ClaimsInv, Proceed

LEMMA RollbackInv ==
    ASSUME TypeOK, IInv, NEW c \in Conns, Rollback(c)
    PROVE  IInv'
BY QuietInv DEF Rollback, Proceed, Quiet, Idle

LEMMA BeginInv ==
    ASSUME TypeOK, IInv, NEW c \in Conns, Call(c)
    PROVE  IInv'
<1>1. PICK call : Quiet(call) /\ Proceed(c, call)
  <2>1. ASSUME NEW e \in Emps, NEW u \in Usernames, BeginAdd(c, e, u)
        PROVE  \E call : Quiet(call) /\ Proceed(c, call)
    <3>1. Quiet([op |-> "add", pc |-> "begun", emp |-> e, username |-> u])
      BY DEF Quiet
    <3>2. QED
      BY <2>1, <3>1 DEF BeginAdd, Begin, Proceed
  <2>2. ASSUME NEW m \in Mids, NEW e \in Emps \cup {Keep, Null},
               NEW u \in Usernames \cup {Keep, Null}, BeginUpdate(c, m, e, u)
        PROVE  \E call : Quiet(call) /\ Proceed(c, call)
    <3>1. Quiet([op |-> "update", pc |-> "begun", mid |-> m, emp |-> e,
                 username |-> u])
      BY DEF Quiet
    <3>2. QED
      BY <2>2, <3>1 DEF BeginUpdate, Begin, Proceed
  <2>3. ASSUME NEW m \in Mids, BeginDelete(c, m)
        PROVE  \E call : Quiet(call) /\ Proceed(c, call)
    <3>1. Quiet([op |-> "delete", pc |-> "begun", mid |-> m])
      BY DEF Quiet
    <3>2. QED
      BY <2>3, <3>1 DEF BeginDelete, Begin, Proceed
  <2>4. ASSUME NEW m \in Mids, BeginLogout(c, m)
        PROVE  \E call : Quiet(call) /\ Proceed(c, call)
    <3>1. Quiet([op |-> "visit", mid |-> m])
      BY DEF Quiet
    <3>2. QED
      BY <2>4, <3>1 DEF BeginLogout, Begin, Proceed
  <2>5. ASSUME NEW u \in Usernames, BeginLogin(c, u)
        PROVE  \E call : Quiet(call) /\ Proceed(c, call)
    <3>1. Quiet([op |-> "login", pc |-> "passed", username |-> u])
      BY DEF Quiet
    <3>2. QED
      BY <2>5, <3>1 DEF BeginLogin, Begin, Proceed
  <2>6. QED
    BY <2>1, <2>2, <2>3, <2>4, <2>5 DEF Call
<1>2. QED
  BY <1>1, QuietInv

\* Taking a row or a key changes no row, so it comes down to the claims.
LEMMA TakesInv ==
    ASSUME TypeOK, IInv, NEW c \in Conns, Takes(c)
    PROVE  IInv'
<1> USE DEF IInv, InsertsAreFresh, LocksAreExclusive,
            UsernamesAreEnteredOnce, KeysToEnter
<1>1. ASSUME NEW m \in Mids, InsertMember(c, m) PROVE IInv'
  <2>1. /\ tx'[c] = Inserted(c, m)
        /\ \A d \in Conns \ {c} : tx'[d] = tx[d]
        /\ UNCHANGED rows
    BY <1>1 DEF TypeOK, InsertMember, Proceed
  <2>2. RowsInv'
    BY <2>1, RowsUnchanged DEF RowsInv
  <2>3. tx[c].emp \in Emps
    BY <1>1, CallKinds DEF InsertMember, AddTx
  <2>4. InsertsAreFresh'
    <3>1. \A n \in Mids : member[n] # tx[c].emp
      BY <1>1, <2>3, KeysAssumption
         DEF InsertMember, Drawable, EmpTaken, Marks
    <3>2. \A d \in Conns \ {c} : At(d, "add", "member") =>
              tx[d].emp # tx[c].emp /\ tx[d].mid # m
      BY <1>1 DEF InsertMember, Drawable, Runs, WaitsFor, ClaimsEmp
    <3>3. QED
      BY <1>1, <2>1, <3>1, <3>2 DEF InsertMember, Drawable, Inserted
  <2>5. LocksAreExclusive'
    BY <2>1 DEF LocksMember, LocksMauth, Present, Inserted
  <2>6. UsernamesAreEnteredOnce'
    BY <2>1 DEF HasEntered, UsernameTaken, Inserted
  <2>7. KeysToEnter'
    BY <2>1 DEF Inserted
  <2>8. QED
    BY <2>2, <2>4, <2>5, <2>6, <2>7 DEF RowsInv
<1>2. ASSUME UpdateMauth(c) PROVE IInv'
  <2> DEFINE m == tx[c].mid
  <2>0. PICK pc \in {"mauth", "mauthRow"} :
            /\ tx'[c] = [tx[c] EXCEPT !.pc = pc]
            /\ pc = "mauth" <=> Set(tx[c].username, mauth[m]) = mauth[m]
    BY <1>2 DEF TypeOK, UpdateMauth, Proceed
  <2>1. UNCHANGED rows /\ \A d \in Conns \ {c} : tx'[d] = tx[d]
    BY <1>2 DEF TypeOK, UpdateMauth, Proceed
  <2>2. /\ tx[c] \in UpdateTx /\ tx[c].pc = "begun" /\ tx[c].op = "update"
        /\ mauth[m] # None
        /\ m \in Mids
    BY <1>2, CallKinds DEF UpdateMauth, UpdateTx
  <2>3. /\ tx'[c].op = "update" /\ tx'[c].pc = pc
        /\ tx'[c].mid = m /\ tx'[c].username = tx[c].username
        /\ pc = "mauth" <=> Set(tx[c].username, mauth[m]) = mauth[m]
    BY <2>0, <2>2 DEF UpdateTx
  <2>4. RowsInv'
    BY <2>1, RowsUnchanged DEF RowsInv
  <2>5. InsertsAreFresh'
    BY <2>1, <2>3
  <2>6. Present(m) /\ (tx[c].username # Null =>
            \A d \in Conns \ {c} : ~LocksMauth(d, m))
    BY <1>2, <2>2 DEF MembersAreWhole, UpdateMauth, Runs, WaitsFor
  <2>7. LocksAreExclusive'
    BY <2>1, <2>3, <2>6 DEF LocksMember, LocksMauth, Present
  <2>8. UsernamesAreEnteredOnce'
    <3>1. ASSUME NEW u \in Usernames, HasEntered(c, u)'
          PROVE  mauth[m] = u
      BY <2>1, <2>2, <2>3, <3>1, KeysAssumption
         DEF HasEntered, Set, Marks
    <3>2. ASSUME NEW u \in Usernames, mauth[m] = u
          PROVE  ~UsernameTaken(m, u)
      BY <2>2, <2>6, <3>2 DEF UsernameTaken, KeysAreUnique, MembersAreWhole
    <3>3. ASSUME NEW u \in Usernames, mauth[m] = u, tx[c].username # Null,
                 NEW d \in Conns \ {c}, HasEntered(d, u)
          PROVE  FALSE
      <4>1. tx[d] \in UpdateTx /\ tx[d].mid \in Mids
        BY <3>3, CallKinds DEF HasEntered, UpdateTx
      <4>2. LocksMauth(d, tx[d].mid)
        BY <3>3, KeysAssumption DEF HasEntered, LocksMauth, Marks
      <4>3. tx[d].mid # m
        BY <2>6, <3>3, <4>2
      <4>4. UsernameTaken(tx[d].mid, u)
        BY <2>2, <3>3, <4>3 DEF UsernameTaken
      <4>5. QED
        BY <3>3, <4>4
    <3>4. ASSUME NEW u \in Usernames, HasEntered(c, u)'
          PROVE  tx[c].username # Null
      BY <2>3, <3>4, KeysAssumption DEF HasEntered, Marks
    <3>5. QED
      BY <2>1, <2>3, <3>1, <3>2, <3>3, <3>4 DEF HasEntered, UsernameTaken
  <2>9. KeysToEnter'
    BY <2>1, <2>2, <2>3 DEF UpdateTx, Set
  <2>10. QED
    BY <2>4, <2>5, <2>7, <2>8, <2>9 DEF RowsInv
<1>3. ASSUME EnterUsername(c) PROVE IInv'
  <2>0. tx'[c] = [tx[c] EXCEPT !.pc = "mauth"]
    BY <1>3 DEF TypeOK, EnterUsername, Proceed
  <2>1. UNCHANGED rows /\ \A d \in Conns \ {c} : tx'[d] = tx[d]
    BY <1>3 DEF TypeOK, EnterUsername, Proceed
  <2>2. /\ tx[c] \in UpdateTx /\ tx[c].pc = "mauthRow" /\ tx[c].op = "update"
        /\ tx[c].mid \in Mids
    BY <1>3, CallKinds DEF EnterUsername, UpdateTx
  <2>3. /\ tx'[c].op = "update" /\ tx'[c].pc = "mauth"
        /\ tx'[c].mid = tx[c].mid /\ tx'[c].username = tx[c].username
    BY <2>0, <2>2 DEF UpdateTx
  <2>4. RowsInv'
    BY <2>1, RowsUnchanged DEF RowsInv
  <2>5. InsertsAreFresh'
    BY <2>1, <2>3
  <2>6. LocksAreExclusive'
    BY <2>1, <2>2, <2>3 DEF LocksMember, LocksMauth, Present
  <2>7. UsernamesAreEnteredOnce'
    <3>1. \A d \in Conns \ {c} : ~HasEntered(d, tx[c].username)
      BY <1>3, <2>2 DEF EnterUsername, Runs, WaitsFor, ClaimsUsername
    <3>2. QED
      BY <1>3, <2>1, <2>3, <3>1 DEF EnterUsername, HasEntered, UsernameTaken
  <2>8. KeysToEnter'
    BY <2>1, <2>3
  <2>9. QED
    BY <2>4, <2>5, <2>6, <2>7, <2>8 DEF RowsInv
<1>4. ASSUME ChangeEmp(c) PROVE IInv'
  <2>0. tx'[c] = [tx[c] EXCEPT !.pc = "memberRow"]
    BY <1>4 DEF TypeOK, ChangeEmp, Proceed
  <2>1. UNCHANGED rows /\ \A d \in Conns \ {c} : tx'[d] = tx[d]
    BY <1>4 DEF TypeOK, ChangeEmp, Proceed
  <2>2. /\ tx[c] \in UpdateTx /\ tx[c].pc = "mauth" /\ tx[c].op = "update"
        /\ tx[c].mid \in Mids /\ Present(tx[c].mid) /\ tx[c].emp # Null
    BY <1>4, CallKinds DEF ChangeEmp, UpdateTx
  <2>3. /\ tx'[c].op = "update" /\ tx'[c].pc = "memberRow"
        /\ tx'[c].mid = tx[c].mid /\ tx'[c].username = tx[c].username
        /\ tx'[c].emp = tx[c].emp
    BY <2>0, <2>2 DEF UpdateTx
  <2>4. RowsInv'
    BY <2>1, RowsUnchanged DEF RowsInv
  <2>5. InsertsAreFresh'
    BY <2>1, <2>3
  <2>6. \A d \in Conns \ {c} : ~LocksMember(d, tx[c].mid)
    BY <1>4, <2>2 DEF ChangeEmp, Runs, WaitsFor
  <2>7. LocksAreExclusive'
    BY <2>1, <2>2, <2>3, <2>6 DEF LocksMember, LocksMauth, Present
  <2>8. UsernamesAreEnteredOnce'
    BY <2>1, <2>2, <2>3 DEF HasEntered, UsernameTaken
  <2>9. KeysToEnter'
    BY <1>4, <2>1, <2>2, <2>3 DEF UpdateTx, ChangeEmp, Set
  <2>10. QED
    BY <2>4, <2>5, <2>7, <2>8, <2>9 DEF RowsInv
<1>5. ASSUME DeleteMember(c) PROVE IInv'
  <2>0. tx'[c] = [tx[c] EXCEPT !.pc = "member"]
    BY <1>5 DEF TypeOK, DeleteMember, Proceed
  <2>1. UNCHANGED rows /\ \A d \in Conns \ {c} : tx'[d] = tx[d]
    BY <1>5 DEF TypeOK, DeleteMember, Proceed
  <2>2. /\ tx[c] \in DeleteTx /\ tx[c].pc = "begun" /\ tx[c].op = "delete"
        /\ tx[c].mid \in Mids /\ Present(tx[c].mid)
    BY <1>5, CallKinds DEF DeleteMember, DeleteTx
  <2>3. tx'[c].op = "delete" /\ tx'[c].pc = "member" /\ tx'[c].mid = tx[c].mid
    BY <2>0, <2>2 DEF DeleteTx
  <2>4. RowsInv'
    BY <2>1, RowsUnchanged DEF RowsInv
  <2>5. InsertsAreFresh'
    BY <2>1, <2>3
  <2>6. \A d \in Conns \ {c} : ~LocksMember(d, tx[c].mid)
    BY <1>5, <2>2 DEF DeleteMember, Runs, WaitsFor
  <2>7. LocksAreExclusive'
    BY <2>1, <2>2, <2>3, <2>6 DEF LocksMember, LocksMauth, Present
  <2>8. UsernamesAreEnteredOnce'
    BY <2>1, <2>2, <2>3 DEF HasEntered, UsernameTaken
  <2>9. KeysToEnter'
    BY <2>1, <2>3
  <2>10. QED
    BY <2>4, <2>5, <2>7, <2>8, <2>9 DEF RowsInv
<1>6. QED
  BY <1>1, <1>2, <1>3, <1>4, <1>5 DEF Takes

\* insert_member commits a member that is nobody else's yet.
LEMMA InsertMauthInv ==
    ASSUME TypeOK, IInv, NEW c \in Conns, InsertMauth(c)
    PROVE  IInv'
<1> DEFINE m == tx[c].mid
<1> USE DEF IInv
<1>1. /\ tx[c] \in AddTx /\ tx[c].op = "add" /\ tx[c].pc = "member"
      /\ m \in Mids /\ tx[c].emp \in Emps /\ tx[c].username \in Usernames
  BY CallKinds DEF InsertMauth, AddTx
<1>2. tx'[c] = Idle /\ \A d \in Conns \ {c} : tx'[d] = tx[d]
  BY DEF TypeOK, InsertMauth, Commit
<1>3. /\ member'[m] = tx[c].emp /\ mauth'[m] = tx[c].username
      /\ \A n \in Mids \ {m} : member'[n] = member[n] /\ mauth'[n] = mauth[n]
      /\ maddress' = maddress /\ member_audit' = member_audit
  BY <1>1 DEF TypeOK, InsertMauth
<1>4. member[m] = None /\ \A n \in Mids : member[n] # tx[c].emp
  BY <1>1 DEF InsertsAreFresh
<1>5. \A n \in Mids \ {m} : mauth[n] # tx[c].username
  BY DEF InsertMauth, UsernameTaken
<1>6. /\ tx[c].emp \notin {None, Deleted} /\ tx[c].username # None
  BY <1>1, KeysAssumption DEF Marks
<1>7. MembersAreWhole'
  BY <1>3, <1>6 DEF MembersAreWhole, Present
<1>8. KeysAreUnique'
  BY <1>3, <1>4, <1>5 DEF KeysAreUnique, Present
<1>9. NothingIsOrphaned'
  BY <1>3, <1>6 DEF NothingIsOrphaned, Present, TypeOK
<1>10. InsertsAreFresh'
  <2>1. ASSUME NEW d \in Conns \ {c}, At(d, "add", "member")
        PROVE  /\ tx[d].mid # m /\ tx[d].emp # tx[c].emp /\ tx[d].mid \in Mids
    BY <1>1, <2>1, CallKinds DEF InsertsAreFresh, AddTx
  <2>2. QED
    BY <1>2, <1>3, <2>1 DEF InsertsAreFresh, Idle
<1>11. LocksAreExclusive'
  BY <1>2, <1>3, <1>4 DEF LocksAreExclusive, LocksMember, LocksMauth, Present, Idle
<1>12. UsernamesAreEnteredOnce'
  <2>1. \A d \in Conns \ {c} : ~HasEntered(d, tx[c].username)
    BY <1>1 DEF InsertMauth, Runs, WaitsFor, ClaimsUsername
  <2>2. QED
    BY <1>1, <1>2, <1>3, <2>1
       DEF UsernamesAreEnteredOnce, HasEntered, UsernameTaken, Idle
<1>13. KeysToEnter'
  BY <1>2 DEF KeysToEnter, Idle
<1>14. QED
  BY <1>7, <1>8, <1>9, <1>10, <1>11, <1>12, <1>13

\* What an update leaves in its member's rows is its own.
LEMMA UpdatedKeys ==
    ASSUME TypeOK, IInv, NEW c \in Conns, UpdateMember(c)
    PROVE  LET m == tx[c].mid
               e == Set(tx[c].emp, member[m])
               u == Set(tx[c].username, mauth[m])
           IN  /\ tx[c] \in UpdateTx /\ m \in Mids /\ Present(m)
               /\ e \in Emps /\ u \in Usernames
               /\ \A n \in Mids \ {m} : member[n] # e /\ mauth[n] # u
               /\ \A d \in Conns \ {c} :
                     At(d, "add", "member") => tx[d].emp # e
               /\ \A d \in Conns \ {c} :
                     HasEntered(d, u) => tx[d].mid = m
<1> DEFINE m == tx[c].mid
           e == Set(tx[c].emp, member[m])
           u == Set(tx[c].username, mauth[m])
<1> USE DEF IInv
<1>1. tx[c] \in UpdateTx /\ m \in Mids /\ tx[c].op = "update"
      /\ tx[c].pc \in {"mauth", "memberRow"}
  BY CallKinds DEF UpdateMember, UpdateTx
<1>2. Present(m)
  BY <1>1 DEF UpdateMember, LocksAreExclusive, LocksMember
<1>3. member[m] \in Emps /\ mauth[m] \in Usernames
  BY <1>1, <1>2 DEF TypeOK, Present, MembersAreWhole
<1>4. e \in Emps /\ u \in Usernames
  <2>1. e \in Emps
    BY <1>1, <1>3 DEF UpdateMember, KeysToEnter, Set, UpdateTx
  <2>2. u \in Usernames
    BY <1>1, <1>3 DEF Set, UpdateTx
  <2>3. QED
    BY <2>1, <2>2
<1>5. ASSUME tx[c].pc = "mauth"
      PROVE  /\ \A n \in Mids \ {m} : member[n] # e
             /\ \A d \in Conns \ {c} : At(d, "add", "member") => tx[d].emp # e
  <2>1. e = member[m]
    BY <1>1, <1>5 DEF UpdateMember
  <2>2. \A n \in Mids \ {m} : member[n] # e
    BY <1>1, <1>2, <1>4, <2>1, KeysAssumption DEF KeysAreUnique, Present, Marks
  <2>3. \A d \in Conns \ {c} : At(d, "add", "member") => tx[d].emp # e
    BY <1>1, <2>1 DEF InsertsAreFresh
  <2>4. QED
    BY <2>2, <2>3
<1>6. ASSUME tx[c].pc = "memberRow"
      PROVE  /\ \A n \in Mids \ {m} : member[n] # e
             /\ \A d \in Conns \ {c} : At(d, "add", "member") => tx[d].emp # e
  <2>1. tx[c].emp \in Emps /\ e = tx[c].emp
    BY <1>1, <1>6, KeysAssumption DEF KeysToEnter, Set, Marks
  <2>2. \A n \in Mids \ {m} : member[n] # e
    BY <1>1, <1>6, <2>1 DEF UpdateMember, EmpTaken
  <2>3. \A d \in Conns \ {c} : At(d, "add", "member") => tx[d].emp # e
    BY <1>1, <1>6, <2>1 DEF UpdateMember, Runs, WaitsFor, ClaimsEmp
  <2>4. QED
    BY <2>2, <2>3
<1>7. /\ \A n \in Mids \ {m} : member[n] # e
      /\ \A d \in Conns \ {c} : At(d, "add", "member") => tx[d].emp # e
  BY <1>1, <1>5, <1>6
<1>8. ASSUME u = mauth[m]
      PROVE  /\ \A n \in Mids \ {m} : mauth[n] # u
             /\ \A d \in Conns \ {c} : HasEntered(d, u) => tx[d].mid = m
  <2>1. \A n \in Mids \ {m} : mauth[n] # u
    BY <1>1, <1>2, <1>4, <1>8, KeysAssumption
       DEF KeysAreUnique, MembersAreWhole, Marks
  <2>2. \A d \in Conns \ {c} : HasEntered(d, u) => tx[d].mid = m
    BY <1>1, <1>4, <1>8 DEF UsernamesAreEnteredOnce, UsernameTaken
  <2>3. QED
    BY <2>1, <2>2
<1>9. ASSUME u # mauth[m]
      PROVE  /\ \A n \in Mids \ {m} : mauth[n] # u
             /\ \A d \in Conns \ {c} : HasEntered(d, u) => tx[d].mid = m
  <2>1. HasEntered(c, u)
    BY <1>1, <1>9 DEF HasEntered, Set
  <2>2. QED
    BY <1>4, <2>1 DEF UsernamesAreEnteredOnce, UsernameTaken
<1>10. /\ \A n \in Mids \ {m} : mauth[n] # u
       /\ \A d \in Conns \ {c} : HasEntered(d, u) => tx[d].mid = m
  BY <1>8, <1>9
<1>11. QED
  BY <1>1, <1>2, <1>4, <1>7, <1>10

LEMMA UpdateMemberInv ==
    ASSUME TypeOK, IInv, NEW c \in Conns, UpdateMember(c)
    PROVE  IInv'
<1> DEFINE m == tx[c].mid
           e == Set(tx[c].emp, member[m])
           u == Set(tx[c].username, mauth[m])
<1> USE DEF IInv
<1>1. /\ m \in Mids /\ Present(m)
      /\ e \in Emps /\ u \in Usernames
      /\ \A n \in Mids \ {m} : member[n] # e /\ mauth[n] # u
      /\ \A d \in Conns \ {c} : At(d, "add", "member") => tx[d].emp # e
      /\ \A d \in Conns \ {c} : HasEntered(d, u) => tx[d].mid = m
  BY UpdatedKeys
<1>2. tx'[c] = Idle /\ \A d \in Conns \ {c} : tx'[d] = tx[d]
  BY DEF TypeOK, UpdateMember, Commit
<1>3. /\ member'[m] = e /\ mauth'[m] = u
      /\ \A n \in Mids \ {m} : member'[n] = member[n] /\ mauth'[n] = mauth[n]
      /\ maddress' = maddress /\ member_audit' = member_audit
  BY <1>1 DEF TypeOK, UpdateMember
<1> HIDE DEF e, u
<1>4. e \notin {None, Deleted} /\ u # None
  BY <1>1, KeysAssumption DEF Marks
<1>5. \A n \in Mids : Present(n)' <=> Present(n)
  BY <1>1, <1>3, <1>4 DEF Present
<1>6. MembersAreWhole'
  BY <1>3, <1>4, <1>5 DEF MembersAreWhole, Present
<1>7. KeysAreUnique'
  BY <1>1, <1>3, <1>5 DEF KeysAreUnique
<1>8. NothingIsOrphaned'
  BY <1>3, <1>5 DEF NothingIsOrphaned, TypeOK
<1>9. InsertsAreFresh'
  <2>1. ASSUME NEW d \in Conns \ {c}, At(d, "add", "member")
        PROVE  tx[d].mid # m /\ tx[d].emp # e /\ tx[d].mid \in Mids
    BY <1>1, <2>1, CallKinds DEF InsertsAreFresh, AddTx, Present
  <2>2. QED
    BY <1>2, <1>3, <2>1 DEF InsertsAreFresh, Idle
<1>10. LocksAreExclusive'
  BY <1>2, <1>5 DEF LocksAreExclusive, LocksMember, LocksMauth, Idle
<1>11. UsernamesAreEnteredOnce'
  BY <1>1, <1>2, <1>3 DEF UsernamesAreEnteredOnce, HasEntered, UsernameTaken, Idle
<1>12. KeysToEnter'
  BY <1>2 DEF KeysToEnter, Idle
<1>13. QED
  BY <1>6, <1>7, <1>8, <1>9, <1>10, <1>11, <1>12

\* A delete takes the rows of a member that no other call holds.
LEMMA CascadeInv ==
    ASSUME TypeOK, IInv, NEW c \in Conns, Cascade(c)
    PROVE  IInv'
<1> DEFINE m == tx[c].mid
<1> USE DEF IInv
<1>1. /\ m \in Mids /\ LocksMember(c, m)
      /\ \A d \in Conns \ {c} : ~LocksMauth(d, m)
  BY CallKinds DEF Cascade, LocksMember, DeleteTx, Runs, WaitsFor
<1>2. tx'[c] = Idle /\ \A d \in Conns \ {c} : tx'[d] = tx[d]
  BY DEF TypeOK, Cascade, Commit
<1>3. /\ member'[m] = Deleted /\ mauth'[m] = None
      /\ \A n \in Mids \ {m} : member'[n] = member[n] /\ mauth'[n] = mauth[n]
      /\ maddress' = {a \in maddress : a[1] # m}
      /\ member_audit' = member_audit \ {m}
  BY <1>1 DEF TypeOK, Cascade
<1>4. Present(m) /\ \A d \in Conns \ {c} : ~LocksMember(d, m)
  BY <1>1 DEF LocksAreExclusive
<1>5. MembersAreWhole'
  BY <1>3 DEF MembersAreWhole, Present
<1>6. KeysAreUnique'
  BY <1>3 DEF KeysAreUnique, Present
<1>7. NothingIsOrphaned'
  BY <1>3 DEF NothingIsOrphaned, Present, TypeOK
<1>8. InsertsAreFresh'
  <2>1. ASSUME NEW d \in Conns \ {c}, At(d, "add", "member")
        PROVE  tx[d].mid # m /\ tx[d].emp \in Emps /\ tx[d].mid \in Mids
    BY <1>4, <2>1, CallKinds DEF InsertsAreFresh, AddTx, Present
  <2>2. QED
    BY <1>2, <1>3, <2>1, KeysAssumption DEF InsertsAreFresh, Idle, Marks
<1>9. LocksAreExclusive'
  BY <1>1, <1>2, <1>3, <1>4
     DEF LocksAreExclusive, LocksMember, LocksMauth, Present, Idle
<1>10. UsernamesAreEnteredOnce'
  BY <1>2, <1>3, KeysAssumption
     DEF UsernamesAreEnteredOnce, HasEntered, UsernameTaken, Idle, Marks
<1>11. KeysToEnter'
  BY <1>2 DEF KeysToEnter, Idle
<1>12. QED
  BY <1>5, <1>6, <1>7, <1>8, <1>9, <1>10, <1>11

LEMMA WriteVisitInv ==
    ASSUME TypeOK, IInv, NEW c \in Conns, WriteVisit(c)
    PROVE  IInv'
<1> USE DEF IInv
<1>1. tx'[c] = Idle /\ \A d \in Conns \ {c} : tx'[d] = tx[d]
  BY DEF TypeOK, WriteVisit, Commit
<1>2. /\ member' = member /\ mauth' = mauth /\ maddress' = maddress
      /\ member_audit' = member_audit \cup {tx[c].mid} /\ Present(tx[c].mid)
  BY DEF WriteVisit
<1>3. MembersAreWhole' /\ KeysAreUnique' /\ NothingIsOrphaned'
  BY <1>2 DEF MembersAreWhole, KeysAreUnique, NothingIsOrphaned, Present
<1>4. InsertsAreFresh' /\ KeysToEnter'
  BY <1>1, <1>2 DEF InsertsAreFresh, KeysToEnter, Idle
<1>5. LocksAreExclusive'
  BY <1>1, <1>2 DEF LocksAreExclusive, LocksMember, LocksMauth, Present, Idle
<1>6. UsernamesAreEnteredOnce'
  BY <1>1, <1>2 DEF UsernamesAreEnteredOnce, HasEntered, UsernameTaken, Idle
<1>7. QED
  BY <1>3, <1>4, <1>5, <1>6

LEMMA AddressInv ==
    ASSUME TypeOK, IInv, NEW m \in Mids, NEW name \in AddressNames,
           AddMemberAddress(m, name) \/ DeleteMemberAddress(m, name)
    PROVE  IInv'
<1> USE DEF IInv
<1>1. /\ member' = member /\ mauth' = mauth /\ tx' = tx
      /\ member_audit' = member_audit
      /\ \A a \in maddress' : a \in maddress \/ (a = <<m, name>> /\ Present(m))
  BY DEF AddMemberAddress, DeleteMemberAddress
<1>2. MembersAreWhole' /\ KeysAreUnique' /\ NothingIsOrphaned'
  BY <1>1 DEF MembersAreWhole, KeysAreUnique, NothingIsOrphaned, Present
<1>3. InsertsAreFresh' /\ KeysToEnter'
  BY <1>1 DEF InsertsAreFresh, KeysToEnter
<1>4. LocksAreExclusive'
  BY <1>1 DEF LocksAreExclusive, LocksMember, LocksMauth, Present
<1>5. UsernamesAreEnteredOnce'
  BY <1>1 DEF UsernamesAreEnteredOnce, HasEntered, UsernameTaken
<1>6. QED
  BY <1>2, <1>3, <1>4, <1>5

LEMMA NextInv ==
    ASSUME TypeOK, IInv, [Next]_vars
    PROVE  IInv'
<1>1. ASSUME NEW c \in Conns, Advance(c) PROVE IInv'
  <2>1. ASSUME NEW m \in Mids, LookUpLogin(c, m) PROVE IInv'
    <3>1. Quiet([op |-> "visit", mid |-> m])
      BY DEF Quiet
    <3>2. QED
      BY <2>1, <3>1, QuietInv DEF LookUpLogin
  <2>2. CASE Commits(c)
    BY <2>2, InsertMauthInv, UpdateMemberInv, CascadeInv, WriteVisitInv
       DEF Commits
  <2>3. QED
    BY <1>1, <2>1, <2>2, AdvanceKinds, TakesInv, FailsRollBack, RollbackInv
<1>2. CASE UNCHANGED vars
  BY <1>2 DEF vars, IInv, MembersAreWhole, KeysAreUnique, NothingIsOrphaned,
     InsertsAreFresh, LocksAreExclusive, UsernamesAreEnteredOnce, KeysToEnter,
     Present, LocksMember, LocksMauth, HasEntered, UsernameTaken
<1>3. QED
  BY <1>1, <1>2, BeginInv, AddressInv DEF Next

\* The tables and the calls in progress keep their types, and the invariant
\* holds, whatever the interleaving of the calls.
THEOREM TypeCorrect == Spec => []TypeOK
<1>1. IInv => KeysToEnter
  BY DEF IInv
<1>2. QED
  BY <1>1, InitType, NextType, InitInv, NextInv, PTL DEF Spec

THEOREM Invariant == Spec => []IInv
<1>1. IInv => KeysToEnter
  BY DEF IInv
<1>2. QED
  BY <1>1, InitType, NextType, InitInv, NextInv, PTL DEF Spec

(***************************************************************************)
(* How calls hold one another up.                                          *)
(***************************************************************************)

\* A call that others wait for: it holds a row or a key.
Holds(c) ==
    \/ At(c, "add", "member")
    \/ At(c, "delete", "member")
    \/ tx[c].op = "update"

LEMMA WaitedForHolds ==
    ASSUME NEW c \in Conns, NEW d \in Conns, WaitsFor(c, d)
    PROVE  Holds(d)
BY DEF WaitsFor, ClaimsEmp, ClaimsUsername, HasEntered, LocksMember,
       LocksMauth, Holds

\* An insert and a delete that hold something want only the mauth row or the
\* username, which an update with something to set there has.
LEMMA HoldersWaitForUpdates ==
    ASSUME TypeOK, NEW c \in Conns, NEW d \in Conns, WaitsFor(c, d),
           Holds(c), tx[c].op # "update"
    PROVE  tx[d].op = "update" /\ tx[d].username # Null
<1>1. CASE At(c, "add", "member")
  <2>1. tx[c].username \in Usernames
    BY <1>1, CallKinds DEF AddTx
  <2>2. ClaimsUsername(d, tx[c].username)
    BY <1>1 DEF WaitsFor
  <2>3. QED
    BY <2>1, <2>2, KeysAssumption
       DEF ClaimsUsername, HasEntered, LocksMauth, Marks
<1>2. CASE At(c, "delete", "member")
  BY <1>2 DEF WaitsFor, LocksMauth
<1>3. QED
  BY <1>1, <1>2 DEF Holds

\* An update waits for a call that is not one only for the member row or the
\* employee key, with something to set in member.
LEMMA UpdateWaitsForOthers ==
    ASSUME IInv, NEW c \in Conns, NEW d \in Conns, WaitsFor(c, d),
           tx[c].op = "update", tx[d].op # "update"
    PROVE  tx[c].emp # Null
<1>1. \/ At(c, "update", "mauth") /\ tx[c].emp # Null
      \/ At(c, "update", "memberRow")
  BY DEF WaitsFor, LocksMauth, ClaimsUsername, HasEntered
<1>2. At(c, "update", "memberRow") => tx[c].emp \in Emps
  BY DEF IInv, KeysToEnter
<1>3. QED
  BY <1>1, <1>2, KeysAssumption DEF Marks

LEMMA StallsHaveAnUpdate ==
    ASSUME TypeOK, IInv
    PROVE  StallsNeedAnUpdate
<1> SUFFICES ASSUME NEW S \in SUBSET Conns, S # {}, Stalled(S)
             PROVE  \E c \in S :
                       /\ tx[c].op = "update"
                       /\ \/ \E d \in S \ {c} : tx[d].op = "update"
                          \/ tx[c].username # Null /\ tx[c].emp # Null
  BY DEF StallsNeedAnUpdate
<1>1. \A c \in S : \E d \in S : WaitsFor(c, d) /\ Holds(d)
  BY WaitedForHolds DEF Stalled
<1>2. \A c \in S : Holds(c) => \/ tx[c].op = "update"
                               \/ \E d \in S : /\ WaitsFor(c, d)
                                               /\ tx[d].op = "update"
                                               /\ tx[d].username # Null
  BY <1>1, HoldersWaitForUpdates
<1>3. PICK x \in S : tx[x].op = "update"
  BY <1>1, <1>2
<1>4. CASE \E d \in S \ {x} : tx[d].op = "update"
  BY <1>3, <1>4
<1>5. CASE \A d \in S \ {x} : tx[d].op # "update"
  <2>1. PICK d \in S : WaitsFor(x, d) /\ Holds(d)
    BY <1>1
  <2>2. d # x /\ tx[d].op # "update"
    BY <1>5, <2>1 DEF WaitsFor
  <2>3. tx[x].username # Null
    BY <1>2, <1>5, <2>1, <2>2
  <2>4. tx[x].emp # Null
    BY <1>3, <2>1, <2>2, UpdateWaitsForOthers
  <2>5. QED
    BY <1>3, <2>3, <2>4
<1>6. QED
  BY <1>4, <1>5

\* Calls hold one another up only through updateMember, and through one alone
\* only if it sets something in both tables: inserts, deletes, logins and
\* logouts never do, however many run at once.
THEOREM StallsThroughUpdates == Spec => []StallsNeedAnUpdate
BY TypeCorrect, Invariant, StallsHaveAnUpdate, PTL

\* Among naturals there is a least one.
LEMMA LeastOf ==
    ASSUME NEW T, T \subseteq Nat, T # {}
    PROVE  \E m \in T : \A n \in T : m <= n
<1>1. PICK R : IsWellFoundedOn(R, Nat) /\ R = OpToRel(<, Nat)
  BY NatLessThanWellFounded
<1>2. \A x, y \in Nat : y < x => <<y, x>> \in R
  BY <1>1 DEF OpToRel
<1>3. PICK m \in T : \A n \in T : ~ (<<n, m>> \in R)
  BY <1>1, WFMin, Zenon
<1>4. ASSUME NEW n \in T PROVE m <= n
  <2>1. m \in Nat /\ n \in Nat
    OBVIOUS
  <2>2. ~(n < m)
    BY <1>2, <1>3, <2>1
  <2>3. QED
    BY <2>1, <2>2
<1>5. QED
  BY <1>4, Zenon

\* Calls that hold one another up wait in a ring, or some of them do: the least
\* set of them that hold one another up.  So the server, which breaks rings
\* only (DeadlockVictim), leaves no calls waiting for one another.
THEOREM StallsAreBroken ==
    ASSUME IsFiniteSet(Conns), NEW S \in SUBSET Conns, S # {}, Stalled(S)
    PROVE  \E R \in SUBSET S : R # {} /\ Ring(R)
<1> DEFINE Q == {T \in SUBSET S : T # {} /\ Stalled(T)}
           sizes == {Cardinality(T) : T \in Q}
<1>1. \A T \in SUBSET S : IsFiniteSet(T) /\ Cardinality(T) \in Nat
  BY FS_Subset, FS_CardinalityType
<1>2. sizes \subseteq Nat /\ sizes # {}
  BY <1>1
<1>3. PICK least \in sizes : \A n \in sizes : least <= n
  <2> HIDE DEF sizes
  <2>1. QED
    BY <1>2, LeastOf
<1>4. PICK R \in Q : Cardinality(R) = least
  BY <1>3
<1>5. ASSUME NEW d \in R, \A c \in R : ~WaitsFor(c, d) PROVE FALSE
  <2>1. PICK e \in R : WaitsFor(d, e)
    BY <1>4 DEF Stalled
  <2>2. e # d
    BY <2>1 DEF WaitsFor
  <2>3. R \ {d} \in Q
    BY <1>4, <1>5, <2>2 DEF Stalled
  <2>4. Cardinality(R \ {d}) = Cardinality(R) - 1
    BY <1>1, <1>4, FS_RemoveElement
  <2>5. Cardinality(R) <= Cardinality(R \ {d})
    BY <1>3, <1>4, <2>3
  <2>6. QED
    BY <1>1, <1>4, <2>4, <2>5
<1>6. Ring(R)
  BY <1>4, <1>5 DEF Ring, Stalled
<1>7. QED
  BY <1>4, <1>6

(***************************************************************************)
(* MemberDb implements MemberRegistry.                                     *)
(***************************************************************************)

RegistryMembers == [m \in Mids |-> [emp |-> member[m], username |-> mauth[m]]]

LEMMA InitRegistry == Init => Registry!RegistryInit
BY DEF Init, Registry!RegistryInit, Registry!Keys, None

\* Nothing that the registry shows has changed.
LEMMA RegistryStutters ==
    ASSUME UNCHANGED rows
    PROVE  UNCHANGED Registry!registryVars
BY DEF Registry!registryVars

\* One member's keys have changed.
LEMMA RegistryChanges ==
    ASSUME TypeOK, NEW m \in Mids, NEW e, NEW u,
           member' = [member EXCEPT ![m] = e], mauth' = [mauth EXCEPT ![m] = u]
    PROVE  RegistryMembers' =
              [RegistryMembers EXCEPT ![m] = [emp |-> e, username |-> u]]
BY DEF TypeOK, RegistryMembers

LEMMA NextRegistry ==
    ASSUME TypeOK, IInv, [Next]_vars
    PROVE  [Registry!RegistryNext]_(Registry!registryVars)
<1> USE DEF None, Deleted
<1>1. \A m \in Mids : Registry!Present(m) <=> Present(m)
  BY DEF Registry!Present, Present
<1>2. ASSUME NEW c \in Conns, InsertMauth(c) PROVE Registry!RegistryNext
  <2> DEFINE id == tx[c].mid
  <2>1. id \in Mids /\ tx[c].emp \in Emps /\ tx[c].username \in Usernames
    BY <1>2, CallKinds DEF InsertMauth, AddTx
  <2>2. member[id] = None /\ \A n \in Mids : member[n] # tx[c].emp
    BY <1>2 DEF IInv, InsertsAreFresh, InsertMauth
  <2>3. Registry!FreeFor(id, tx[c].emp, tx[c].username)
    BY <1>2, <2>1, <2>2
       DEF Registry!FreeFor, InsertMauth, UsernameTaken
  <2>4. Registry!Add(id, tx[c].emp, tx[c].username)
    BY <1>2, <2>1, <2>2, <2>3, RegistryChanges
       DEF Registry!Add, Registry!Keys, InsertMauth, RegistryMembers
  <2>5. QED
    BY <2>1, <2>4 DEF Registry!RegistryNext, Registry!Add
<1>3. ASSUME NEW c \in Conns, UpdateMember(c) PROVE Registry!RegistryNext
  <2> DEFINE id == tx[c].mid
             key == Set(tx[c].emp, member[id])
             name == Set(tx[c].username, mauth[id])
  <2>1. /\ id \in Mids /\ Present(id) /\ key \in Emps /\ name \in Usernames
        /\ \A n \in Mids \ {id} : member[n] # key /\ mauth[n] # name
    BY <1>3, UpdatedKeys
  <2>2. /\ member' = [member EXCEPT ![id] = key] /\ mauth' = [mauth EXCEPT ![id] = name]
        /\ UNCHANGED <<maddress, member_audit>>
    BY <1>3 DEF UpdateMember
  <2> HIDE DEF key, name
  <2>3. Registry!FreeFor(id, key, name)
    BY <2>1 DEF Registry!FreeFor
  <2>4. Registry!Update(id, key, name)
    BY <1>1, <2>1, <2>2, <2>3, RegistryChanges
       DEF Registry!Update, Registry!Keys, RegistryMembers
  <2>5. QED
    BY <2>1, <2>4 DEF Registry!RegistryNext, Registry!Update
<1>4. ASSUME NEW c \in Conns, Cascade(c) PROVE Registry!RegistryNext
  <2> DEFINE id == tx[c].mid
  <2>1. id \in Mids /\ Present(id)
    BY <1>4, CallKinds DEF IInv, LocksAreExclusive, Cascade, LocksMember, DeleteTx
  <2>2. Registry!Delete(id)
    BY <1>1, <1>4, <2>1, RegistryChanges
       DEF Registry!Delete, Registry!Keys, Cascade, RegistryMembers
  <2>3. QED
    BY <2>1, <2>2 DEF Registry!RegistryNext, Registry!Delete
<1>5. ASSUME NEW c \in Conns, WriteVisit(c) PROVE Registry!RegistryNext
  <2>1. tx[c].mid \in Mids
    BY <1>5, CallKinds DEF WriteVisit, VisitTx
  <2>2. Registry!Visit(tx[c].mid)
    BY <1>1, <1>5, <2>1 DEF Registry!Visit, WriteVisit
  <2>3. QED
    BY <2>1, <2>2 DEF Registry!RegistryNext
<1>6. ASSUME NEW m \in Mids, NEW name \in AddressNames,
             AddMemberAddress(m, name) \/ DeleteMemberAddress(m, name)
      PROVE  Registry!RegistryNext
  <2>1. Registry!AddAddress(m, name) \/ Registry!RemoveAddress(m, name)
    BY <1>1, <1>6 DEF Registry!AddAddress, Registry!RemoveAddress,
       AddMemberAddress, DeleteMemberAddress
  <2>2. QED
    BY <2>1 DEF Registry!RegistryNext
<1>7. ASSUME NEW c \in Conns, Call(c) PROVE UNCHANGED rows
  BY <1>7 DEF Call, BeginAdd, BeginUpdate, BeginDelete, BeginLogin,
     BeginLogout, Begin
<1>8. ASSUME NEW c \in Conns, Takes(c) PROVE UNCHANGED rows
  BY <1>8 DEF Takes, InsertMember, UpdateMauth, EnterUsername, ChangeEmp,
     DeleteMember, Proceed
<1>9. ASSUME NEW c \in Conns, Advance(c), ~Commits(c) PROVE UNCHANGED rows
  BY <1>8, <1>9, AdvanceKinds, FailsRollBack DEF LookUpLogin, Proceed, Rollback
<1>10. ASSUME NEW c \in Conns, Commits(c) PROVE Registry!RegistryNext
  BY <1>2, <1>3, <1>4, <1>5, <1>10 DEF Commits
<1>11. UNCHANGED vars => UNCHANGED rows
  BY DEF vars
<1>12. QED
  BY <1>6, <1>7, <1>9, <1>10, <1>11, RegistryStutters DEF Next

\* MemberDb implements MemberRegistry (RegistryHolds): whatever a step of a
\* call shows the others is one operation on one whole member.
THEOREM Implements == Spec => RegistryHolds
<1>1. IInv => KeysToEnter
  BY DEF IInv
<1>2. QED
  BY <1>1, InitType, NextType, InitInv, NextInv, InitRegistry, NextRegistry, PTL
     DEF Spec, RegistryHolds, Registry!RegistrySpec
=============================================================================
