------------------------------ MODULE MemberDb ------------------------------
(***************************************************************************)
(* The member, mauth, maddress and member_audit tables and the calls       *)
(* MCorpusRepo makes on them.  addMember and updateMember each run two     *)
(* statements in one transaction, a delete cascades, and a login or logout *)
(* is a function of several statements.  All run under READ COMMITTED: a   *)
(* statement sees what is committed, waits for a row or a unique key that  *)
(* a transaction in progress holds, and what a transaction wrote shows     *)
(* when it commits.                                                        *)
(*                                                                         *)
(* A transaction's last statement and its commit are one action here:      *)
(* once it has its last lock nothing more can hold it up, and until it     *)
(* commits the others see what they saw before.                            *)
(***************************************************************************)
EXTENDS Naturals, FiniteSets

CONSTANTS
    Mids,           \* member ids, drawn at random by the insert
    Emps,           \* the (emp_id, location) pairs: one unique key
    Usernames,      \* usernames: another
    AddressNames,   \* names of addresses
    Conns           \* pooled database connections

\* None marks no row; Null, nothing to set in the table; Keep, something to
\* set there but not the unique key.
None == "NONE"
Deleted == "DELETED"
Null == "NULL"
Keep == "KEEP"
Marks == {None, Deleted, Null, Keep}

ASSUME KeysAssumption == (Emps \cup Usernames) \cap Marks = {}

VARIABLES
    member,         \* member[m]: no row yet, gone, or its employee key
    mauth,          \* mauth[m]: no row, or its username
    maddress,       \* pairs of a member id and an address name
    member_audit,   \* the member ids that have LOGIN or LOGOUT rows
    tx              \* tx[c]: the call in progress on connection c

vars == <<member, mauth, maddress, member_audit, tx>>

-----------------------------------------------------------------------------
(* Calls in progress.                                                      *)

Idle == [op |-> "idle"]

AddTx ==
    [op : {"add"}, pc : {"begun"}, emp : Emps, username : Usernames]
    \cup [op : {"add"}, pc : {"member"}, mid : Mids,
          emp : Emps, username : Usernames]

\* An update has a row when its statement has changed the row and is yet to
\* enter the new key in the index.
UpdateTx ==
    [op : {"update"}, pc : {"begun", "mauthRow", "mauth", "memberRow"},
     mid : Mids, emp : Emps \cup {Keep, Null},
     username : Usernames \cup {Keep, Null}]

DeleteTx == [op : {"delete"}, pc : {"begun", "member"}, mid : Mids]

LoginTx == [op : {"login"}, pc : {"passed"}, username : Usernames]

\* A login or logout that has the member id and is to write its audit row.
VisitTx == [op : {"visit"}, mid : Mids]

Present(m) == member[m] \notin {None, Deleted}

-----------------------------------------------------------------------------
(* What calls in progress hold, and who waits for it.                      *)

At(c, op, pc) == tx[c].op = op /\ tx[c].pc = pc

\* The member row is held by a delete that is yet to cascade and by an update
\* of its key.
LocksMember(c, m) ==
    /\ At(c, "delete", "member") \/ At(c, "update", "memberRow")
    /\ tx[c].mid = m

\* Mutant: every updateMember touches the mauth row.
LocksMauth_Always(c, m) ==
    /\ tx[c].op = "update"
    /\ tx[c].pc # "begun"
    /\ tx[c].mid = m

\* The mauth row is held by an updateMember that has changed it; one with
\* nothing to set in mauth has only read it.
LocksMauth(c, m) ==
    /\ tx[c].op = "update"
    /\ tx[c].pc # "begun"
    /\ tx[c].mid = m
    /\ tx[c].username # Null

\* An employee key is in doubt while an insert has used it, and while the row
\* that has it is held.
ClaimsEmp(c, emp) ==
    \/ At(c, "add", "member") /\ tx[c].emp = emp
    \/ \E m \in Mids : LocksMember(c, m) /\ member[m] = emp

\* An updateMember has put its new username, if any, in the unique index.
HasEntered(c, username) ==
    /\ tx[c].op = "update"
    /\ tx[c].pc \in {"mauth", "memberRow"}
    /\ tx[c].username = username

\* A username is in doubt when a call has entered it or holds the row it is in.
ClaimsUsername(c, username) ==
    \/ HasEntered(c, username)
    \/ \E m \in Mids : LocksMauth(c, m) /\ mauth[m] = username

\* c's next statement finds what it needs held by d, and waits for d to end.
WaitsFor(c, d) ==
    /\ c # d
    /\ \/ At(c, "add", "begun") /\ ClaimsEmp(d, tx[c].emp)
       \/ At(c, "add", "member") /\ ClaimsUsername(d, tx[c].username)
       \/ /\ At(c, "update", "begun") /\ tx[c].username # Null
          /\ LocksMauth(d, tx[c].mid)
       \/ At(c, "update", "mauthRow") /\ ClaimsUsername(d, tx[c].username)
       \/ /\ At(c, "update", "mauth") /\ tx[c].emp # Null
          /\ LocksMember(d, tx[c].mid)
       \/ At(c, "update", "memberRow") /\ ClaimsEmp(d, tx[c].emp)
       \/ At(c, "delete", "begun") /\ LocksMember(d, tx[c].mid)
       \/ At(c, "delete", "member") /\ LocksMauth(d, tx[c].mid)
       \/ tx[c].op = "visit" /\ LocksMember(d, tx[c].mid)

Runs(c) == \A d \in Conns : ~WaitsFor(c, d)

\* The calls of S wait for one another in a ring.
Ring(S) ==
    \A c \in S : (\E d \in S : WaitsFor(c, d)) /\ (\E d \in S : WaitsFor(d, c))

EmpTaken(m, emp) == \E n \in Mids \ {m} : member[n] = emp
UsernameTaken(m, username) == \E n \in Mids \ {m} : mauth[n] = username

\* Mutant: a field the update does not name is set all the same.
Set_Unnamed(new, old) == new

\* The value a column has after an update: its own when the update sets none.
Set(new, old) == IF new \in {Keep, Null} THEN old ELSE new

-----------------------------------------------------------------------------
Init ==
    /\ member = [m \in Mids |-> None]
    /\ mauth = [m \in Mids |-> None]
    /\ maddress = {}
    /\ member_audit = {}
    /\ tx = [c \in Conns |-> Idle]

rows == <<member, mauth, maddress, member_audit>>

Begin(c, call) ==
    /\ tx[c] = Idle
    /\ tx' = [tx EXCEPT ![c] = call]
    /\ UNCHANGED rows

Proceed(c, call) ==
    /\ tx' = [tx EXCEPT ![c] = call]
    /\ UNCHANGED rows

Rollback(c) ==
    /\ tx' = [tx EXCEPT ![c] = Idle]
    /\ UNCHANGED rows

Commit(c) == tx' = [tx EXCEPT ![c] = Idle]

-----------------------------------------------------------------------------
(* addMember: insert_member inserts into member, then into mauth.          *)

\* There are ids for as many adds: the bound that Mids is.
SpareIds ==
    Cardinality({d \in Conns : tx[d].op = "add"})
        < Cardinality({m \in Mids : member[m] = None})

BeginAdd(c, emp, username) ==
    /\ SpareIds
    /\ Begin(c, [op |-> "add", pc |-> "begun",
                 emp |-> emp, username |-> username])

\* A random id no other insert has drawn.
Drawable(m) ==
    /\ member[m] = None
    /\ \A d \in Conns : At(d, "add", "member") => tx[d].mid # m

\* The call of c once it has inserted member m.
Inserted(c, m) ==
    [op |-> "add", pc |-> "member", mid |-> m,
     emp |-> tx[c].emp, username |-> tx[c].username]

\* Mutant: the member row is committed by itself.
InsertMember_Autocommit(c, m) ==
    /\ At(c, "add", "begun") /\ Runs(c)
    /\ Drawable(m)
    /\ ~EmpTaken(m, tx[c].emp)
    /\ member' = [member EXCEPT ![m] = tx[c].emp]
    /\ tx' = [tx EXCEPT ![c] = Inserted(c, m)]
    /\ UNCHANGED <<mauth, maddress, member_audit>>

InsertMember(c, m) ==
    /\ At(c, "add", "begun") /\ Runs(c)
    /\ Drawable(m)
    /\ ~EmpTaken(m, tx[c].emp)
    /\ Proceed(c, Inserted(c, m))

InsertMember_Duplicate(c) ==
    /\ At(c, "add", "begun") /\ Runs(c)
    /\ \E m \in Mids : member[m] = tx[c].emp
    /\ Rollback(c)

InsertMauth(c) ==
    /\ At(c, "add", "member") /\ Runs(c)
    /\ ~UsernameTaken(tx[c].mid, tx[c].username)
    /\ member' = [member EXCEPT ![tx[c].mid] = tx[c].emp]
    /\ mauth' = [mauth EXCEPT ![tx[c].mid] = tx[c].username]
    /\ Commit(c)
    /\ UNCHANGED <<maddress, member_audit>>

InsertMauth_Duplicate(c) ==
    /\ At(c, "add", "member") /\ Runs(c)
    /\ UsernameTaken(tx[c].mid, tx[c].username)
    /\ Rollback(c)

-----------------------------------------------------------------------------
(* updateMember: mauth first, then member.  The validator lets through     *)
(* only an update with something to set in one of them.                    *)

BeginUpdate(c, m, emp, username) ==
    /\ member[m] # None
    /\ <<emp, username>> # <<Null, Null>>
    /\ Begin(c, [op |-> "update", pc |-> "begun", mid |-> m,
                 emp |-> emp, username |-> username])

\* Without a new username the statement is done; with nothing to set at all
\* it is a select, which waits for nobody.
UpdateMauth(c) ==
    LET m == tx[c].mid IN
    /\ At(c, "update", "begun") /\ Runs(c)
    /\ mauth[m] # None
    /\ Proceed(c, [tx[c] EXCEPT !.pc =
           IF Set(tx[c].username, mauth[m]) = mauth[m] THEN "mauth"
           ELSE "mauthRow"])

\* The new username goes into the unique index.
EnterUsername(c) ==
    /\ At(c, "update", "mauthRow") /\ Runs(c)
    /\ ~UsernameTaken(tx[c].mid, tx[c].username)
    /\ Proceed(c, [tx[c] EXCEPT !.pc = "mauth"])

\* No row came back, or the username is another member's.
UpdateMauth_Fails(c) ==
    /\ \/ At(c, "update", "begun") /\ mauth[tx[c].mid] = None
       \/ /\ At(c, "update", "mauthRow") /\ Runs(c)
          /\ UsernameTaken(tx[c].mid, tx[c].username)
    /\ Rollback(c)

\* The member row is changed, its new key not yet in the index.
ChangeEmp(c) ==
    LET m == tx[c].mid IN
    /\ At(c, "update", "mauth") /\ Runs(c)
    /\ tx[c].emp # Null
    /\ Present(m)
    /\ Set(tx[c].emp, member[m]) # member[m]
    /\ Proceed(c, [tx[c] EXCEPT !.pc = "memberRow"])

UpdateMember(c) ==
    LET m == tx[c].mid IN
    /\ Runs(c)
    /\ \/ /\ At(c, "update", "mauth")
          /\ tx[c].emp # Null
          /\ Present(m)
          /\ Set(tx[c].emp, member[m]) = member[m]
       \/ At(c, "update", "memberRow") /\ ~EmpTaken(m, tx[c].emp)
    /\ member' = [member EXCEPT ![m] = Set(tx[c].emp, @)]
    /\ mauth' = [mauth EXCEPT ![m] = Set(tx[c].username, @)]
    /\ Commit(c)
    /\ UNCHANGED <<maddress, member_audit>>

\* Mutant: an update with nothing to set in member leaves its transaction open.
UpdateMember_Fails_LeftOpen(c) ==
    /\ \/ /\ At(c, "update", "mauth")
          /\ tx[c].emp # Null /\ ~Present(tx[c].mid)
       \/ /\ At(c, "update", "memberRow") /\ Runs(c)
          /\ EmpTaken(tx[c].mid, tx[c].emp)
    /\ Rollback(c)

\* The key is another member's, or no row came back: the member is gone, or
\* jOOQ was given nothing to set and sent no statement.
UpdateMember_Fails(c) ==
    /\ \/ /\ At(c, "update", "mauth")
          /\ tx[c].emp = Null \/ ~Present(tx[c].mid)
       \/ /\ At(c, "update", "memberRow") /\ Runs(c)
          /\ EmpTaken(tx[c].mid, tx[c].emp)
    /\ Rollback(c)

-----------------------------------------------------------------------------
(* deleteMember: one statement, which takes the member row and cascades.   *)

BeginDelete(c, m) ==
    /\ member[m] # None
    /\ Begin(c, [op |-> "delete", pc |-> "begun", mid |-> m])

DeleteMember(c) ==
    /\ At(c, "delete", "begun") /\ Runs(c)
    /\ Present(tx[c].mid)
    /\ Proceed(c, [tx[c] EXCEPT !.pc = "member"])

\* No row was deleted.
DeleteMember_Fails(c) ==
    /\ At(c, "delete", "begun") /\ Runs(c)
    /\ ~Present(tx[c].mid)
    /\ Rollback(c)

\* Mutant: member_audit's foreign key does not cascade.
Cascade_KeepsVisits(c) ==
    LET m == tx[c].mid IN
    /\ At(c, "delete", "member") /\ Runs(c)
    /\ member' = [member EXCEPT ![m] = Deleted]
    /\ mauth' = [mauth EXCEPT ![m] = None]
    /\ maddress' = {a \in maddress : a[1] # m}
    /\ Commit(c)
    /\ UNCHANGED member_audit

Cascade(c) ==
    LET m == tx[c].mid IN
    /\ At(c, "delete", "member") /\ Runs(c)
    /\ member' = [member EXCEPT ![m] = Deleted]
    /\ mauth' = [mauth EXCEPT ![m] = None]
    /\ maddress' = {a \in maddress : a[1] # m}
    /\ member_audit' = member_audit \ {m}
    /\ Commit(c)

-----------------------------------------------------------------------------
(* member_login and member_logout, and the addresses.                      *)

\* The password matched that of the row with this username.
BeginLogin(c, username) ==
    /\ \E m \in Mids : mauth[m] = username
    /\ Begin(c, [op |-> "login", pc |-> "passed", username |-> username])

\* The row is looked up once more, by username.
LookUpLogin(c, m) ==
    /\ At(c, "login", "passed")
    /\ mauth[m] = tx[c].username
    /\ Proceed(c, [op |-> "visit", mid |-> m])

\* There is none by now, and mid may not be null in member_audit.
LookUpLogin_Fails(c) ==
    /\ At(c, "login", "passed")
    /\ \A m \in Mids : mauth[m] # tx[c].username
    /\ Rollback(c)

BeginLogout(c, m) ==
    /\ Present(m)
    /\ Begin(c, [op |-> "visit", mid |-> m])

WriteVisit(c) ==
    /\ tx[c].op = "visit" /\ Runs(c)
    /\ Present(tx[c].mid)
    /\ member_audit' = member_audit \cup {tx[c].mid}
    /\ Commit(c)
    /\ UNCHANGED <<member, mauth, maddress>>

\* The foreign key of member_audit.
WriteVisit_Fails(c) ==
    /\ tx[c].op = "visit" /\ Runs(c)
    /\ ~Present(tx[c].mid)
    /\ Rollback(c)

\* addMemberAddress and deleteMemberAddress are one statement each; the
\* foreign key makes the insert wait for a delete of the member.
AddMemberAddress(m, name) ==
    /\ Present(m)
    /\ \A c \in Conns : ~LocksMember(c, m)
    /\ <<m, name>> \notin maddress
    /\ maddress' = maddress \cup {<<m, name>>}
    /\ UNCHANGED <<member, mauth, member_audit, tx>>

DeleteMemberAddress(m, name) ==
    /\ <<m, name>> \in maddress
    /\ maddress' = maddress \ {<<m, name>>}
    /\ UNCHANGED <<member, mauth, member_audit, tx>>

-----------------------------------------------------------------------------
\* PostgreSQL ends a ring of waiting calls by failing one of them.
DeadlockVictim(c) ==
    /\ \E S \in SUBSET Conns : c \in S /\ Ring(S)
    /\ Rollback(c)

\* The next thing the call on c does.
Advance(c) ==
    \/ \E m \in Mids : InsertMember(c, m)
    \/ InsertMember_Duplicate(c)
    \/ InsertMauth(c)
    \/ InsertMauth_Duplicate(c)
    \/ UpdateMauth(c)
    \/ EnterUsername(c)
    \/ UpdateMauth_Fails(c)
    \/ ChangeEmp(c)
    \/ UpdateMember(c)
    \/ UpdateMember_Fails(c)
    \/ DeleteMember(c)
    \/ DeleteMember_Fails(c)
    \/ Cascade(c)
    \/ \E m \in Mids : LookUpLogin(c, m)
    \/ LookUpLogin_Fails(c)
    \/ WriteVisit(c)
    \/ WriteVisit_Fails(c)
    \/ DeadlockVictim(c)

Call(c) ==
    \/ \E e \in Emps, u \in Usernames : BeginAdd(c, e, u)
    \/ \E m \in Mids, e \in Emps \cup {Keep, Null},
          u \in Usernames \cup {Keep, Null} : BeginUpdate(c, m, e, u)
    \/ \E m \in Mids : BeginDelete(c, m) \/ BeginLogout(c, m)
    \/ \E u \in Usernames : BeginLogin(c, u)

Next ==
    \/ \E c \in Conns : Call(c) \/ Advance(c)
    \/ \E m \in Mids, name \in AddressNames :
          AddMemberAddress(m, name) \/ DeleteMemberAddress(m, name)

Spec == Init /\ [][Next]_vars

\* The server runs on what every call has sent it, and serves those waiting
\* for a lock in the order they came: a call cannot be passed over for ever.
FairSpec == Spec /\ \A c \in Conns : SF_vars(Advance(c))

-----------------------------------------------------------------------------
(* Properties.                                                             *)

TypeOK ==
    /\ member \in [Mids -> Emps \cup {None, Deleted}]
    /\ mauth \in [Mids -> Usernames \cup {None}]
    /\ maddress \subseteq Mids \X AddressNames
    /\ member_audit \subseteq Mids
    /\ tx \in [Conns -> AddTx \cup UpdateTx \cup DeleteTx \cup LoginTx
                         \cup VisitTx \cup {Idle}]

\* A member row is there exactly when its mauth row is: addMember and
\* deleteMember leave no half a member behind, even for others to see while
\* they run (MCorpusRepo.addMember, updateMember, deleteMember).
MembersAreWhole == \A m \in Mids : Present(m) <=> mauth[m] # None

\* No two members share an employee key or a username, whatever calls change
\* them at once.
KeysAreUnique ==
    \A m, n \in Mids : m # n /\ Present(m) /\ Present(n) =>
        member[m] # member[n] /\ mauth[m] # mauth[n]

\* Addresses and visits belong to members that are there.
NothingIsOrphaned ==
    /\ \A a \in maddress : Present(a[1])
    /\ \A m \in member_audit : Present(m)

\* A member inserted and not committed is nobody else's, nor is its key.
InsertsAreFresh ==
    \A c \in Conns : At(c, "add", "member") =>
        /\ member[tx[c].mid] = None
        /\ \A m \in Mids : member[m] # tx[c].emp
        /\ \A d \in Conns \ {c} : At(d, "add", "member") =>
              tx[d].mid # tx[c].mid /\ tx[d].emp # tx[c].emp

\* Rows that are held are there, and held once.
LocksAreExclusive ==
    \A c \in Conns, m \in Mids :
        /\ LocksMember(c, m) =>
              Present(m) /\ \A d \in Conns \ {c} : ~LocksMember(d, m)
        /\ LocksMauth(c, m) =>
              Present(m) /\ \A d \in Conns \ {c} : ~LocksMauth(d, m)

\* A username entered and not committed is nobody else's.
UsernamesAreEnteredOnce ==
    \A c \in Conns, u \in Usernames : HasEntered(c, u) =>
        /\ ~UsernameTaken(tx[c].mid, u)
        /\ \A d \in Conns \ {c} : ~HasEntered(d, u)

\* Only an update with a new key waits to enter it.
KeysToEnter ==
    \A c \in Conns :
        /\ At(c, "update", "mauthRow") => tx[c].username \in Usernames
        /\ At(c, "update", "memberRow") => tx[c].emp \in Emps

IInv ==
    /\ MembersAreWhole
    /\ KeysAreUnique
    /\ NothingIsOrphaned
    /\ InsertsAreFresh
    /\ LocksAreExclusive
    /\ UsernamesAreEnteredOnce
    /\ KeysToEnter

Registry == INSTANCE MemberRegistry WITH
    members <- [m \in Mids |-> [emp |-> member[m], username |-> mauth[m]]],
    addresses <- maddress,
    visits <- member_audit

\* The tables and the calls on them implement MemberRegistry: whatever a step
\* of a call shows the others is one operation on one whole member, and never
\* brings back a member that is gone.
RegistryHolds == Registry!RegistrySpec

\* Every call ends, although updateMember takes the rows of a member in the
\* order opposite to deleteMember, and its keys opposite to addMember: the
\* code sets no lock or statement timeout and relies on the server to break
\* the rings this makes.
CallsEnd == \A c \in Conns : tx[c] # Idle ~> tx[c] = Idle

\* Each call of S waits for another of S, and none of them can go on.
Stalled(S) == \A c \in S : \E d \in S : WaitsFor(c, d)

\* Calls hold one another up only through updateMember: with one alone among
\* them it must have something to set in both tables, as it takes them in the
\* order opposite to addMember and deleteMember.  A service that sends no such
\* update, and no two at once, makes no work for the deadlock detector.
StallsNeedAnUpdate ==
    \A S \in (SUBSET Conns) \ {{}} : Stalled(S) =>
        \E c \in S :
            /\ tx[c].op = "update"
            /\ \/ \E d \in S \ {c} : tx[d].op = "update"
               \/ tx[c].username # Null /\ tx[c].emp # Null

\* An updateMember that is not waiting for anybody, and has new values in mauth
\* that the table accepted, is not rolled back while its member is there
\* (BaseValidator: a field to update makes "a valid update operation").
AcceptedUpdatesAreKept ==
    [][\A c \in Conns :
          /\ At(c, "update", "mauth") /\ Runs(c)
          /\ tx'[c] = Idle
          /\ Present(tx[c].mid)
          => mauth'[tx[c].mid] = Set(tx[c].username, mauth[tx[c].mid])]_vars
=============================================================================
