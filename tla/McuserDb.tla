------------------------------ MODULE McuserDb ------------------------------
(***************************************************************************)
(* The mcuser and mcuser_audit tables of mcorpus-schema.ddl and the stored *)
(* functions over them, as called by MCorpusUserRepo.  A call is one       *)
(* autocommit transaction under READ COMMITTED: now() is frozen when the   *)
(* transaction starts, each statement of a VOLATILE function sees a        *)
(* snapshot of its own, and the row written carries the frozen now() as    *)
(* its created time.  A call is therefore split at its statements, and     *)
(* calls of different connections interleave between them.                 *)
(***************************************************************************)
EXTENDS Naturals, FiniteSets

CONSTANTS
    Mcusers,    \* mcuser uids; a username identifies one
    JwtIds,     \* the UUIDs JWTUserGraphQLWebContext draws for logins
    Conns,      \* pooled database connections
    Lifetime,   \* jwtTimeToLive, in clock units
    MaxClock    \* bound on the clock, for model checking

ASSUME LifetimeAssumption == Lifetime \in Nat \ {0}
ASSUME MaxClockAssumption == MaxClock \in Nat

VARIABLES
    clock,          \* the database clock
    mcuser,         \* mcuser[u]: row absent, or its status
    mcuser_audit,   \* the audit rows
    tx,             \* tx[c]: the call in progress on connection c
    issued,         \* history: <<uid, jwt id>> claims of the logins that returned
    expires,        \* history: the expiry claim of the JWT with a given id
    loggedOut,      \* history: jwt ids mcuser_logout returned true for
    revoked         \* history: jwt ids in force when a completed
                    \* blacklist_jwt_ids_for on their mcuser began

vars == <<clock, mcuser, mcuser_audit, tx, issued, expires, loggedOut, revoked>>

-----------------------------------------------------------------------------
(* Rows and calls.                                                         *)

\* A login_expiration of 0 stands for SQL null (LOGOUT rows have none).
AuditRow ==
    [uid : Mcusers, created : Nat, type : {"LOGIN", "LOGOUT"},
     login_expiration : Nat, jwt_id : JwtIds,
     jwt_id_status : {"OK", "BLACKLISTED"}]

LoginTx ==
    [op : {"login"}, pc : {"begun", "passed"}, now : Nat,
     uid : Mcusers, jwt : JwtIds, exp : Nat]

LogoutTx ==
    [op : {"logout"}, pc : {"begun", "passed"}, now : Nat,
     uid : Mcusers, jwt : JwtIds]

\* held is history: the JWTs in force when the call began.
BlacklistTx ==
    [op : {"blacklist"}, pc : {"begun", "passed"}, now : Nat,
     uid : Mcusers, held : SUBSET JwtIds, targets : SUBSET JwtIds]

Idle == [op |-> "idle"]

Present(u) == mcuser[u] \in {"ACTIVE", "INACTIVE"}

LoginRow(u, j, now, exp) ==
    [uid |-> u, created |-> now, type |-> "LOGIN", login_expiration |-> exp,
     jwt_id |-> j, jwt_id_status |-> "OK"]

LogoutRow(u, j, now) ==
    [uid |-> u, created |-> now, type |-> "LOGOUT", login_expiration |-> 0,
     jwt_id |-> j, jwt_id_status |-> "BLACKLISTED"]

RowsOf(j) == {r \in mcuser_audit : r.jwt_id = j}

\* primary key (uid, created, type, jwt_id)
KeyTaken(row) ==
    \E r \in mcuser_audit :
        /\ r.uid = row.uid
        /\ r.created = row.created
        /\ r.type = row.type
        /\ r.jwt_id = row.jwt_id

-----------------------------------------------------------------------------
(* Queries.                                                                *)

\* Mutant: ORDER BY created, without DESC.
LatestRecs_Ascending(j) ==
    {r \in RowsOf(j) : \A s \in RowsOf(j) : r.created <= s.created}

\* fetch_latest_jwt_mcuser_rec: ORDER BY created DESC LIMIT 1 returns any one
\* of the rows that tie for the latest.
LatestRecs(j) ==
    {r \in RowsOf(j) : \A s \in RowsOf(j) : s.created <= r.created}

\* Mutant: the mcuser's status is not looked at.
StatusOf_AnyMcuser(rec, now) ==
    IF rec.jwt_id_status = "BLACKLISTED" THEN "BLACKLISTED"
    ELSE IF rec.login_expiration <= now THEN "EXPIRED"
    ELSE "VALID"

\* get_jwt_status, given the record fetched.  0, the null expiration, is at or
\* before every now.
StatusOf(rec, now) ==
    IF rec.jwt_id_status = "BLACKLISTED" THEN "BLACKLISTED"
    ELSE IF mcuser[rec.uid] # "ACTIVE" THEN "MCUSER_NOTACTIVE"
    ELSE IF rec.type # "LOGIN" THEN "PRESENT_BAD_STATE"
    ELSE IF rec.login_expiration <= now THEN "EXPIRED"
    ELSE "VALID"

\* The answers get_jwt_status may give at time now.
JwtStatuses(j, now) ==
    IF RowsOf(j) = {} THEN {"NOT_PRESENT"}
    ELSE {StatusOf(r, now) : r \in LatestRecs(j)}

\* The jwt ids of u that have a row which is not a good LOGIN: the subselect
\* get_num_active_logins and blacklist_jwt_ids_for share.
EndedIds(u) ==
    {r.jwt_id : r \in {s \in mcuser_audit :
        s.uid = u /\ (s.type # "LOGIN" \/ s.jwt_id_status # "OK")}}

\* Mutant: the expiry test is strict, as get_jwt_status has it.
ActiveLogins_Strict(u, now) ==
    {r.jwt_id : r \in {s \in mcuser_audit :
        /\ s.type = "LOGIN" /\ s.jwt_id_status = "OK"
        /\ s.login_expiration > now /\ s.uid = u
        /\ s.jwt_id \notin EndedIds(u)}}

\* The LOGIN rows get_num_active_logins counts, by their jwt id.
ActiveLogins(u, now) ==
    {r.jwt_id : r \in {s \in mcuser_audit :
        /\ s.type = "LOGIN"
        /\ s.jwt_id_status = "OK"
        /\ s.login_expiration >= now
        /\ s.uid = u
        /\ s.jwt_id \notin EndedIds(u)}}

\* Mutant: the expiry test is the wrong way round.
BlacklistTargets_Expired(u, now) ==
    {r.jwt_id : r \in {s \in mcuser_audit :
        /\ s.uid = u /\ s.type = "LOGIN" /\ s.login_expiration <= now
        /\ s.jwt_id \notin EndedIds(u)}}

\* Mutant: the uid is not compared.
BlacklistTargets_AnyMcuser(u, now) ==
    {r.jwt_id : r \in {s \in mcuser_audit :
        /\ s.type = "LOGIN" /\ s.login_expiration >= now
        /\ s.jwt_id \notin EndedIds(u)}}

\* The jwt ids blacklist_jwt_ids_for writes a LOGOUT row for.
BlacklistTargets(u, now) ==
    {r.jwt_id : r \in {s \in mcuser_audit :
        /\ s.uid = u
        /\ s.type = "LOGIN"
        /\ s.login_expiration >= now
        /\ s.jwt_id_status = "OK"
        /\ s.jwt_id \notin EndedIds(u)}}

-----------------------------------------------------------------------------
Init ==
    /\ clock = 1
    /\ mcuser = [u \in Mcusers |-> "NONE"]
    /\ mcuser_audit = {}
    /\ tx = [c \in Conns |-> Idle]
    /\ issued = {}
    /\ expires = [j \in JwtIds |-> 0]
    /\ loggedOut = {}
    /\ revoked = {}

history == <<issued, expires, loggedOut, revoked>>

Tick ==
    /\ clock < MaxClock
    /\ clock' = clock + 1
    /\ UNCHANGED <<mcuser, mcuser_audit, tx, history>>

\* A call ends without having written anything, or is rolled back.
Abandon(c) ==
    /\ tx' = [tx EXCEPT ![c] = Idle]
    /\ UNCHANGED <<clock, mcuser, mcuser_audit, history>>

-----------------------------------------------------------------------------
(* mcuser rows: addMcuser, updateMcuser (its status) and deleteMcuser.     *)
(* Each is one statement whose effect does not depend on when it started.  *)

InsertMcuser(u, status) ==
    /\ mcuser[u] = "NONE"
    /\ mcuser' = [mcuser EXCEPT ![u] = status]
    /\ UNCHANGED <<clock, mcuser_audit, tx, history>>

\* Mutant: switching an mcuser on again lifts what was logged out.
UpdateMcuserStatus_LiftsLogouts(u, status) ==
    /\ Present(u)
    /\ mcuser' = [mcuser EXCEPT ![u] = status]
    /\ mcuser_audit' = {r \in mcuser_audit :
            status = "ACTIVE" /\ r.uid = u => r.type = "LOGIN"}
    /\ UNCHANGED <<clock, tx, history>>

UpdateMcuserStatus(u, status) ==
    /\ Present(u)
    /\ mcuser' = [mcuser EXCEPT ![u] = status]
    /\ UNCHANGED <<clock, mcuser_audit, tx, history>>

\* Mutant: the audit rows outlive the mcuser.
DeleteMcuser_NoCascade(u) ==
    /\ Present(u)
    /\ mcuser' = [mcuser EXCEPT ![u] = "DELETED"]
    /\ UNCHANGED <<clock, mcuser_audit, tx, history>>

\* ON DELETE CASCADE takes the mcuser's audit rows along.
DeleteMcuser(u) ==
    /\ Present(u)
    /\ mcuser' = [mcuser EXCEPT ![u] = "DELETED"]
    /\ mcuser_audit' = {r \in mcuser_audit : r.uid # u}
    /\ UNCHANGED <<clock, tx, history>>

-----------------------------------------------------------------------------
(* mcuser_login.                                                           *)

\* UUID.randomUUID: never an id drawn before.
Fresh(j) ==
    /\ \A t \in issued : t[2] # j
    /\ \A c \in Conns : tx[c].op = "login" => tx[c].jwt # j

\* Mutant: the lifetime is taken off the request instant.
LoginExpiration_Minus(instant) == instant - Lifetime

\* jwtUserLogin: the expiry goes to the database and into the JWT's claims.
LoginExpiration(instant) == instant + Lifetime

LoginBegin(c, u, j) ==
    /\ tx[c] = Idle
    /\ Fresh(j)
    /\ tx' = [tx EXCEPT ![c] =
                [op |-> "login", pc |-> "begun", now |-> clock,
                 uid |-> u, jwt |-> j, exp |-> LoginExpiration(clock)]]
    /\ UNCHANGED <<clock, mcuser, mcuser_audit, history>>

\* The id is not in the table and the password matches: whether it does is
\* the caller's affair.  The status of the mcuser is not looked at.
LoginPass(c) ==
    /\ tx[c].op = "login" /\ tx[c].pc = "begun"
    /\ RowsOf(tx[c].jwt) = {}
    /\ Present(tx[c].uid)
    /\ tx' = [tx EXCEPT ![c].pc = "passed"]
    /\ UNCHANGED <<clock, mcuser, mcuser_audit, history>>

\* Wrong password, no such mcuser or an id already in the table: null.
LoginRefuse(c) ==
    /\ tx[c].op = "login" /\ tx[c].pc = "begun"
    /\ Abandon(c)

\* A commit takes time: the microsecond clock has moved since now() was taken.
LoginCommit(c) ==
    /\ tx[c].op = "login" /\ tx[c].pc = "passed"
    /\ tx[c].now < clock
    /\ Present(tx[c].uid)
    /\ mcuser_audit' = mcuser_audit
            \cup {LoginRow(tx[c].uid, tx[c].jwt, tx[c].now, tx[c].exp)}
    /\ issued' = issued \cup {<<tx[c].uid, tx[c].jwt>>}
    /\ expires' = [expires EXCEPT ![tx[c].jwt] = tx[c].exp]
    /\ tx' = [tx EXCEPT ![c] = Idle]
    /\ UNCHANGED <<clock, mcuser, loggedOut, revoked>>

\* The mcuser was deleted under the call: the foreign key refuses the row.
LoginFail(c) ==
    /\ tx[c].op = "login" /\ tx[c].pc = "passed"
    /\ ~Present(tx[c].uid)
    /\ Abandon(c)

-----------------------------------------------------------------------------
(* mcuser_logout: the claims come from a JWT that was issued.              *)

LogoutBegin(c, t) ==
    /\ tx[c] = Idle
    /\ tx' = [tx EXCEPT ![c] =
                [op |-> "logout", pc |-> "begun", now |-> clock,
                 uid |-> t[1], jwt |-> t[2]]]
    /\ UNCHANGED <<clock, mcuser, mcuser_audit, history>>

LoginRecorded(u, j) ==
    \E r \in mcuser_audit : r.uid = u /\ r.jwt_id = j /\ r.type = "LOGIN"

\* The EXISTS and the status are two statements; a deletion between them,
\* the one step that could tell, makes the second fail too.
LogoutPass(c) ==
    /\ tx[c].op = "logout" /\ tx[c].pc = "begun"
    /\ LoginRecorded(tx[c].uid, tx[c].jwt)
    /\ "VALID" \in JwtStatuses(tx[c].jwt, tx[c].now)
    /\ tx' = [tx EXCEPT ![c].pc = "passed"]
    /\ UNCHANGED <<clock, mcuser, mcuser_audit, history>>

LogoutRefuse(c) ==
    /\ tx[c].op = "logout" /\ tx[c].pc = "begun"
    /\ \/ ~LoginRecorded(tx[c].uid, tx[c].jwt)
       \/ JwtStatuses(tx[c].jwt, tx[c].now) # {"VALID"}
    /\ Abandon(c)

LogoutCommit(c) ==
    LET row == LogoutRow(tx[c].uid, tx[c].jwt, tx[c].now) IN
    /\ tx[c].op = "logout" /\ tx[c].pc = "passed"
    /\ tx[c].now < clock
    /\ Present(tx[c].uid)
    /\ ~KeyTaken(row)
    /\ mcuser_audit' = mcuser_audit \cup {row}
    /\ loggedOut' = loggedOut \cup {tx[c].jwt}
    /\ tx' = [tx EXCEPT ![c] = Idle]
    /\ UNCHANGED <<clock, mcuser, issued, expires, revoked>>

\* The foreign key or the primary key refuses the row.
LogoutFail(c) ==
    /\ tx[c].op = "logout" /\ tx[c].pc = "passed"
    /\ \/ ~Present(tx[c].uid)
       \/ KeyTaken(LogoutRow(tx[c].uid, tx[c].jwt, tx[c].now))
    /\ Abandon(c)

-----------------------------------------------------------------------------
(* blacklist_jwt_ids_for.                                                  *)

BlacklistBegin(c, u) ==
    /\ tx[c] = Idle
    /\ tx' = [tx EXCEPT ![c] =
                [op |-> "blacklist", pc |-> "begun", now |-> clock, uid |-> u,
                 held |-> {j \in JwtIds : <<u, j>> \in issued},
                 targets |-> {}]]
    /\ UNCHANGED <<clock, mcuser, mcuser_audit, history>>

\* The INSERT ... SELECT takes its snapshot, later than now().
BlacklistSelect(c) ==
    /\ tx[c].op = "blacklist" /\ tx[c].pc = "begun"
    /\ tx' = [tx EXCEPT ![c].pc = "passed",
                        ![c].targets = BlacklistTargets(tx[c].uid, tx[c].now)]
    /\ UNCHANGED <<clock, mcuser, mcuser_audit, history>>

BlacklistRows(c) ==
    {LogoutRow(tx[c].uid, j, tx[c].now) : j \in tx[c].targets}

BlacklistCommit(c) ==
    /\ tx[c].op = "blacklist" /\ tx[c].pc = "passed"
    /\ tx[c].now < clock
    /\ tx[c].targets # {} => Present(tx[c].uid)
    /\ \A row \in BlacklistRows(c) : ~KeyTaken(row)
    /\ mcuser_audit' = mcuser_audit \cup BlacklistRows(c)
    /\ revoked' = revoked \cup tx[c].held
    /\ tx' = [tx EXCEPT ![c] = Idle]
    /\ UNCHANGED <<clock, mcuser, issued, expires, loggedOut>>

\* One row refused, by the foreign key or the primary key, undoes them all.
BlacklistFail(c) ==
    /\ tx[c].op = "blacklist" /\ tx[c].pc = "passed"
    /\ \/ tx[c].targets # {} /\ ~Present(tx[c].uid)
       \/ \E row \in BlacklistRows(c) : KeyTaken(row)
    /\ Abandon(c)

-----------------------------------------------------------------------------
AccountStep ==
    \E u \in Mcusers :
        \/ \E s \in {"ACTIVE", "INACTIVE"} :
                InsertMcuser(u, s) \/ UpdateMcuserStatus(u, s)
        \/ DeleteMcuser(u)

LoginStep(c) ==
    \/ \E u \in Mcusers, j \in JwtIds : LoginBegin(c, u, j)
    \/ LoginPass(c) \/ LoginRefuse(c) \/ LoginCommit(c) \/ LoginFail(c)

LogoutStep(c) ==
    \/ \E t \in issued : LogoutBegin(c, t)
    \/ LogoutPass(c) \/ LogoutRefuse(c) \/ LogoutCommit(c) \/ LogoutFail(c)

BlacklistStep(c) ==
    \/ \E u \in Mcusers : BlacklistBegin(c, u)
    \/ BlacklistSelect(c) \/ BlacklistCommit(c) \/ BlacklistFail(c)

Next ==
    \/ Tick
    \/ AccountStep
    \/ \E c \in Conns : LoginStep(c) \/ LogoutStep(c) \/ BlacklistStep(c)

Spec == Init /\ [][Next]_vars

-----------------------------------------------------------------------------
(* Properties.                                                             *)

TypeOK ==
    /\ clock \in Nat
    /\ mcuser \in [Mcusers -> {"NONE", "ACTIVE", "INACTIVE", "DELETED"}]
    /\ mcuser_audit \subseteq AuditRow
    /\ tx \in [Conns -> {Idle} \cup LoginTx \cup LogoutTx \cup BlacklistTx]
    /\ issued \subseteq Mcusers \X JwtIds
    /\ expires \in [JwtIds -> Nat]
    /\ loggedOut \subseteq JwtIds
    /\ revoked \subseteq JwtIds

\* A LOGOUT row written for j at or before the created time of j's LOGIN row:
\* a blacklist call that started no later than the login and read after it.
Raced(j) ==
    \E l, o \in RowsOf(j) :
        l.type = "LOGIN" /\ o.type = "LOGOUT" /\ o.created <= l.created

\* Every LOGOUT row closes a session of the mcuser it names: the LOGIN row of
\* that mcuser and jwt id is there too, deletions and all.
LogoutFollowsLogin ==
    \A o \in mcuser_audit :
        o.type = "LOGOUT" => LoginRecorded(o.uid, o.jwt_id)

\* Once mcuser_logout has returned true for a JWT, get_jwt_status never again
\* calls it VALID, whatever other calls were in flight.
LogoutIsFinal ==
    \A j \in loggedOut : "VALID" \notin JwtStatuses(j, clock)

\* "Insert new mcuser_audit records for each jwt_id held by the given mcuser
\* id so that subsequent jwt id status queries will report them as
\* blacklisted": once blacklist_jwt_ids_for has returned, no JWT in force
\* when it was called can only be VALID.
RevokedIsFinal ==
    \A j \in revoked : JwtStatuses(j, clock) # {"VALID"}

\* The same, for the JWTs whose login no blacklist call has overtaken.
RevokedIsFinalUnlessRaced ==
    \A j \in revoked : ~Raced(j) => "VALID" \notin JwtStatuses(j, clock)

\* A session is over once a LOGOUT row is later than its LOGIN row, or the
\* LOGIN row is gone.
Ended(j) ==
    \A l \in RowsOf(j) : l.type = "LOGIN" =>
        \E o \in RowsOf(j) : o.type = "LOGOUT" /\ o.created > l.created

\* The tables and functions implement the promise of SessionLife.
Life == INSTANCE SessionLife WITH
    account <- mcuser,
    lapsed  <- {t \in issued : expires[t[2]] <= clock},
    closed  <- {t \in issued : Ended(t[2])}

SessionsLive == Life!LifeSpec

\* get_jwt_status calls VALID exactly the JWTs the promise accepts, and gives
\* the promised answer throughout; only a LOGOUT row created in the same
\* instant as the LOGIN row, one way to be overtaken, may add BLACKLISTED to it.
StatusAgreesWithLife ==
    \A t \in issued :
        LET answers  == JwtStatuses(t[2], clock)
            promised == Life!BackendStatus(t)
        IN  /\ "VALID" \in answers <=> t \in Life!Accepted
            /\ promised \in answers
            /\ answers \subseteq {promised, "BLACKLISTED"}
            /\ ~Raced(t[2]) => answers = {promised}

\* get_num_active_logins is said to give the "number of valid, non-expired JWT
\* IDs issued" (MCorpusUserRepo 90) and is not the number of those get_jwt_status
\* calls VALID.  It differs in these cases and in no others, and in these always:
\* it counts an open session at the instant it expires and one whose mcuser is
\* switched off, and leaves out a VALID one whose login was overtaken.
CountDiffersFromStatus ==
    /\ \A u \in Mcusers : \A j \in ActiveLogins(u, clock) : <<u, j>> \in issued
    /\ \A t \in issued :
        LET counted == t[2] \in ActiveLogins(t[1], clock)
            valid   == "VALID" \in JwtStatuses(t[2], clock)
        IN  /\ counted /\ ~valid <=>
                /\ ~Ended(t[2]) /\ ~Raced(t[2])
                /\ \/ expires[t[2]] = clock
                   \/ expires[t[2]] > clock /\ mcuser[t[1]] = "INACTIVE"
            /\ valid /\ ~counted <=> t \in Life!Accepted /\ Raced(t[2])

\* Whichever row get_jwt_status fetches for j is no LOGIN row still in time.
Spent(j) ==
    \A r \in LatestRecs(j) : r.type # "LOGIN" \/ r.login_expiration <= clock

\* A JWT logged out, blacklisted, expired or deleted stays so: no later call,
\* and no switching its mcuser off and on, brings it back.
SpentIsForGood ==
    [][\A t \in issued : Spent(t[2]) => Spent(t[2])']_vars

-----------------------------------------------------------------------------
(* The inductive invariant behind the safety properties above.             *)

IsIssued(j) == \E t \in issued : t[2] = j

\* Rows belong to mcusers who are there, are older than the clock, and are of
\* the two shapes the functions write.
RowsSound ==
    \A r \in mcuser_audit :
        /\ Present(r.uid)
        /\ r.created < clock
        /\ r.type = "LOGIN" =>
              /\ <<r.uid, r.jwt_id>> \in issued
              /\ r.jwt_id_status = "OK"
              /\ r.login_expiration = expires[r.jwt_id]
        /\ r.type = "LOGOUT" =>
              /\ r.jwt_id_status = "BLACKLISTED"
              /\ LoginRecorded(r.uid, r.jwt_id)

\* A JWT's mcuser was added, and while there has the LOGIN row that made it.
LoginsKept ==
    \A t \in issued :
        /\ mcuser[t[1]] # "NONE"
        /\ Present(t[1]) => LoginRecorded(t[1], t[2])

\* A jwt id names one login.
IdsUnique ==
    /\ \A t1, t2 \in issued : t1[2] = t2[2] => t1 = t2
    /\ \A l1, l2 \in mcuser_audit :
          l1.type = "LOGIN" /\ l2.type = "LOGIN" /\ l1.jwt_id = l2.jwt_id => l1 = l2
    /\ \A c \in Conns : tx[c].op = "login" =>
          /\ ~IsIssued(tx[c].jwt)
          /\ \A d \in Conns \ {c} : tx[d].op = "login" => tx[d].jwt # tx[c].jwt

\* The LOGIN row of j, if there still is one, is older than now.
LoginBefore(j, now) ==
    \A l \in RowsOf(j) : l.type = "LOGIN" => l.created < now

\* j is over, or a blacklist call overtook its login.
OverOrRaced(j) == Ended(j) \/ Raced(j) \/ expires[j] <= clock

\* A logout or blacklist call is younger than the logins it was made for.
CallSound(call) ==
    /\ call.op # "idle" => call.now <= clock
    /\ call.op = "logout" =>
          /\ <<call.uid, call.jwt>> \in issued
          /\ LoginBefore(call.jwt, call.now)
    /\ call.op = "blacklist" =>
          /\ \A j \in call.held :
                <<call.uid, j>> \in issued /\ LoginBefore(j, call.now)
          /\ \A j \in call.targets : <<call.uid, j>> \in issued
          /\ call.pc = "passed" =>
                \A j \in call.held : j \in call.targets \/ OverOrRaced(j)

CallsSound == \A c \in Conns : CallSound(tx[c])

PromisesKept ==
    /\ \A j \in loggedOut : IsIssued(j) /\ Ended(j)
    /\ \A j \in revoked : IsIssued(j) /\ OverOrRaced(j)

IInv ==
    /\ TypeOK
    /\ RowsSound
    /\ LoginsKept
    /\ IdsUnique
    /\ CallsSound
    /\ PromisesKept
=============================================================================
