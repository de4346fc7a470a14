---------------------------- MODULE SessionLife ----------------------------
(***************************************************************************)
(* What the mcuser tables and stored functions of mcorpus-schema.ddl owe   *)
(* to the web tier, with no transaction, timestamp or row in sight: a      *)
(* session is opened once, may lapse by time and may be closed, and once   *)
(* lapsed or closed it is never accepted again, whatever happens to the    *)
(* account it belongs to.  McuserDb implements this module; JwtStatusCache *)
(* and the request layer are built on it.                                  *)
(***************************************************************************)
CONSTANTS
    Mcusers,    \* mcuser uids
    JwtIds      \* JWT ids (random UUIDs: never drawn twice)

VARIABLES
    account,    \* account[u]: whether mcuser u exists and its status
    issued,     \* the JWTs handed out, as <<uid, jwt id>> claims
    lapsed,     \* the issued JWTs whose login has expired
    closed      \* the issued JWTs logged out, blacklisted or deleted

lifeVars == <<account, issued, lapsed, closed>>

AccountStates == {"NONE", "ACTIVE", "INACTIVE", "DELETED"}

LifeTypeOK ==
    /\ account \in [Mcusers -> AccountStates]
    /\ issued \subseteq Mcusers \X JwtIds
    /\ lapsed \subseteq issued
    /\ closed \subseteq issued

LifeInit ==
    /\ account = [u \in Mcusers |-> "NONE"]
    /\ issued = {}
    /\ lapsed = {}
    /\ closed = {}

Exists(u) == account[u] \in {"ACTIVE", "INACTIVE"}

\* The JWTs the backend must call VALID, and no others.
Accepted ==
    {t \in issued \ (lapsed \cup closed) : account[t[1]] = "ACTIVE"}

BackendStatuses ==
    {"NOT_PRESENT", "BLACKLISTED", "MCUSER_NOTACTIVE", "EXPIRED", "VALID"}

\* get_jwt_status, in terms of SessionLife: a removed mcuser has no rows, and
\* a LOGOUT row is noticed before the mcuser's status and the expiration.
BackendStatus(t) ==
    IF ~Exists(t[1]) THEN "NOT_PRESENT"
    ELSE IF t \in closed THEN "BLACKLISTED"
    ELSE IF account[t[1]] = "INACTIVE" THEN "MCUSER_NOTACTIVE"
    ELSE IF t \in lapsed THEN "EXPIRED"
    ELSE "VALID"

\* An mcuser is added; a uid is never used twice.
Add(u, status) ==
    /\ account[u] = "NONE"
    /\ account' = [account EXCEPT ![u] = status]
    /\ UNCHANGED <<issued, lapsed, closed>>

\* An administrator switches an account on or off.
SetStatus(u, status) ==
    /\ Exists(u)
    /\ account' = [account EXCEPT ![u] = status]
    /\ UNCHANGED <<issued, lapsed, closed>>

\* An account is removed, and with it every session it has.
Remove(u) ==
    /\ Exists(u)
    /\ account' = [account EXCEPT ![u] = "DELETED"]
    /\ closed' = closed \cup {t \in issued : t[1] = u}
    /\ UNCHANGED <<issued, lapsed>>

\* A session is opened under a JWT id nobody holds.  A login slower than its
\* own lifetime is born lapsed.
Issue(u, j) ==
    /\ Exists(u)
    /\ \A t \in issued : t[2] # j
    /\ issued' = issued \cup {<<u, j>>}
    /\ \/ lapsed' = lapsed
       \/ lapsed' = lapsed \cup {<<u, j>>}
    /\ UNCHANGED <<account, closed>>

\* Time passes some logins by.
Lapse(S) ==
    /\ S \subseteq issued
    /\ lapsed' = lapsed \cup S
    /\ UNCHANGED <<account, issued, closed>>

\* Sessions are logged out or blacklisted: all of one mcuser's, no other's.
Close(u, S) ==
    /\ S \subseteq {t \in issued : t[1] = u}
    /\ closed' = closed \cup S
    /\ UNCHANGED <<account, issued, lapsed>>

LifeNext ==
    \/ \E u \in Mcusers, s \in {"ACTIVE", "INACTIVE"} : Add(u, s) \/ SetStatus(u, s)
    \/ \E u \in Mcusers : Remove(u)
    \/ \E u \in Mcusers, j \in JwtIds : Issue(u, j)
    \/ \E S \in SUBSET issued : Lapse(S)
    \/ \E u \in Mcusers : \E S \in SUBSET issued : Close(u, S)

LifeSpec == LifeInit /\ [][LifeNext]_lifeVars
=============================================================================
