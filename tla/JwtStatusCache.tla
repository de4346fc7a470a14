--------------------------- MODULE JwtStatusCache ---------------------------
(***************************************************************************)
(* How the web tier decides whether to honour a JWT.  JWTStatusHandler     *)
(* calls JWT.jwtHttpRequestStatus on a blocking thread; that looks at the  *)
(* expiry claim and then asks CachingJwtBackendHandler, a Caffeine loading *)
(* cache (expireAfterWrite, maximumSize) in front of get_jwt_status.  The  *)
(* answer is kept in the request and acted on later.  The database is any  *)
(* implementation of SessionLife, as McuserDb is: nothing is assumed of it *)
(* that SessionLife does not say.                                          *)
(***************************************************************************)
EXTENDS SessionLife, Naturals, FiniteSets

CONSTANTS
    Requests,   \* requests in service at a time
    Ttl,        \* jwtStatusCacheTimeoutInMinutes, in ticks
    MaxSize,    \* jwtStatusCacheMaxSize
    MaxLoad     \* the most ticks a backend status query takes

ASSUME CacheAssumption ==
    Ttl \in Nat \ {0} /\ MaxSize \in Nat /\ MaxLoad \in Nat

VARIABLES
    cache,      \* cache[key]: nothing, or a status and the ticks since written
    req,        \* req[p]: the request in slot p
    sinceOn,    \* history: ticks since the JWT was last in force
    sinceOff    \* history: ticks since it was last not in force

vars == <<lifeVars, cache, req, sinceOn, sinceOff>>

-----------------------------------------------------------------------------
\* The longest a status may lag behind the database, and the bound at which
\* the history counters stop counting.
Lag == MaxLoad + Ttl - 1
Horizon == Lag + 1

\* FAIL is a FetchResult with an error message and no status.
Fetched == BackendStatuses \cup {"FAIL"}

JwtStatuses == {"VALID", "EXPIRED", "BLOCKED", "NOT_PRESENT_BACKEND", "ERROR"}

Nothing == [status |-> "none"]

Entry == [status : Fetched, age : 0 .. Ttl - 1]

Free == [pc |-> "free"]
Loading == [pc : {"loading"}, jwt : JwtIds, age : 0 .. MaxLoad]
Loaded  == [pc : {"loaded"}, jwt : JwtIds, age : 0 .. MaxLoad, fetched : Fetched]
Answered == [pc : {"answered"}, jwt : JwtIds, status : JwtStatuses]

\* The JWT with id j is in force.
InForce(j) == \E t \in Accepted : t[2] = j

\* Mutant: a failed query is taken for a refusal.
RequestStatus_FailBlocked(fetched) ==
    CASE fetched = "NOT_PRESENT"                          -> "NOT_PRESENT_BACKEND"
      [] fetched \in {"BLACKLISTED", "MCUSER_NOTACTIVE", "FAIL"} -> "BLOCKED"
      [] fetched = "EXPIRED"                              -> "EXPIRED"
      [] fetched = "VALID"                                -> "VALID"

\* jwtHttpRequestStatus: backend JWT status to HTTP request status.
RequestStatus(fetched) ==
    CASE fetched = "NOT_PRESENT"                          -> "NOT_PRESENT_BACKEND"
      [] fetched \in {"BLACKLISTED", "MCUSER_NOTACTIVE"}  -> "BLOCKED"
      [] fetched = "EXPIRED"                              -> "EXPIRED"
      [] fetched = "VALID"                                -> "VALID"
      [] fetched = "FAIL"                                 -> "ERROR"

Init ==
    /\ LifeInit
    /\ cache = [j \in JwtIds |-> Nothing]
    /\ req = [p \in Requests |-> Free]
    /\ sinceOn = [j \in JwtIds |-> Horizon]
    /\ sinceOff = [j \in JwtIds |-> 0]

\* A JWT in force now, or not, was so zero ticks ago.
Note ==
    /\ sinceOn' = [j \in JwtIds |-> IF InForce(j)' THEN 0 ELSE sinceOn[j]]
    /\ sinceOff' = [j \in JwtIds |-> IF InForce(j)' THEN sinceOff[j] ELSE 0]

-----------------------------------------------------------------------------
(* Time.                                                                   *)

AtMost(n, bound) == IF n < bound THEN n ELSE bound

\* Mutant: expireAfterAccess and a busy client, or no expiry at all.
Aged_Never(entry) == entry

\* Mutant: one tick too many.
Aged_Late(entry) ==
    IF entry = Nothing \/ entry.age = Ttl THEN Nothing
    ELSE [entry EXCEPT !.age = @ + 1]

\* expireAfterWrite: an entry is gone when its age reaches the time to live.
Aged(entry) ==
    IF entry = Nothing \/ entry.age + 1 = Ttl THEN Nothing
    ELSE [entry EXCEPT !.age = @ + 1]

Tick ==
    /\ \A p \in Requests : req[p].pc \in {"loading", "loaded"} => req[p].age < MaxLoad
    /\ cache' = [j \in JwtIds |-> Aged(cache[j])]
    /\ req' = [p \in Requests |->
                  IF req[p].pc \in {"loading", "loaded"}
                  THEN [req[p] EXCEPT !.age = @ + 1] ELSE req[p]]
    /\ sinceOn' = [j \in JwtIds |->
                      IF InForce(j) THEN 0 ELSE AtMost(sinceOn[j] + 1, Horizon)]
    /\ sinceOff' = [j \in JwtIds |->
                      IF InForce(j) THEN AtMost(sinceOff[j] + 1, Horizon) ELSE 0]
    /\ UNCHANGED lifeVars

-----------------------------------------------------------------------------
(* The database under the cache: logins, account maintenance and expiry    *)
(* claims that come to pass, and whatever other server tasks close.        *)

Database ==
    /\ LifeNext
    /\ Note
    /\ UNCHANGED <<cache, req>>

-----------------------------------------------------------------------------
(* jwtHttpRequestStatus.                                                   *)

\* A claim in the past is refused without a look at the backend.
ArriveExpired(p, t) ==
    /\ req[p] = Free
    /\ t \in lapsed
    /\ req' = [req EXCEPT ![p] = [pc |-> "answered", jwt |-> t[2],
                                  status |-> "EXPIRED"]]
    /\ UNCHANGED <<lifeVars, cache, sinceOn, sinceOff>>

ArriveHit(p, t) ==
    /\ req[p] = Free
    /\ t \notin lapsed
    /\ cache[t[2]] # Nothing
    /\ req' = [req EXCEPT ![p] = [pc |-> "answered", jwt |-> t[2],
                                  status |-> RequestStatus(cache[t[2]].status)]]
    /\ UNCHANGED <<lifeVars, cache, sinceOn, sinceOff>>

\* Mutant: get and put, with a query of its own for each request.
BeingLoaded_ByAnyone(j) == j \notin JwtIds

\* One loader to a key: later callers wait for it inside Caffeine.
BeingLoaded(j) ==
    \E p \in Requests : req[p].pc \in {"loading", "loaded"} /\ req[p].jwt = j

ArriveMiss(p, t) ==
    /\ req[p] = Free
    /\ t \notin lapsed
    /\ cache[t[2]] = Nothing
    /\ ~BeingLoaded(t[2])
    /\ req' = [req EXCEPT ![p] = [pc |-> "loading", jwt |-> t[2], age |-> 0]]
    /\ UNCHANGED <<lifeVars, cache, sinceOn, sinceOff>>

\* The backend query takes its snapshot, or fails.
Query(p) ==
    /\ req[p].pc = "loading"
    /\ \E t \in issued : \E fetched \in {BackendStatus(t), "FAIL"} :
          /\ t[2] = req[p].jwt
          /\ req' = [req EXCEPT ![p] =
                        [pc |-> "loaded", jwt |-> t[2], age |-> req[p].age,
                         fetched |-> fetched]]
    /\ UNCHANGED <<lifeVars, cache, sinceOn, sinceOff>>

\* Whatever the loader returns is written to the cache, failures included.
Store(p) ==
    /\ req[p].pc = "loaded"
    /\ cache' = [cache EXCEPT ![req[p].jwt] =
                    [status |-> req[p].fetched, age |-> 0]]
    /\ req' = [req EXCEPT ![p] = [pc |-> "answered", jwt |-> req[p].jwt,
                                  status |-> RequestStatus(req[p].fetched)]]
    /\ UNCHANGED <<lifeVars, sinceOn, sinceOff>>

\* maximumSize: some entry goes once there are too many.
Evict(j) ==
    /\ cache[j] # Nothing
    /\ Cardinality({k \in JwtIds : cache[k] # Nothing}) > MaxSize
    /\ cache' = [cache EXCEPT ![j] = Nothing]
    /\ UNCHANGED <<lifeVars, req, sinceOn, sinceOff>>

-----------------------------------------------------------------------------
(* What a request does with its answer.                                    *)

\* It is refused, or does nothing to sessions.
Finish(p) ==
    /\ req[p].pc = "answered"
    /\ req' = [req EXCEPT ![p] = Free]
    /\ UNCHANGED <<lifeVars, cache, sinceOn, sinceOff>>

\* mclogout, of the request's own JWT.  mcuser_logout asks the database, not
\* the cache, whether it is VALID; when it writes its row a moment later that
\* may have changed, but for the mcuser being there.  The cache keeps its entry.
Logout(p, t) ==
    /\ req[p].pc = "answered" /\ req[p].status = "VALID" /\ req[p].jwt = t[2]
    /\ Exists(t[1])
    /\ Close(t[1], {t})
    /\ Note
    /\ req' = [req EXCEPT ![p] = Free]
    /\ UNCHANGED cache

\* invalidateJwtsFor any mcuser closes the sessions blacklist_jwt_ids_for
\* finds; McuserDb says which it may miss.  The cache is told to drop the
\* mcuser's id, which is not a key of it.
Invalidated(key) == [j \in JwtIds |-> IF j = key THEN Nothing ELSE cache[j]]

InvalidateJwtsFor(p, u) ==
    /\ req[p].pc = "answered" /\ req[p].status = "VALID"
    /\ \E S \in SUBSET issued : Close(u, S)
    /\ Note
    /\ req' = [req EXCEPT ![p] = Free]
    /\ cache' = Invalidated(u)

-----------------------------------------------------------------------------
Serve(p) ==
    \/ \E t \in issued : ArriveExpired(p, t) \/ ArriveHit(p, t) \/ ArriveMiss(p, t)
    \/ Query(p) \/ Store(p) \/ Finish(p)
    \/ \E t \in issued : Logout(p, t)
    \/ \E u \in Mcusers : InvalidateJwtsFor(p, u)

Next ==
    \/ Tick
    \/ Database
    \/ \E p \in Requests : Serve(p)
    \/ \E j \in JwtIds : Evict(j)

\* Time passes, queries come back and handlers run to their end.  Nothing is
\* assumed of clients, administrators or evictions.
Fairness ==
    /\ WF_vars(Tick)
    /\ \A p \in Requests :
          WF_vars(Query(p)) /\ WF_vars(Store(p)) /\ WF_vars(Finish(p))

Spec == Init /\ [][Next]_vars
FairSpec == Spec /\ Fairness

-----------------------------------------------------------------------------
(* Properties.                                                             *)

TypeOK ==
    /\ LifeTypeOK
    /\ cache \in [JwtIds -> {Nothing} \cup Entry]
    /\ req \in [Requests -> {Free} \cup Loading \cup Loaded \cup Answered]
    /\ sinceOn \in [JwtIds -> 0 .. Horizon]
    /\ sinceOff \in [JwtIds -> 0 .. Horizon]

\* A request is being given this answer.
Answers(p, status) ==
    /\ req[p].pc # "answered"
    /\ req'[p].pc = "answered" /\ req'[p].status = status

\* A JWT logged out, blacklisted, of an mcuser deactivated or removed is
\* honoured for no longer than the time to live plus one query.
StaleAcceptanceIsBounded ==
    [][\A p \in Requests : Answers(p, "VALID") => sinceOn[req'[p].jwt] <= Lag]_vars

\* The other way: a JWT in force, of an mcuser switched back on say, is
\* refused as BLOCKED for no longer than that either.
StaleRefusalIsBounded ==
    [][\A p \in Requests : Answers(p, "BLOCKED") => sinceOff[req'[p].jwt] <= Lag]_vars

\* Something in the web tier still says that the JWT with id j is VALID.
HeldValid(j) ==
    \/ cache[j].status = "VALID"
    \/ \E p \in Requests :
          req[p].pc = "loaded" /\ req[p].jwt = j /\ req[p].fetched = "VALID"

\* Once a closed JWT has been answered BLOCKED it is not honoured again, though
\* queries begun before it was closed come back later: nothing held says VALID
\* then, and nothing will.
RefusalIsFinal ==
    [][\A t \in closed :
          (\/ ~HeldValid(t[2])
           \/ \E p \in Requests : Answers(p, "BLOCKED") /\ req'[p].jwt = t[2])
              => ~HeldValid(t[2])']_vars

\* From some time after it is closed, a JWT is never answered VALID.
ClosedIsRefusedForGood ==
    \A u \in Mcusers, j \in JwtIds :
        <<u, j>> \in closed ~>
            [](\A p \in Requests : ~(/\ req[p].pc = "answered"
                                     /\ req[p].jwt = j
                                     /\ req[p].status = "VALID"))

\* A failed query is forgotten: an ERROR is not served for good.
ErrorsAreForgotten ==
    \A j \in JwtIds : cache[j].status = "FAIL" ~> cache[j].status # "FAIL"

\* "invalidate all active JWTs issued to an mcuser", "Invalidate a valid JWT":
\* a request that arrives with a JWT already closed, of an mcuser still
\* there, is not answered VALID at once.
ClosedIsRefused ==
    [][\A p \in Requests, t \in closed :
          (req[p] = Free /\ Exists(t[1]) /\ req'[p] # Free /\ req'[p].jwt = t[2])
              => req'[p] # [pc |-> "answered", jwt |-> t[2], status |-> "VALID"]]_vars

-----------------------------------------------------------------------------
(* The inductive invariant behind the bounds and RefusalIsFinal.           *)

IdNamesOne == \A t1, t2 \in issued : t1[2] = t2[2] => t1 = t2

CountersSound ==
    \A j \in JwtIds :
        /\ InForce(j) => sinceOn[j] = 0
        /\ ~InForce(j) => sinceOff[j] = 0

Refusals == {"BLACKLISTED", "MCUSER_NOTACTIVE"}

\* A fetched status was true no longer ago than its query began.
LoadsRecent ==
    \A p \in Requests : req[p].pc = "loaded" =>
        /\ req[p].fetched = "VALID" => sinceOn[req[p].jwt] <= req[p].age
        /\ req[p].fetched \in Refusals => sinceOff[req[p].jwt] <= req[p].age

\* A cached status was true no longer ago than its query lasted and it is old.
EntriesRecent ==
    \A j \in JwtIds :
        /\ cache[j].status = "VALID" => sinceOn[j] <= MaxLoad + cache[j].age
        /\ cache[j].status \in Refusals => sinceOff[j] <= MaxLoad + cache[j].age

Recent ==
    /\ TypeOK
    /\ IdNamesOne
    /\ CountersSound
    /\ LoadsRecent
    /\ EntriesRecent

\* A key is loaded by one request at a time, and only while it has no entry.
OneLoader ==
    \A p \in Requests : req[p].pc \in {"loading", "loaded"} =>
        /\ cache[req[p].jwt] = Nothing
        /\ \A q \in Requests \ {p} :
              req[q].pc \in {"loading", "loaded"} => req[q].jwt # req[p].jwt

IInv == Recent /\ OneLoader
=============================================================================
