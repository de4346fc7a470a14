---------------------------- MODULE WebSessions ----------------------------
(***************************************************************************)
(* The sessions of one browser: its jwt cookie, the GraphQL requests it    *)
(* has under way (its tabs share the cookie), the gate of GraphQLHandler,  *)
(* and mclogin, mclogout and invalidateJwtsFor of JWTUserGraphQLWebContext *)
(* over the mcuser tables.  Administrators change mcusers and close        *)
(* sessions meanwhile.  Database calls are atomic, except that a login     *)
(* reads the mcuser's roles in a statement before the one that writes its  *)
(* LOGIN row; McuserDb says what else may come between.                    *)
(***************************************************************************)
EXTENDS McuserAccounts, Naturals

CONSTANTS
    JwtIds,     \* the UUIDs jwtUserLogin draws
    Requests,   \* the requests the browser can have under way
    Lifetime,   \* jwtTimeToLive, in ticks
    MaxChanges  \* bound: what administrators elsewhere do

ASSUME LifetimeAssumption == Lifetime \in Nat \ {0} /\ MaxChanges \in Nat
ASSUME NamesAssumption == JwtIds \cap {"none", "expired"} = {} /\ "stranger" \notin Mcusers

VARIABLES
    session,    \* session[j]: the LOGIN row and the claims of the JWT
    jar,        \* the browser's jwt cookie and the ticks it has left
    req,        \* req[p]: the request in slot p
    changes,    \* what administrators elsewhere have done
    crossed,    \* history: the requests that had others under way with them
    astray      \* history: JWTs that could not be expected to be held

vars == <<mcuser, session, jar, req, changes, crossed, astray>>

-----------------------------------------------------------------------------
None == "none"
Stranger == "stranger"      \* a uid that no mcuser has
Unissued == [state |-> "unissued"]

\* Ages stop counting once a JWT of that age has expired.
Ages == 0 .. Lifetime + 1

\* A removed mcuser takes its rows along: its sessions are gone.
Session ==
    [state : {"open", "closed", "gone"}, uid : Mcusers, roles : SUBSET Roles,
     age : Ages,        \* ticks since the request instant
     without : Ages]    \* history: ticks since the mcuser had these roles

Cookie == JwtIds \cup {None}
NoCookie == [jwt |-> None, left |-> 0]

Ops == {"mclogin", "mclogout", "invalidateJwtsFor"}

Free == [pc |-> "free"]
Sent == [pc : {"sent"}, op : Ops, jwt : Cookie]
Admitted == [pc : {"admitted"}, op : Ops \ {"mclogin"}, jwt : JwtIds]
Passed ==                   \* a login whose password matched
    [pc : {"passed"}, jwt : JwtIds, row : [state : {"open"}, uid : Mcusers,
     roles : SUBSET Roles, age : Ages, without : Ages]]
Replied ==                  \* the response's Set-Cookie for the jwt cookie
    [pc : {"replied"}, set : JwtIds \cup {"expired"}]

Issued(j) == session[j] # Unissued

Expired(j) == session[j].age > Lifetime

\* The LOGIN row is there, not logged out or blacklisted, and not expired.
Open(j) == Issued(j) /\ session[j].state = "open" /\ ~Expired(j)

\* get_jwt_status and what jwtHttpRequestStatus makes of it.
Status(j) ==
    CASE session[j].state = "gone"                    -> "NOT_PRESENT_BACKEND"
      [] session[j].state = "closed"                  -> "BLOCKED"
      [] /\ session[j].state = "open"
         /\ mcuser[session[j].uid].status = "INACTIVE" -> "BLOCKED"
      [] /\ session[j].state = "open"
         /\ mcuser[session[j].uid].status # "INACTIVE"
         /\ Expired(j)                                -> "EXPIRED"
      [] OTHER                                        -> "VALID"

\* Mutant: the expiry claim is not looked at; the cache may still say VALID.
Verdicts_NoExpiry(cookie) ==
    IF cookie = None THEN {"NOT_PRESENT_IN_REQUEST"}
    ELSE {"BAD_TOKEN", "BAD_CLAIMS", "VALID", "BLOCKED", "ERROR", Status(cookie)}

\* jwtHttpRequestStatus.  A task with another salt (every deployment has its
\* own) cannot decrypt the cookie, and a client at another address is not the
\* audience.  Within the claim's time the cached status counts, which may be
\* behind the database either way (JwtStatusCache) or be a failure.
Verdicts(cookie) ==
    IF cookie = None THEN {"NOT_PRESENT_IN_REQUEST"}
    ELSE {"BAD_TOKEN", "BAD_CLAIMS"} \cup
         IF Expired(cookie) THEN {"EXPIRED"}
         ELSE {"VALID", "BLOCKED", "ERROR", Status(cookie)}

\* The gate, and then mclogin's own look at the status and the @auth
\* directive's at the roles: whether the operation is carried out.
CarriesOut(verdict, op, cookie) ==
    CASE op = "mclogin" -> verdict \in {"NOT_PRESENT_IN_REQUEST", "EXPIRED"}
      [] op = "invalidateJwtsFor" ->
            verdict = "VALID" /\ IsAuthorized("ADMIN", session[cookie].roles)
      [] OTHER -> verdict = "VALID"

Init ==
    /\ mcuser \in [Mcusers -> [status : {"ACTIVE"}, roles : SUBSET Roles]]
    /\ session = [j \in JwtIds |-> Unissued]
    /\ jar = NoCookie
    /\ req = [p \in Requests |-> Free]
    /\ changes = 0
    /\ crossed = {}
    /\ astray = {}

-----------------------------------------------------------------------------
(* The browser.                                                            *)

UnderWay == {p \in Requests : req[p] # Free}

Send(p, op) ==
    /\ req[p] = Free
    /\ req' = [req EXCEPT ![p] = [pc |-> "sent", op |-> op, jwt |-> jar.jwt]]
    /\ crossed' = IF UnderWay = {} THEN {} ELSE UnderWay \cup {p}
    /\ UNCHANGED <<mcuser, session, jar, changes, astray>>

Done(p) ==
    /\ req' = [req EXCEPT ![p] = Free]
    /\ crossed' = crossed \ {p}

\* Mutant: the cookie outlives its JWT.
MaxAge_Longer == Lifetime + 1

\* setJwtCookie's Max-Age.
MaxAge == Lifetime

Receive(p) ==
    /\ req[p].pc = "replied"
    /\ jar' = IF req[p].set = "expired" THEN NoCookie
              ELSE [jwt |-> req[p].set, left |-> MaxAge]
    /\ Done(p)
    /\ astray' = IF p \in crossed THEN astray \cup ({req[p].set} \cap JwtIds)
                 ELSE astray
    /\ UNCHANGED <<mcuser, session, changes>>

\* The response is lost.
Lose(p) ==
    /\ req[p].pc = "replied"
    /\ Done(p)
    /\ astray' = astray \cup ({req[p].set} \cap JwtIds)
    /\ UNCHANGED <<mcuser, session, jar, changes>>

-----------------------------------------------------------------------------
(* The server.                                                             *)

Verdict(p) == Verdicts(req[p].jwt)

\* JWTStatusHandler and GraphQLHandler's gate, for a session's own requests.
Admit(p) ==
    /\ req[p].pc = "sent" /\ req[p].op # "mclogin"
    /\ \E verdict \in Verdict(p) : CarriesOut(verdict, req[p].op, req[p].jwt)
    /\ req' = [req EXCEPT ![p] = [pc |-> "admitted", op |-> req[p].op,
                                  jwt |-> req[p].jwt]]
    /\ UNCHANGED <<mcuser, session, jar, changes, crossed, astray>>

Reply(p, set) ==
    /\ req' = [req EXCEPT ![p] = [pc |-> "replied", set |-> set]]
    /\ UNCHANGED <<jar, changes, crossed>>

\* A response without a jwt cookie changes nothing in the browser.
ReplyBare(p) ==
    /\ Done(p)
    /\ UNCHANGED <<jar, changes>>

\* 401, 403, 500, or null or false; a login also for its username or password.
Refuse(p) ==
    /\ req[p].pc = "sent"
    /\ \/ \E verdict \in Verdict(p) : ~CarriesOut(verdict, req[p].op, req[p].jwt)
       \/ req[p].op = "mclogin"
    /\ ReplyBare(p)
    /\ UNCHANGED <<mcuser, session, astray>>

At(p, op) == req[p].pc = "admitted" /\ req[p].op = op

\* A session that is not VALID in the database, or no connection to it.
Fail(p) ==
    /\ req[p].pc = "admitted"
    /\ ReplyBare(p)
    /\ UNCHANGED <<mcuser, session, astray>>

\* The gate, and mcuser_login up to its INSERT.  An INACTIVE mcuser passes.
LoginPass(p, u, j) ==
    /\ req[p].pc = "sent" /\ req[p].op = "mclogin"
    /\ \E verdict \in Verdict(p) : CarriesOut(verdict, "mclogin", req[p].jwt)
    /\ Present(u)
    /\ ~Issued(j)
    /\ \A q \in Requests : req[q].pc = "passed" => req[q].jwt # j
    /\ req' = [req EXCEPT ![p] =
                  [pc |-> "passed", jwt |-> j,
                   row |-> [state |-> "open", uid |-> u, roles |-> mcuser[u].roles,
                            age |-> 0, without |-> 0]]]
    /\ UNCHANGED <<mcuser, session, jar, changes, crossed, astray>>

\* Mutant: the LOGIN row does not reference an mcuser.
InsertLogin_NoReference(p) ==
    session' = [session EXCEPT ![req[p].jwt] = req[p].row]

InsertLogin(p) ==
    /\ Present(req[p].row.uid)
    /\ session' = [session EXCEPT ![req[p].jwt] = req[p].row]

\* The LOGIN row is committed, and the JWT made and set.
LoginCommit(p) ==
    /\ req[p].pc = "passed"
    /\ InsertLogin(p)
    /\ Reply(p, req[p].jwt)
    /\ UNCHANGED <<mcuser, astray>>

\* The LOGIN row is committed, but jwtGenerate throws.
LoginUnsigned(p) ==
    /\ req[p].pc = "passed"
    /\ InsertLogin(p)
    /\ ReplyBare(p)
    /\ astray' = astray \cup {req[p].jwt}
    /\ UNCHANGED mcuser

\* The mcuser is no longer there to refer to, or the connection is lost.
LoginFail(p) ==
    /\ req[p].pc = "passed"
    /\ ReplyBare(p)
    /\ UNCHANGED <<mcuser, session, astray>>

\* mcuser_logout, which asks the tables and not the cache.
Logout(p) ==
    /\ At(p, "mclogout")
    /\ Status(req[p].jwt) = "VALID"
    /\ session' = [session EXCEPT ![req[p].jwt].state = "closed"]
    /\ Reply(p, "expired")
    /\ UNCHANGED <<mcuser, astray>>

\* blacklist_jwt_ids_for; a uid that no mcuser has is no failure.
Blacklisted(u) ==
    [j \in JwtIds |-> IF Open(j) /\ session[j].uid = u
                      THEN [session[j] EXCEPT !.state = "closed"] ELSE session[j]]

\* Mutant: the cookie goes whoever's sessions were invalidated.
OwnSessions_Always(cookie, u) == TRUE

\* The cookie goes if it was one's own sessions that were invalidated.
OwnSessions(cookie, u) == session[cookie].uid = u

InvalidateJwtsFor(p, u) ==
    /\ At(p, "invalidateJwtsFor")
    /\ session' = Blacklisted(u)
    /\ IF OwnSessions(req[p].jwt, u) THEN Reply(p, "expired") ELSE ReplyBare(p)
    /\ UNCHANGED <<mcuser, astray>>

-----------------------------------------------------------------------------
(* Administrators elsewhere, and time.                                     *)

Update(u, named) ==
    /\ UpdateMcuser(u, named)
    /\ UNCHANGED <<session, jar, req, crossed, astray>>

Delete(u) ==
    /\ DeleteMcuser(u)
    /\ session' = [j \in JwtIds |->
                      IF Issued(j) /\ session[j].uid = u
                      THEN [session[j] EXCEPT !.state = "gone"] ELSE session[j]]
    /\ UNCHANGED <<jar, req, crossed, astray>>

InvalidateElsewhere(u) ==
    /\ session' = Blacklisted(u)
    /\ UNCHANGED <<mcuser, jar, req, crossed, astray>>

Older(age) == IF age > Lifetime THEN age ELSE age + 1

Aged(s) ==
    [s EXCEPT !.age = Older(@),
              !.without = IF Present(s.uid) /\ mcuser[s.uid].roles = s.roles
                          THEN 0 ELSE Older(@)]

\* Mutant: no Max-Age, and a browser that stays open.
JarAged_Session == jar

\* Max-Age.
JarAged ==
    IF jar.left = 0 THEN NoCookie ELSE [jar EXCEPT !.left = @ - 1]

Tick ==
    /\ session' = [j \in JwtIds |->
                      IF Issued(j) THEN Aged(session[j]) ELSE Unissued]
    /\ jar' = JarAged
    /\ req' = [p \in Requests |->
                  IF req[p].pc = "passed" THEN [req[p] EXCEPT !.row = Aged(@)]
                  ELSE req[p]]
    /\ UNCHANGED <<mcuser, changes, crossed, astray>>

-----------------------------------------------------------------------------
Serve(p) ==
    \/ Admit(p) \/ Refuse(p) \/ Fail(p)
    \/ \E u \in Mcusers, j \in JwtIds : LoginPass(p, u, j)
    \/ LoginCommit(p) \/ LoginUnsigned(p) \/ LoginFail(p)
    \/ Logout(p)
    \/ \E u \in Mcusers \cup {Stranger} : InvalidateJwtsFor(p, u)

Administer(u) ==
    /\ changes < MaxChanges
    /\ changes' = changes + 1
    /\ \/ \E named \in McuserToUpdate : Update(u, named)
       \/ Delete(u)
       \/ InvalidateElsewhere(u)

Next ==
    \/ \E p \in Requests, op \in Ops : Send(p, op)
    \/ \E p \in Requests : Receive(p) \/ Lose(p) \/ Serve(p)
    \/ \E u \in Mcusers : Administer(u)
    \/ Tick

Spec == Init /\ [][Next]_vars

\* Time passes.  Nothing is assumed of the browser, the network or the server.
FairSpec == Spec /\ WF_vars(Tick)

-----------------------------------------------------------------------------
(* Properties.                                                             *)

TypeOK ==
    /\ mcuser \in [Mcusers -> Row \cup {Deleted}]
    /\ session \in [JwtIds -> Session \cup {Unissued}]
    /\ jar \in [jwt : Cookie, left : 0 .. Lifetime]
    /\ req \in [Requests -> {Free} \cup Sent \cup Admitted \cup Passed \cup Replied]
    /\ changes \in 0 .. MaxChanges
    /\ crossed \subseteq Requests
    /\ astray \subseteq JwtIds

\* A session the browser opened with no other request under way, whose JWT
\* was made and whose response came, is held by the browser as long as it is
\* open: no refused or failed logout, no invalidation of others, no Max-Age
\* and no later login leaves it open with nobody to log it out.
SerialLoginsAreHeld ==
    \A j \in JwtIds : Open(j) /\ j \notin astray =>
        \/ jar.jwt = j
        \/ \E p \in Requests : req[p].pc = "replied" /\ req[p].set = j

\* "We bake the user roles into the jwt token": a request is carried out under
\* roles its mcuser had within the lifetime of a JWT, however they have been
\* changed since, and whether or not the mcuser is still there.
RolesAreBounded ==
    [][\A p \in Requests :
          req[p].pc = "sent" /\ req'[p].pc = "admitted"
          => session[req[p].jwt].without <= Lifetime]_vars

\* A cookie that keeps its browser from logging in (blocked, of another salt
\* or address, of a mcuser that is gone) is gone in the end.
LockoutEnds == \A j \in JwtIds : jar.jwt = j ~> jar.jwt # j

\* A response on its way sets the cookie of j.
OnItsWay(j) == \E p \in Requests : req[p].pc = "replied" /\ req[p].set = j

\* The browser is done with j, whatever becomes of its session.
Dropped(j) == Issued(j) /\ jar.jwt # j /\ ~OnItsWay(j)

\* A cookie's time only runs out: nothing the browser, the server or the
\* administrators do lengthens it, each tick takes some of it, and a cookie
\* that has left the jar never comes back, so that no browser is kept from
\* logging in for longer than one JWT lasts (setJwtCookie's Max-Age).
CookiesRunOut ==
    [][\A j \in JwtIds :
          /\ jar.jwt = j =>
                \/ Dropped(j)'
                \/ /\ jar'.jwt = j /\ jar'.left <= jar.left
                   /\ Tick => jar'.left < jar.left
          /\ Dropped(j) => Dropped(j)']_vars

\* The sessions as claims, and those of them that are expired or closed.
Claims == {<<session[j].uid, j>> : j \in {i \in JwtIds : Issued(i)}}
Lapsed == {<<session[j].uid, j>> : j \in {i \in JwtIds : Issued(i) /\ Expired(i)}}
Closed == {<<session[j].uid, j>> : j \in {i \in JwtIds :
                Issued(i) /\ session[i].state # "open"}}

\* Whatever the browser and the administrators do, a session goes through
\* the life SessionLife gives it.
Life == INSTANCE SessionLife WITH
    account <- [u \in Mcusers |-> mcuser[u].status],
    issued  <- Claims,
    lapsed  <- Lapsed,
    closed  <- Closed

SessionsFollowLife == [][Life!LifeNext]_(Life!lifeVars)

\* "If no roles are present, no roles updating happens": an update that names
\* no roles leaves the mcuser's roles alone.
UnnamedRolesAreKept ==
    [][\A u \in Mcusers, named \in McuserToUpdate :
          named.roles = NullRoles /\ Update(u, named) =>
               mcuser'[u].roles = mcuser[u].roles]_vars

-----------------------------------------------------------------------------
(* The inductive invariant behind SerialLoginsAreHeld and RolesAreBounded. *)

\* A cookie is of a JWT whose LOGIN row was committed, a login's JWT is its own.
CookiesIssued ==
    /\ jar.jwt \in JwtIds => Issued(jar.jwt)
    /\ \A p \in Requests :
          /\ req[p].pc \in {"sent", "admitted"} /\ req[p].jwt \in JwtIds
                => Issued(req[p].jwt)
          /\ req[p].pc = "replied" /\ req[p].set \in JwtIds => Issued(req[p].set)
          /\ req[p].pc = "passed" =>
                /\ ~Issued(req[p].jwt)
                /\ \A q \in Requests \ {p} :
                      req[q].pc = "passed" => req[q].jwt # req[p].jwt

\* The roles of a JWT were its mcuser's when it was logged in.
RolesFresh ==
    /\ \A j \in JwtIds : Issued(j) => session[j].without <= session[j].age
    /\ \A p \in Requests : req[p].pc = "passed" => req[p].row.without <= req[p].row.age

\* Requests under way at the same time are crossed.
OverlapIsCrossed ==
    \A p, q \in Requests : p # q /\ req[p] # Free /\ req[q] # Free => p \in crossed

Held(j) == jar.jwt = j /\ j \notin astray

\* What a request under way knows of the cookie the jar holds.
RequestsKnowTheJar ==
    \A p \in Requests, j \in JwtIds : Held(j) =>
        /\ req[p].pc \in {"sent", "admitted"} => req[p].jwt = j
        /\ req[p].pc \in {"passed", "replied"} => ~Open(j)

\* A cookie is kept for as long as its JWT is not expired.
CookieLasts == \A j \in JwtIds : jar.jwt = j => jar.left + session[j].age >= Lifetime

IInv ==
    /\ TypeOK
    /\ CookiesIssued
    /\ RolesFresh
    /\ OverlapIsCrossed
    /\ RequestsKnowTheJar
    /\ CookieLasts
    /\ SerialLoginsAreHeld
=============================================================================
