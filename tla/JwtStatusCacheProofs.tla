------------------------ MODULE JwtStatusCacheProofs ------------------------
(***************************************************************************)
(* For any time to live, cache size and query time, and any number of      *)
(* mcusers, JWTs and requests: the web tier's view of a JWT lags behind    *)
(* the database by at most one query and one time to live.                 *)
(***************************************************************************)
EXTENDS JwtStatusCache, TLAPS

USE CacheAssumption

LEMMA Bounds == Lag \in Nat /\ Horizon \in Nat /\ MaxLoad <= Lag /\ Horizon = Lag + 1
BY DEF Lag, Horizon

LEMMA TokenParts ==
    ASSUME LifeTypeOK, NEW t \in issued
    PROVE  t[1] \in Mcusers /\ t[2] \in JwtIds
BY DEF LifeTypeOK

LEMMA RequestStatusOf ==
    ASSUME NEW f \in Fetched
    PROVE  /\ RequestStatus(f) \in JwtStatuses
           /\ RequestStatus(f) = "VALID" <=> f = "VALID"
           /\ RequestStatus(f) = "BLOCKED" <=> f \in Refusals
BY DEF RequestStatus, Fetched, BackendStatuses, JwtStatuses, Refusals

\* The backend's answer says whether the JWT is in force.
LEMMA BackendStatusOf ==
    ASSUME IdNamesOne, NEW t \in issued
    PROVE  /\ BackendStatus(t) \in BackendStatuses
           /\ BackendStatus(t) = "VALID" => InForce(t[2])
           /\ BackendStatus(t) \in Refusals => ~InForce(t[2])
<1>1. BackendStatus(t) = "VALID" => t \in Accepted
  BY DEF BackendStatus, Accepted, Exists
<1>2. BackendStatus(t) \in Refusals => t \notin Accepted
  BY DEF BackendStatus, Accepted, Exists, Refusals
<1>3. \A s \in Accepted : s[2] = t[2] => s = t
  BY DEF IdNamesOne, Accepted
<1>4. QED
  BY <1>1, <1>2, <1>3 DEF InForce, BackendStatus, BackendStatuses

LEMMA InitRecent == Init => Recent
<1> SUFFICES ASSUME Init PROVE Recent
  OBVIOUS
<1>1. LifeTypeOK
  BY DEF Init, LifeInit, LifeTypeOK, AccountStates
<1>2. TypeOK
  BY <1>1, Bounds DEF Init, TypeOK
<1>3. \A j \in JwtIds : ~InForce(j)
  BY DEF Init, LifeInit, InForce, Accepted
<1>4. IdNamesOne /\ CountersSound
  BY <1>3 DEF Init, LifeInit, IdNamesOne, CountersSound
<1>5. LoadsRecent /\ EntriesRecent
  BY DEF Init, LoadsRecent, EntriesRecent, Free, Nothing, Refusals
<1>6. QED
  BY <1>2, <1>4, <1>5 DEF Recent

(***************************************************************************)
(* Steps that leave the database and the counters alone.                   *)
(***************************************************************************)
Still == UNCHANGED <<lifeVars, sinceOn, sinceOff>>

LEMMA StillKeeps ==
    ASSUME Recent, Still
    PROVE  /\ (LifeTypeOK /\ IdNamesOne /\ CountersSound)'
           /\ (sinceOn \in [JwtIds -> 0 .. Horizon])'
           /\ (sinceOff \in [JwtIds -> 0 .. Horizon])'
BY DEF Still, lifeVars, Recent, TypeOK, LifeTypeOK, IdNamesOne, CountersSound,
       InForce, Accepted, Horizon, Lag

\* A request that is not left loaded disturbs nothing.
LEMMA AnswerRecent ==
    ASSUME Recent, Still, UNCHANGED cache, NEW p \in Requests,
           NEW r \in {Free} \cup Loading \cup Answered,
           req' = [req EXCEPT ![p] = r]
    PROVE  Recent'
<1>1. TypeOK'
  BY StillKeeps DEF Recent, TypeOK
<1>2. LoadsRecent'
  BY DEF Recent, TypeOK, LoadsRecent, Still, Free, Loading, Answered
<1>3. EntriesRecent'
  BY DEF Recent, EntriesRecent, Still
<1>4. QED
  BY <1>1, <1>2, <1>3, StillKeeps DEF Recent

LEMMA ArriveRecent ==
    ASSUME Recent, NEW p \in Requests, NEW t \in issued,
           ArriveExpired(p, t) \/ ArriveHit(p, t) \/ ArriveMiss(p, t)
    PROVE  Recent'
<1>1. t[2] \in JwtIds
  BY TokenParts DEF Recent, TypeOK
<1>2. cache[t[2]] # Nothing => cache[t[2]].status \in Fetched
  BY <1>1 DEF Recent, TypeOK, Entry
<1>3. CASE ArriveExpired(p, t)
  <2>1. [pc |-> "answered", jwt |-> t[2], status |-> "EXPIRED"] \in Answered
    BY <1>1 DEF Answered, JwtStatuses
  <2>2. QED
    BY <1>3, <2>1, AnswerRecent DEF ArriveExpired, Still
<1>4. CASE ArriveHit(p, t)
  <2>1. RequestStatus(cache[t[2]].status) \in JwtStatuses
    BY <1>2, <1>4, RequestStatusOf DEF ArriveHit
  <2>2. [pc |-> "answered", jwt |-> t[2],
         status |-> RequestStatus(cache[t[2]].status)] \in Answered
    BY <1>1, <2>1 DEF Answered
  <2>3. QED
    BY <1>4, <2>2, AnswerRecent DEF ArriveHit, Still
<1>5. CASE ArriveMiss(p, t)
  <2>1. [pc |-> "loading", jwt |-> t[2], age |-> 0] \in Loading
    BY <1>1 DEF Loading
  <2>2. QED
    BY <1>5, <2>1, AnswerRecent DEF ArriveMiss, Still
<1>6. QED
  BY <1>3, <1>4, <1>5

LEMMA FinishRecent == ASSUME Recent, NEW p \in Requests, Finish(p) PROVE Recent'
BY AnswerRecent DEF Finish, Still

\* The snapshot is taken now: whatever it says was true zero ticks ago.
LEMMA QueryRecent == ASSUME Recent, NEW p \in Requests, Query(p) PROVE Recent'
<1>0. PICK t \in issued : \E f \in {BackendStatus(t), "FAIL"} :
        /\ t[2] = req[p].jwt
        /\ req' = [req EXCEPT ![p] = [pc |-> "loaded", jwt |-> t[2],
                                      age |-> req[p].age, fetched |-> f]]
  BY DEF Query
<1>1. PICK f \in {BackendStatus(t), "FAIL"} :
        /\ t[2] = req[p].jwt
        /\ req' = [req EXCEPT ![p] = [pc |-> "loaded", jwt |-> t[2],
                                      age |-> req[p].age, fetched |-> f]]
  BY <1>0
<1>2. Still /\ UNCHANGED cache
  BY DEF Query, Still
<1>3. t[2] \in JwtIds /\ req[p].age \in 0 .. MaxLoad
  BY TokenParts DEF Recent, TypeOK, Query, Free, Loading, Loaded, Answered
<1>4. f \in Fetched
  BY BackendStatusOf DEF Recent, Fetched
<1>5. TypeOK'
  <2>1. [pc |-> "loaded", jwt |-> t[2], age |-> req[p].age, fetched |-> f] \in Loaded
    BY <1>3, <1>4 DEF Loaded
  <2>2. QED
    BY <1>1, <1>2, <2>1, StillKeeps DEF Recent, TypeOK
<1>6. /\ f = "VALID" => sinceOn[t[2]] = 0
      /\ f \in Refusals => sinceOff[t[2]] = 0
  BY <1>3, BackendStatusOf DEF Recent, CountersSound, Refusals
<1>7. LoadsRecent'
  <2>1. ASSUME NEW q \in Requests, (req[q].pc = "loaded")'
        PROVE  /\ req'[q].fetched = "VALID" => sinceOn[req'[q].jwt] <= req'[q].age
               /\ req'[q].fetched \in Refusals => sinceOff[req'[q].jwt] <= req'[q].age
    <3>1. CASE q = p
      BY <1>1, <1>3, <1>6, <3>1 DEF Recent, TypeOK
    <3>2. CASE q # p
      BY <1>1, <2>1, <3>2 DEF Recent, TypeOK, LoadsRecent
    <3>3. QED
      BY <3>1, <3>2
  <2>2. QED
    BY <1>2, <2>1 DEF LoadsRecent, Still
<1>8. EntriesRecent'
  BY <1>2 DEF Recent, EntriesRecent, Still
<1>9. QED
  BY <1>5, <1>7, <1>8, <1>2, StillKeeps DEF Recent

LEMMA StoreRecent == ASSUME Recent, NEW p \in Requests, Store(p) PROVE Recent'
<1>1. PICK j \in JwtIds, n \in 0 .. MaxLoad, f \in Fetched :
        req[p] = [pc |-> "loaded", jwt |-> j, age |-> n, fetched |-> f]
  BY DEF Recent, TypeOK, Store, Free, Loading, Loaded, Answered
<1>2. /\ cache' = [cache EXCEPT ![j] = [status |-> f, age |-> 0]]
      /\ req' = [req EXCEPT ![p] = [pc |-> "answered", jwt |-> j,
                                    status |-> RequestStatus(f)]]
      /\ Still
  BY <1>1 DEF Store, Still
<1>3. TypeOK'
  <2>1. [status |-> f, age |-> 0] \in Entry
    BY DEF Entry
  <2>2. [pc |-> "answered", jwt |-> j, status |-> RequestStatus(f)] \in Answered
    BY RequestStatusOf DEF Answered
  <2>3. QED
    BY <1>2, <2>1, <2>2, StillKeeps DEF Recent, TypeOK
<1>4. LoadsRecent'
  BY <1>2 DEF Recent, TypeOK, LoadsRecent, Still
<1>5. EntriesRecent'
  <2>1. /\ f = "VALID" => sinceOn[j] <= MaxLoad
        /\ f \in Refusals => sinceOff[j] <= MaxLoad
    BY <1>1 DEF Recent, TypeOK, LoadsRecent, Horizon, Lag
  <2>2. ASSUME NEW k \in JwtIds
        PROVE  /\ cache'[k].status = "VALID" => sinceOn[k] <= MaxLoad + cache'[k].age
               /\ cache'[k].status \in Refusals => sinceOff[k] <= MaxLoad + cache'[k].age
    <3>1. CASE k = j
      BY <1>2, <2>1, <3>1 DEF Recent, TypeOK
    <3>2. CASE k # j
      BY <1>2, <3>2 DEF Recent, TypeOK, EntriesRecent
    <3>3. QED
      BY <3>1, <3>2
  <2>3. QED
    BY <1>2, <2>2 DEF EntriesRecent, Still
<1>6. QED
  BY <1>2, <1>3, <1>4, <1>5, StillKeeps DEF Recent

LEMMA EvictRecent == ASSUME Recent, NEW j \in JwtIds, Evict(j) PROVE Recent'
<1>1. Still /\ UNCHANGED req /\ cache' = [cache EXCEPT ![j] = Nothing]
  BY DEF Evict, Still
<1>2. TypeOK'
  BY <1>1, StillKeeps DEF Recent, TypeOK
<1>3. LoadsRecent'
  BY <1>1 DEF Recent, LoadsRecent, Still
<1>4. EntriesRecent'
  BY <1>1 DEF Recent, TypeOK, EntriesRecent, Still, Nothing, Refusals
<1>5. QED
  BY <1>1, <1>2, <1>3, <1>4, StillKeeps DEF Recent

(***************************************************************************)
(* Steps of the database: the counters only go down.                       *)
(***************************************************************************)
LEMMA NoteRecent ==
    ASSUME Recent, LifeTypeOK', IdNamesOne', Note,
           \/ UNCHANGED cache
           \/ \E k : cache' = Invalidated(k),
           \/ UNCHANGED req
           \/ \E p \in Requests : req' = [req EXCEPT ![p] = Free]
    PROVE  Recent'
<1>1. \A j \in JwtIds :
        /\ sinceOn'[j] \in 0 .. Horizon /\ sinceOn'[j] <= sinceOn[j]
        /\ sinceOff'[j] \in 0 .. Horizon /\ sinceOff'[j] <= sinceOff[j]
  BY Bounds DEF Recent, TypeOK, Note
<1>2. \A j \in JwtIds : cache'[j] = cache[j] \/ cache'[j] = Nothing
  BY DEF Invalidated
<1>3. \A p \in Requests : req'[p] = req[p] \/ req'[p] = Free
  BY DEF Recent, TypeOK
<1>4. TypeOK'
  <2>1. cache' \in [JwtIds -> {Nothing} \cup Entry]
    BY <1>2 DEF Recent, TypeOK, Invalidated
  <2>2. req' \in [Requests -> {Free} \cup Loading \cup Loaded \cup Answered]
    BY <1>3 DEF Recent, TypeOK
  <2>3. /\ sinceOn' \in [JwtIds -> 0 .. Horizon]
        /\ sinceOff' \in [JwtIds -> 0 .. Horizon]
    BY <1>1 DEF Note
  <2>4. QED
    BY <2>1, <2>2, <2>3 DEF TypeOK, Horizon, Lag
<1>5. CountersSound'
  BY DEF Note, CountersSound
<1>6. LoadsRecent'
  <2>1. ASSUME NEW p \in Requests, req'[p].pc = "loaded"
        PROVE  /\ req'[p] = req[p]
               /\ req[p].jwt \in JwtIds /\ req[p].age \in Nat
    BY <1>3, <2>1 DEF Recent, TypeOK, Free, Loading, Loaded, Answered
  <2>2. QED
    BY <1>1, <2>1 DEF Recent, TypeOK, LoadsRecent
<1>7. EntriesRecent'
  <2>1. ASSUME NEW j \in JwtIds, cache'[j] # Nothing
        PROVE  cache'[j] = cache[j] /\ cache[j].age \in Nat
    BY <1>2, <2>1 DEF Recent, TypeOK, Entry
  <2>2. QED
    BY <1>1, <2>1 DEF Recent, TypeOK, EntriesRecent, Nothing, Refusals
<1>8. QED
  BY <1>4, <1>5, <1>6, <1>7 DEF Recent

\* A step of SessionLife keeps its types and never hands an id out twice.
LEMMA LifeKeeps ==
    ASSUME LifeTypeOK, IdNamesOne, LifeNext
    PROVE  LifeTypeOK' /\ IdNamesOne'
<1>1. ASSUME NEW u \in Mcusers, NEW s \in {"ACTIVE", "INACTIVE"},
             Add(u, s) \/ SetStatus(u, s)
      PROVE  LifeTypeOK' /\ IdNamesOne'
  BY <1>1 DEF Add, SetStatus, LifeTypeOK, IdNamesOne, AccountStates
<1>2. ASSUME NEW u \in Mcusers, Remove(u) PROVE LifeTypeOK' /\ IdNamesOne'
  BY <1>2 DEF Remove, LifeTypeOK, IdNamesOne, AccountStates
<1>3. ASSUME NEW u \in Mcusers, NEW j \in JwtIds, Issue(u, j)
      PROVE  LifeTypeOK' /\ IdNamesOne'
  BY <1>3 DEF Issue, LifeTypeOK, IdNamesOne
<1>4. ASSUME NEW S \in SUBSET issued, Lapse(S) PROVE LifeTypeOK' /\ IdNamesOne'
  BY <1>4 DEF Lapse, LifeTypeOK, IdNamesOne
<1>5. ASSUME NEW u \in Mcusers, NEW S \in SUBSET issued, Close(u, S)
      PROVE  LifeTypeOK' /\ IdNamesOne'
  BY <1>5 DEF Close, LifeTypeOK, IdNamesOne
<1>6. QED
  BY <1>1, <1>2, <1>3, <1>4, <1>5 DEF LifeNext

LEMMA DatabaseRecent == ASSUME Recent, Database PROVE Recent'
BY LifeKeeps, NoteRecent DEF Database, Recent, TypeOK

LEMMA LogoutRecent ==
    ASSUME Recent, NEW p \in Requests, NEW t \in issued, Logout(p, t) PROVE Recent'
<1>1. LifeTypeOK' /\ IdNamesOne'
  BY DEF Logout, Close, Recent, TypeOK, LifeTypeOK, IdNamesOne
<1>2. QED
  BY <1>1, NoteRecent DEF Logout

LEMMA InvalidateRecent ==
    ASSUME Recent, NEW p \in Requests, NEW u \in Mcusers, InvalidateJwtsFor(p, u)
    PROVE  Recent'
<1>1. LifeTypeOK' /\ IdNamesOne'
  BY DEF InvalidateJwtsFor, Close, Recent, TypeOK, LifeTypeOK, IdNamesOne
<1>2. QED
  BY <1>1, NoteRecent DEF InvalidateJwtsFor

(***************************************************************************)
(* Time: entries and loads age as fast as the counters.                    *)
(***************************************************************************)
LEMMA AgedOf ==
    ASSUME NEW entry \in {Nothing} \cup Entry
    PROVE  \/ Aged(entry) = Nothing
           \/ /\ entry \in Entry /\ Aged(entry) \in Entry
              /\ Aged(entry).status = entry.status
              /\ Aged(entry).age = entry.age + 1
BY DEF Aged, Entry, Nothing

LEMMA OlderRequest ==
    ASSUME NEW r \in Loading \cup Loaded, NEW o, o = [r EXCEPT !.age = @ + 1],
           r.age < MaxLoad
    PROVE  /\ o \in Loading \cup Loaded
           /\ o.pc = r.pc /\ o.jwt = r.jwt /\ o.age = r.age + 1
           /\ r.pc = "loaded" => r \in Loaded /\ o.fetched = r.fetched
           /\ r.jwt \in JwtIds /\ r.age \in Nat
<1>1. CASE r \in Loading
  <2>1. o = [pc |-> r.pc, jwt |-> r.jwt, age |-> r.age + 1]
    BY <1>1 DEF Loading
  <2>2. QED
    BY <1>1, <2>1 DEF Loading
<1>2. CASE r \in Loaded
  <2>1. o = [pc |-> r.pc, jwt |-> r.jwt, age |-> r.age + 1, fetched |-> r.fetched]
    BY <1>2 DEF Loaded
  <2>2. QED
    BY <1>2, <2>1 DEF Loaded
<1>3. QED
  BY <1>1, <1>2

LEMMA TickRecent == ASSUME Recent, Tick PROVE Recent'
<1>1. (LifeTypeOK /\ IdNamesOne)' /\ \A j : InForce(j)' = InForce(j)
  BY DEF Tick, lifeVars, Recent, TypeOK, LifeTypeOK, IdNamesOne, InForce, Accepted
<1>2. \A j \in JwtIds :
        /\ sinceOn'[j] \in 0 .. Horizon /\ sinceOn'[j] <= sinceOn[j] + 1
        /\ sinceOff'[j] \in 0 .. Horizon /\ sinceOff'[j] <= sinceOff[j] + 1
  BY Bounds DEF Tick, Recent, TypeOK, AtMost
<1>3. \A p \in Requests :
        IF req[p].pc \in {"loading", "loaded"}
        THEN /\ req[p] \in Loading \cup Loaded
             /\ req'[p] = [req[p] EXCEPT !.age = @ + 1] /\ req[p].age < MaxLoad
        ELSE req'[p] = req[p]
  <2>1. \A p \in Requests : req[p].pc \in {"loading", "loaded"} =>
            req[p] \in Loading \cup Loaded
    BY DEF Recent, TypeOK, Free, Answered
  <2>2. QED
    BY <2>1 DEF Tick
<1>4. TypeOK'
  <2>1. cache' \in [JwtIds -> {Nothing} \cup Entry]
    BY AgedOf DEF Tick, Recent, TypeOK
  <2>2. ASSUME NEW p \in Requests
        PROVE  req'[p] \in {Free} \cup Loading \cup Loaded \cup Answered
    <3>1. CASE req[p].pc \in {"loading", "loaded"}
      BY <1>3, <3>1, OlderRequest
    <3>2. CASE req[p].pc \notin {"loading", "loaded"}
      BY <1>3, <3>2 DEF Recent, TypeOK
    <3>3. QED
      BY <3>1, <3>2
  <2>3. req' \in [Requests -> {Free} \cup Loading \cup Loaded \cup Answered]
    BY <2>2 DEF Tick
  <2>4. /\ sinceOn' \in [JwtIds -> 0 .. Horizon]
        /\ sinceOff' \in [JwtIds -> 0 .. Horizon]
    BY <1>2 DEF Tick
  <2>5. QED
    BY <1>1, <2>1, <2>3, <2>4 DEF TypeOK, Horizon, Lag
<1>5. CountersSound'
  BY <1>1 DEF Tick, CountersSound
<1>6. LoadsRecent'
  <2>1. ASSUME NEW p \in Requests, req'[p].pc = "loaded"
        PROVE  /\ req[p].pc = "loaded" /\ req[p].jwt \in JwtIds /\ req[p].age \in Nat
               /\ req'[p].jwt = req[p].jwt /\ req'[p].fetched = req[p].fetched
               /\ req'[p].age = req[p].age + 1
    <3>1. req[p].pc \in {"loading", "loaded"}
      BY <1>3, <2>1
    <3>2. QED
      BY <1>3, <2>1, <3>1, OlderRequest
  <2>2. QED
    BY <1>2, <2>1 DEF Recent, TypeOK, LoadsRecent
<1>7. EntriesRecent'
  <2>1. ASSUME NEW j \in JwtIds, cache'[j] # Nothing
        PROVE  /\ cache[j].age \in Nat /\ cache'[j].age = cache[j].age + 1
               /\ cache'[j].status = cache[j].status
    <3>1. cache'[j] = Aged(cache[j])
      BY DEF Tick
    <3>2. QED
      BY <2>1, <3>1, AgedOf DEF Recent, TypeOK, Entry
  <2>2. QED
    BY <1>2, <2>1 DEF Recent, TypeOK, EntriesRecent, Nothing, Refusals
<1>8. QED
  BY <1>1, <1>4, <1>5, <1>6, <1>7 DEF Recent

LEMMA NextRecent == Recent /\ [Next]_vars => Recent'
<1> SUFFICES ASSUME Recent, [Next]_vars PROVE Recent'
  OBVIOUS
<1>1. CASE UNCHANGED vars
  <2>1. Still /\ UNCHANGED <<cache, req>>
    BY <1>1 DEF vars, Still
  <2>2. QED
    BY <2>1, StillKeeps DEF Recent, TypeOK, LoadsRecent, EntriesRecent, Still
<1>2. CASE Tick
  BY <1>2, TickRecent
<1>3. CASE Database
  BY <1>3, DatabaseRecent
<1>4. CASE \E p \in Requests : Serve(p)
  BY <1>4, ArriveRecent, QueryRecent, StoreRecent, FinishRecent, LogoutRecent, InvalidateRecent
     DEF Serve
<1>5. CASE \E j \in JwtIds : Evict(j)
  BY <1>5, EvictRecent
<1>6. QED
  BY <1>1, <1>2, <1>3, <1>4, <1>5 DEF Next

(***************************************************************************)
(* One loader to a key.                                                    *)
(***************************************************************************)
Busy(p) == req[p].pc \in {"loading", "loaded"}

\* Requests keep their jwt while busy, and no key gets an entry while one is.
LEMMA StepOneLoader ==
    ASSUME Recent, OneLoader,
           \A p \in Requests : Busy(p)' => Busy(p) /\ req'[p].jwt = req[p].jwt,
           \A p \in Requests : Busy(p)' => cache'[req[p].jwt] = Nothing
    PROVE  OneLoader'
BY DEF OneLoader, Busy

LEMMA BusyJwt == ASSUME Recent, NEW p \in Requests, Busy(p) PROVE req[p].jwt \in JwtIds
BY DEF Busy, Recent, TypeOK, Free, Loading, Loaded, Answered

LEMMA ServeOneLoader ==
    ASSUME Recent, OneLoader, NEW p \in Requests, Serve(p)
    PROVE  OneLoader'
<1>1. ASSUME NEW t \in issued, ArriveExpired(p, t) \/ ArriveHit(p, t) PROVE OneLoader'
  BY <1>1, StepOneLoader DEF ArriveExpired, ArriveHit, Recent, TypeOK, OneLoader, Busy
<1>2. ASSUME NEW t \in issued, ArriveMiss(p, t) PROVE OneLoader'
  BY <1>2 DEF ArriveMiss, BeingLoaded, Recent, TypeOK, OneLoader
<1>3. ASSUME Query(p) PROVE OneLoader'
  BY <1>3, StepOneLoader DEF Query, Recent, TypeOK, OneLoader, Busy
<1>4. ASSUME Store(p) PROVE OneLoader'
  <2>1. \A q \in Requests : Busy(q)' => q # p /\ req'[q] = req[q]
    BY <1>4 DEF Store, Busy, Recent, TypeOK
  <2>2. \A q \in Requests : Busy(q)' => req[q].jwt \in JwtIds /\ req[q].jwt # req[p].jwt
    BY <1>4, <2>1, BusyJwt DEF Busy, OneLoader, Store
  <2>3. \A q \in Requests : Busy(q)' => cache'[req[q].jwt] = Nothing
    BY <1>4, <2>1, <2>2 DEF Store, Busy, Recent, TypeOK, OneLoader
  <2>4. QED
    BY <2>1, <2>3, StepOneLoader DEF Busy
<1>5. ASSUME Finish(p) PROVE OneLoader'
  BY <1>5, StepOneLoader DEF Finish, Free, Recent, TypeOK, OneLoader, Busy
<1>6. ASSUME NEW t \in issued, Logout(p, t) PROVE OneLoader'
  BY <1>6, StepOneLoader DEF Logout, Free, Recent, TypeOK, OneLoader, Busy
<1>7. ASSUME NEW u \in Mcusers, InvalidateJwtsFor(p, u) PROVE OneLoader'
  <2>1. \A q \in Requests : Busy(q)' => Busy(q) /\ req'[q] = req[q]
    BY <1>7 DEF InvalidateJwtsFor, Free, Busy, Recent, TypeOK
  <2>2. \A j \in JwtIds : cache[j] = Nothing => cache'[j] = Nothing
    BY <1>7 DEF InvalidateJwtsFor, Invalidated
  <2>3. QED
    BY <2>1, <2>2, BusyJwt, StepOneLoader DEF OneLoader, Busy
<1>8. QED
  BY <1>1, <1>2, <1>3, <1>4, <1>5, <1>6, <1>7 DEF Serve

LEMMA NextOneLoader == Recent /\ OneLoader /\ [Next]_vars => OneLoader'
<1> SUFFICES ASSUME Recent, OneLoader, [Next]_vars PROVE OneLoader'
  OBVIOUS
<1>1. CASE UNCHANGED vars \/ Database
  BY <1>1 DEF vars, Database, OneLoader
<1>2. CASE Tick
  <2>1. \A q \in Requests : Busy(q)' => Busy(q) /\ req'[q].jwt = req[q].jwt
    <3>1. ASSUME NEW q \in Requests, Busy(q)
          PROVE  req[q] \in Loading \cup Loaded /\ req'[q] = [req[q] EXCEPT !.age = @ + 1]
                 /\ req[q].age < MaxLoad
      BY <1>2, <3>1 DEF Tick, Busy, Recent, TypeOK, Free, Answered
    <3>2. ASSUME NEW q \in Requests, ~Busy(q) PROVE req'[q] = req[q]
      BY <1>2, <3>2 DEF Tick, Busy
    <3>3. QED
      BY <3>1, <3>2, OlderRequest DEF Busy
  <2>2. \A j \in JwtIds : cache[j] = Nothing => cache'[j] = Nothing
    BY <1>2 DEF Tick, Aged
  <2>3. QED
    BY <2>1, <2>2, BusyJwt, StepOneLoader DEF OneLoader, Busy
<1>3. CASE \E p \in Requests : Serve(p)
  BY <1>3, ServeOneLoader
<1>4. CASE \E j \in JwtIds : Evict(j)
  <2>1. UNCHANGED req /\ \A j \in JwtIds : cache[j] = Nothing => cache'[j] = Nothing
    BY <1>4 DEF Evict, Recent, TypeOK
  <2>2. QED
    BY <2>1, BusyJwt, StepOneLoader DEF OneLoader, Busy
<1>5. QED
  BY <1>1, <1>2, <1>3, <1>4 DEF Next

\* Whatever is loaded or cached was true recently, and a key has one loader.
THEOREM CacheIsRecent == Spec => []IInv
<1>1. Init => OneLoader
  BY DEF Init, OneLoader, Free
<1>2. QED
  BY <1>1, InitRecent, NextRecent, NextOneLoader, PTL DEF Spec, IInv

(***************************************************************************)
(* The two bounds.                                                         *)
(***************************************************************************)

\* An answer comes out of the cache or out of the loader, and the database
\* and the counters stand still as it is given.
LEMMA AnswerComesFrom ==
    ASSUME Recent, [Next]_vars, NEW p \in Requests, NEW a \in {"VALID", "BLOCKED"},
           Answers(p, a)
    PROVE  /\ Still
           /\ \/ \E t \in issued : ArriveHit(p, t)
              \/ Store(p)
<1>1. req'[p] # req[p] /\ req'[p] # Free
  BY DEF Answers, Free
<1>2. PICK q \in Requests : Serve(q)
  <2>1. ~ Tick
    BY <1>1 DEF Tick, Answers, Recent, TypeOK, Free, Loading, Loaded, Answered
  <2>2. QED
    BY <1>1, <2>1 DEF Next, vars, Database, Evict
<1>3. q = p
  BY <1>1, <1>2 DEF Serve, ArriveExpired, ArriveHit, ArriveMiss, Query, Store,
     Finish, Logout, InvalidateJwtsFor, Recent, TypeOK
<1>4. /\ ~ \E t \in issued : ArriveExpired(p, t) \/ ArriveMiss(p, t) \/ Logout(p, t)
      /\ ~ Query(p) /\ ~ Finish(p)
      /\ ~ \E u \in Mcusers : InvalidateJwtsFor(p, u)
  <2>1. ASSUME NEW t \in issued, ArriveExpired(p, t) \/ ArriveMiss(p, t) PROVE FALSE
    BY <2>1 DEF ArriveExpired, ArriveMiss, Answers, Recent, TypeOK
  <2>2. ~ Query(p)
    BY DEF Query, Answers, Recent, TypeOK
  <2>3. ASSUME NEW t \in issued, Logout(p, t) PROVE FALSE
    BY <2>3 DEF Logout, Answers
  <2>4. ~ Finish(p) /\ ~ \E u \in Mcusers : InvalidateJwtsFor(p, u)
    BY DEF Finish, InvalidateJwtsFor, Answers
  <2>5. QED
    BY <2>1, <2>2, <2>3, <2>4
<1>5. QED
  BY <1>2, <1>3, <1>4 DEF Serve, ArriveHit, Store, Still

\* What an answer rests on was true at most Lag ticks ago.
LEMMA AnswerIsRecent ==
    ASSUME Recent, [Next]_vars, NEW p \in Requests
    PROVE  /\ Answers(p, "VALID") => sinceOn[req'[p].jwt] <= Lag
           /\ Answers(p, "BLOCKED") => sinceOff[req'[p].jwt] <= Lag
<1> SUFFICES ASSUME NEW a \in {"VALID", "BLOCKED"}, Answers(p, a)
             PROVE  /\ a = "VALID" => sinceOn[req'[p].jwt] <= Lag
                    /\ a = "BLOCKED" => sinceOff[req'[p].jwt] <= Lag
  OBVIOUS
<1>1. req'[p].status = a
  BY DEF Answers
<1>2. CASE \E t \in issued : ArriveHit(p, t)
  <2>1. PICK t \in issued : ArriveHit(p, t)
    BY <1>2
  <2>2. t[2] \in JwtIds
    BY TokenParts DEF Recent, TypeOK
  <2>3. cache[t[2]] \in Entry
    BY <2>1, <2>2 DEF ArriveHit, Recent, TypeOK
  <2>4. /\ req'[p].jwt = t[2]
        /\ a = RequestStatus(cache[t[2]].status)
    BY <1>1, <2>1 DEF ArriveHit, Recent, TypeOK
  <2>5. /\ a = "VALID" => cache[t[2]].status = "VALID"
        /\ a = "BLOCKED" => cache[t[2]].status \in Refusals
        /\ cache[t[2]].age \in 0 .. Ttl - 1
    BY <2>3, <2>4, RequestStatusOf DEF Entry
  <2>6. QED
    BY <2>2, <2>4, <2>5 DEF Recent, TypeOK, EntriesRecent, Lag, Horizon
<1>3. CASE Store(p)
  <2>1. req[p] \in Loaded
    BY <1>3 DEF Store, Recent, TypeOK, Free, Loading, Answered
  <2>2. /\ req'[p].jwt = req[p].jwt
        /\ a = RequestStatus(req[p].fetched)
    BY <1>1, <1>3 DEF Store, Recent, TypeOK
  <2>3. /\ a = "VALID" => req[p].fetched = "VALID"
        /\ a = "BLOCKED" => req[p].fetched \in Refusals
        /\ req[p].age \in 0 .. MaxLoad /\ req[p].jwt \in JwtIds
    BY <2>1, <2>2, RequestStatusOf DEF Loaded
  <2>4. /\ a = "VALID" => sinceOn[req[p].jwt] <= req[p].age
        /\ a = "BLOCKED" => sinceOff[req[p].jwt] <= req[p].age
    BY <1>3, <2>3 DEF Store, Recent, LoadsRecent
  <2>5. QED
    BY <2>2, <2>3, <2>4 DEF Recent, TypeOK, Lag, Horizon
<1>4. QED
  BY <1>2, <1>3, AnswerComesFrom

\* A JWT no longer in force is answered VALID for one query and one time to
\* live at most.
THEOREM StaleAcceptanceBound == Spec => StaleAcceptanceIsBounded
<1>1. IInv /\ [Next]_vars =>
        [\A p \in Requests : Answers(p, "VALID") => sinceOn[req'[p].jwt] <= Lag]_vars
  BY AnswerIsRecent DEF IInv
<1>2. QED
  BY <1>1, CacheIsRecent, PTL DEF Spec, StaleAcceptanceIsBounded

\* A JWT back in force is answered BLOCKED for no longer than that.
THEOREM StaleRefusalBound == Spec => StaleRefusalIsBounded
<1>1. IInv /\ [Next]_vars =>
        [\A p \in Requests : Answers(p, "BLOCKED") => sinceOff[req'[p].jwt] <= Lag]_vars
  BY AnswerIsRecent DEF IInv
<1>2. QED
  BY <1>1, CacheIsRecent, PTL DEF Spec, StaleRefusalIsBounded

(***************************************************************************)
(* A closed JWT refused once is refused from then on.                      *)
(***************************************************************************)

\* Whether a request has been told that the JWT with id j is VALID.
SaysValid(q, j) == req[q].pc = "loaded" /\ req[q].jwt = j /\ req[q].fetched = "VALID"

\* No query made from now on says VALID of a closed JWT.
LEMMA ClosedNotFetched ==
    ASSUME Recent, NEW t \in closed, NEW s \in issued, s[2] = t[2]
    PROVE  BackendStatus(s) # "VALID"
<1>1. t \in issued
  BY DEF Recent, TypeOK, LifeTypeOK
<1>2. s = t
  BY <1>1 DEF Recent, IdNamesOne
<1>3. QED
  BY <1>2 DEF BackendStatus

LEMMA NotHeldStays ==
    ASSUME IInv, [Next]_vars, NEW t \in closed, ~HeldValid(t[2])
    PROVE  ~HeldValid(t[2])'
<1>1. PICK j \in JwtIds : t[2] = j
  BY TokenParts DEF IInv, Recent, TypeOK, LifeTypeOK
<1>2. cache[j].status # "VALID" /\ \A q \in Requests : ~SaysValid(q, j)
  BY <1>1 DEF HeldValid, SaysValid
<1>3. SUFFICES cache'[j].status # "VALID" /\ \A q \in Requests : ~SaysValid(q, j)'
  BY <1>1 DEF HeldValid, SaysValid
<1>4. CASE UNCHANGED vars \/ Database
  BY <1>2, <1>4 DEF vars, Database, SaysValid
<1>5. CASE Tick
  <2>1. cache'[j] = Aged(cache[j]) /\ cache[j] \in {Nothing} \cup Entry
    BY <1>5 DEF Tick, IInv, Recent, TypeOK
  <2>2. cache'[j].status # "VALID"
    BY <1>2, <2>1, AgedOf DEF Nothing
  <2>3. ASSUME NEW q \in Requests, SaysValid(q, j)' PROVE FALSE
    <3>1. CASE Busy(q)
      <4>1. /\ req[q] \in Loading \cup Loaded /\ req[q].age < MaxLoad
            /\ req'[q] = [req[q] EXCEPT !.age = @ + 1]
        BY <1>5, <3>1 DEF Tick, Busy, IInv, Recent, TypeOK, Free, Answered
      <4>2. SaysValid(q, j)
        BY <2>3, <4>1, OlderRequest DEF SaysValid
      <4>3. QED
        BY <1>2, <4>2
    <3>2. CASE ~Busy(q)
      BY <1>5, <2>3, <3>2 DEF Tick, Busy, SaysValid
    <3>3. QED
      BY <3>1, <3>2
  <2>4. QED
    BY <2>2, <2>3
<1>6. CASE \E p \in Requests : Serve(p)
  <2>1. PICK p \in Requests : Serve(p)
    BY <1>6
  <2>2. CASE \E s \in issued : ArriveExpired(p, s) \/ ArriveHit(p, s) \/ ArriveMiss(p, s)
    BY <1>2, <2>2 DEF ArriveExpired, ArriveHit, ArriveMiss, SaysValid, IInv, Recent, TypeOK
  <2>3. CASE Query(p)
    <3>1. PICK s \in issued : \E f \in {BackendStatus(s), "FAIL"} :
            /\ s[2] = req[p].jwt
            /\ req' = [req EXCEPT ![p] = [pc |-> "loaded", jwt |-> s[2],
                                          age |-> req[p].age, fetched |-> f]]
      BY <2>3 DEF Query
    <3>2. s[2] = j => BackendStatus(s) # "VALID"
      BY <1>1, ClosedNotFetched DEF IInv
    <3>3. QED
      BY <1>2, <2>3, <3>1, <3>2 DEF Query, SaysValid, IInv, Recent, TypeOK
  <2>4. CASE Store(p)
    BY <1>2, <2>4 DEF Store, SaysValid, IInv, Recent, TypeOK
  <2>5. CASE Finish(p) \/ \E s \in issued : Logout(p, s)
    <3>1. UNCHANGED cache /\ req' = [req EXCEPT ![p] = Free]
      BY <2>5 DEF Finish, Logout
    <3>2. QED
      BY <1>2, <3>1 DEF Free, SaysValid, IInv, Recent, TypeOK
  <2>6. CASE \E u \in Mcusers : InvalidateJwtsFor(p, u)
    BY <1>2, <2>6 DEF InvalidateJwtsFor, Invalidated, Free, Nothing, SaysValid, IInv, Recent, TypeOK
  <2>7. QED
    BY <2>1, <2>2, <2>3, <2>4, <2>5, <2>6 DEF Serve
<1>7. CASE \E k \in JwtIds : Evict(k)
  BY <1>2, <1>7 DEF Evict, Nothing, SaysValid, IInv, Recent, TypeOK
<1>8. QED
  BY <1>4, <1>5, <1>6, <1>7 DEF Next

\* An answer of BLOCKED comes from the one source there is.
LEMMA BlockedNotHeld ==
    ASSUME IInv, [Next]_vars, NEW p \in Requests, Answers(p, "BLOCKED"),
           NEW j \in JwtIds, req'[p].jwt = j
    PROVE  ~HeldValid(j)'
<1>1. req'[p].status = "BLOCKED" /\ Recent
  BY DEF Answers, IInv
<1>2. CASE \E t \in issued : ArriveHit(p, t)
  <2>1. PICK t \in issued : ArriveHit(p, t)
    BY <1>2
  <2>2. t[2] = j /\ cache[j] # Nothing /\ UNCHANGED cache
    BY <2>1 DEF ArriveHit, Recent, TypeOK, IInv
  <2>3. cache[j] \in Entry /\ RequestStatus(cache[j].status) = "BLOCKED"
    BY <1>1, <2>1, <2>2 DEF ArriveHit, Recent, TypeOK
  <2>4. cache[j].status # "VALID"
    BY <2>3, RequestStatusOf DEF Entry
  <2>5. \A q \in Requests : ~SaysValid(q, j)
    BY <2>2 DEF SaysValid, IInv, OneLoader
  <2>6. \A q \in Requests : ~SaysValid(q, j)'
    BY <1>1, <2>1, <2>5 DEF ArriveHit, SaysValid, Recent, TypeOK
  <2>7. QED
    BY <2>2, <2>4, <2>6 DEF HeldValid, SaysValid
<1>3. CASE Store(p)
  <2>1. req[p] \in Loaded
    BY <1>1, <1>3 DEF Store, Recent, TypeOK, Free, Loading, Answered
  <2>2. req[p].jwt = j /\ RequestStatus(req[p].fetched) = "BLOCKED"
    BY <1>1, <1>3 DEF Store, Recent, TypeOK
  <2>3. req[p].fetched # "VALID"
    BY <2>1, <2>2, RequestStatusOf DEF Loaded
  <2>4. cache'[j].status = req[p].fetched
    BY <1>1, <1>3, <2>2 DEF Store, Recent, TypeOK
  <2>5. \A q \in Requests : ~SaysValid(q, j)'
    <3>1. ASSUME NEW q \in Requests, SaysValid(q, j)' PROVE FALSE
      <4>1. q # p /\ SaysValid(q, j)
        BY <1>1, <1>3, <3>1 DEF Store, SaysValid, Recent, TypeOK
      <4>2. QED
        BY <1>3, <2>2, <4>1 DEF Store, SaysValid, IInv, OneLoader
    <3>2. QED
      BY <3>1
  <2>6. QED
    BY <2>3, <2>4, <2>5 DEF HeldValid, SaysValid
<1>4. QED
  BY <1>1, <1>2, <1>3, AnswerComesFrom

\* A closed JWT answered BLOCKED is never answered VALID again, whatever
\* queries were under way when it was closed.
THEOREM RefusalFinality == Spec => RefusalIsFinal
<1>1. ASSUME IInv, [Next]_vars, NEW t \in closed,
             \/ ~HeldValid(t[2])
             \/ \E p \in Requests : Answers(p, "BLOCKED") /\ req'[p].jwt = t[2]
      PROVE  ~HeldValid(t[2])'
  <2>1. t[2] \in JwtIds
    BY <1>1, TokenParts DEF IInv, Recent, TypeOK, LifeTypeOK
  <2>2. CASE \E p \in Requests : Answers(p, "BLOCKED") /\ req'[p].jwt = t[2]
    <3>1. PICK p \in Requests : Answers(p, "BLOCKED") /\ req'[p].jwt = t[2]
      BY <2>2
    <3>2. PICK j \in JwtIds : t[2] = j
      BY <2>1
    <3>3. ~HeldValid(j)'
      BY <1>1, <3>1, <3>2, BlockedNotHeld
    <3>4. QED
      BY <3>2, <3>3 DEF HeldValid
  <2>3. QED
    BY <1>1, <2>2, NotHeldStays
<1>2. IInv /\ [Next]_vars =>
        [\A t \in closed :
            (\/ ~HeldValid(t[2])
             \/ \E p \in Requests : Answers(p, "BLOCKED") /\ req'[p].jwt = t[2])
                => ~HeldValid(t[2])']_vars
  BY <1>1
<1>3. QED
  BY <1>2, CacheIsRecent, PTL DEF Spec, RefusalIsFinal

(***************************************************************************)
(* Once out of force for longer than the lag, a closed JWT is done with.   *)
(***************************************************************************)
LEMMA ClosedStaysClosed ==
    ASSUME Recent, [Next]_vars
    PROVE  closed \subseteq closed'
<1>1. LifeNext => closed \subseteq closed'
  BY DEF LifeNext, Add, SetStatus, Remove, Issue, Lapse, Close
<1>2. QED
  BY <1>1 DEF Next, vars, lifeVars, Database, Tick, Serve, ArriveExpired, ArriveHit,
     ArriveMiss, Query, Store, Finish, Logout, InvalidateJwtsFor, Evict, Close

LEMMA ClosedNotInForce ==
    Recent => \A t \in closed : ~InForce(t[2])
BY DEF Recent, TypeOK, LifeTypeOK, IdNamesOne, InForce, Accepted

\* A closed JWT that has been out of force for longer than Lag ticks is never
\* answered VALID again: what ClosedIsRefusedForGood says of the long run holds
\* from a moment that is known, and needs no fairness.
THEOREM ClosedForGood ==
    ASSUME NEW u \in Mcusers, NEW j \in JwtIds
    PROVE  Spec => [](<<u, j>> \in closed /\ sinceOn[j] > Lag =>
                         [][\A p \in Requests :
                               Answers(p, "VALID") => req'[p].jwt # j]_vars)
<1> DEFINE Over == <<u, j>> \in closed /\ sinceOn[j] > Lag
<1>1. (Recent => \A t \in closed : ~InForce(t[2]))'
  BY ClosedNotInForce, PTL
<1>2. IInv /\ IInv' /\ Over /\ [Next]_vars => Over'
  <2> SUFFICES ASSUME IInv, IInv', Over, [Next]_vars PROVE Over'
    OBVIOUS
  <2>1. <<u, j>> \in closed'
    BY ClosedStaysClosed DEF IInv
  <2>2. ~InForce(j) /\ ~InForce(j)'
    <3>1. <<u, j>>[2] = j
      OBVIOUS
    <3>2. ~InForce(<<u, j>>[2]) /\ ~InForce(<<u, j>>[2])'
      BY <1>1, <2>1, ClosedNotInForce DEF IInv
    <3>3. QED
      BY <3>1, <3>2
  <2>3. sinceOn[j] \in Nat /\ sinceOn[j] = Horizon
    BY Bounds DEF IInv, Recent, TypeOK
  <2>4. Note => sinceOn'[j] = sinceOn[j]
    BY <2>2 DEF Note
  <2>5. Tick => sinceOn'[j] = Horizon
    BY <2>2, <2>3, Bounds DEF Tick, AtMost
  <2>6. sinceOn'[j] = Horizon
    BY <2>3, <2>4, <2>5 DEF Next, vars, Database, Serve, ArriveExpired, ArriveHit,
       ArriveMiss, Query, Store, Finish, Logout, InvalidateJwtsFor, Evict
  <2>7. QED
    BY <2>1, <2>6, Bounds DEF Horizon, Lag
<1>3. IInv /\ Over /\ [Next]_vars =>
        [\A p \in Requests : Answers(p, "VALID") => req'[p].jwt # j]_vars
  BY AnswerIsRecent, Bounds DEF IInv, Recent, TypeOK
<1>4. QED
  BY <1>2, <1>3, CacheIsRecent, PTL DEF Spec

\* The variables keep the types TypeOK gives them.
THEOREM TypeCorrect == Spec => []TypeOK
<1>1. Recent => TypeOK
  BY DEF Recent
<1>2. QED
  BY <1>1, InitRecent, NextRecent, PTL DEF Spec
=============================================================================
