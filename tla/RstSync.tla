------------------------------ MODULE RstSync ------------------------------
(***************************************************************************)
(* The request sync token (RST).  CsrfGuardHandler answers a POST only     *)
(* when the rst cookie and the rst header it carries are the same, keeps   *)
(* nothing itself, and hands out the next token with every answer: once as *)
(* a cookie, once as a header.  The tabs of a browser share the cookie and *)
(* each hold a header of their own.                                        *)
(*                                                                         *)
(* Tabs run the GraphiQL page of this repository.  Scripts stand for the   *)
(* clients CsrfGuardHandler's comment on resynchronising has in mind: they *)
(* have a cookie jar each and send no header when they have no token.      *)
(***************************************************************************)
EXTENDS Naturals, FiniteSets

CONSTANTS
    Tabs,       \* GraphiQL tabs of one browser
    Scripts,    \* other API clients
    Browser,    \* the browser's cookie jar
    Tokens,     \* values of genRst; in the model one not in use is fresh
    MaxSent     \* bound on the requests a client has under way

Clients == Tabs \cup Scripts
Jars == {Browser} \cup Scripts

ASSUME ClientsAssumption == Tabs \cap Scripts = {} /\ Browser \notin Scripts
ASSUME MaxSentAssumption == MaxSent \in Nat \ {0}

VARIABLES
    jar,        \* jar[b]: the rst cookie, or None
    rst,        \* rst[c]: the token the client will send as a header
    sent,       \* the requests on their way to the server
    replies,    \* the responses on their way back, or taken by the browser and
                \* not yet read by the page
    disturbed   \* history: whether something came between the client's last
                \* token and its cookie jar

vars == <<jar, rst, sent, replies, disturbed>>

-----------------------------------------------------------------------------
None == "none"

\* response.headers.get('rst') of a response without one, as a header again.
NullText == "null"

ASSUME TokensAssumption == Tokens \cap {None, NullText} = {}

Headers == Tokens \cup {None, NullText}

JarOf(c) == IF c \in Tabs THEN Browser ELSE c

Request ==
    [client : Clients, slot : 1 .. MaxSent, op : {"load", "query", "logout"},
     cookie : Tokens \cup {None}, header : Headers]

\* rst is the header (or page variable) of the response.  set tells what its
\* Set-Cookie headers come to: the token, expired (""), or nothing.  at tells
\* whether the browser has taken them, and late, which is history, that
\* something has come to the jar since.
Reply ==
    [client : Clients, slot : 1 .. MaxSent,
     rst : Tokens \cup {None}, set : {"token", "expired", "nothing"},
     at : {"wire", "page", "late"}]

\* The slots of the requests c has under way.
UnderWay(c) == {m.slot : m \in {n \in sent \cup replies : n.client = c}}

Fresh ==
    Tokens \ ({jar[b] : b \in Jars} \cup {rst[c] : c \in Clients}
                \cup {m.cookie : m \in sent} \cup {m.header : m \in sent}
                \cup {m.rst : m \in replies})

Init ==
    /\ jar = [b \in Jars |-> None]
    /\ rst = [c \in Clients |-> None]
    /\ sent = {}
    /\ replies = {}
    /\ disturbed = [c \in Clients |-> TRUE]

-----------------------------------------------------------------------------
(* Clients.                                                                *)

Send(c, op, header) ==
    /\ \E n \in 1 .. MaxSent \ UnderWay(c) :
          sent' = sent \cup {[client |-> c, slot |-> n, op |-> op,
                              cookie |-> jar[JarOf(c)], header |-> header]}
    /\ UNCHANGED <<jar, replies>>

\* GET graphql/index: the page, and its variables, start over once what it
\* had asked for has been answered.
Load(t) ==
    /\ UnderWay(t) = {}
    /\ Send(t, "load", None)
    /\ rst' = [rst EXCEPT ![t] = None]
    /\ disturbed' = [disturbed EXCEPT ![t] = TRUE]

\* graphQLFetcher, in a page that has been loaded; or a script's POST.
Post(c, op) ==
    /\ c \in Tabs => rst[c] # None
    /\ Send(c, op, rst[c])
    /\ UNCHANGED <<rst, disturbed>>

\* The cookie of jar b changes under the replies rs the browser has taken.
Overtaken(b, rs) ==
    {IF m.at = "page" /\ JarOf(m.client) = b THEN [m EXCEPT !.at = "late"] ELSE m :
        m \in rs}

\* A rst cookie reaches its Max-Age.
ExpireCookie(b, token) ==
    /\ jar[b] = token
    /\ jar' = [jar EXCEPT ![b] = None]
    /\ replies' = Overtaken(b, replies)
    /\ disturbed' = [c \in Clients |-> disturbed[c] \/ JarOf(c) = b]
    /\ UNCHANGED <<rst, sent>>

-----------------------------------------------------------------------------
(* CsrfGuardHandler.                                                       *)

Respond(m, token, set) ==
    /\ sent' = sent \ {m}
    /\ replies' = replies \cup {[client |-> m.client, slot |-> m.slot,
                                 rst |-> token, set |-> set, at |-> "wire"]}
    /\ UNCHANGED <<jar, rst, disturbed>>

\* Mutant: a request with no token at all is a bad request like any other.
Reset_Refused(m) ==
    /\ m.op # "load"
    /\ m.cookie = None /\ m.header = None
    /\ Respond(m, None, "nothing")

\* Mutant: a missing cookie is enough, whatever the header.
Reset_CookieOnly(m) ==
    /\ m.op # "load"
    /\ m.cookie = None
    /\ \E token \in Fresh : Respond(m, token, "token")

\* 205: neither token is there, so the client is given both.
Reset(m) ==
    /\ m.op # "load"
    /\ m.cookie = None /\ m.header = None
    /\ \E token \in Fresh : Respond(m, token, "token")

\* 400: one is missing, or they differ.
Refuse(m) ==
    /\ m.op # "load"
    /\ m.cookie # m.header
    /\ Respond(m, None, "nothing")

\* The next token goes out with whatever the handlers downstream answer.
Accept(m) ==
    /\ m.op # "load" => m.cookie # None /\ m.cookie = m.header
    /\ m.op # "logout"
    /\ \E token \in Fresh : Respond(m, token, "token")

\* A mclogout that succeeds expires the rst cookie after the guard set it.
AcceptLogout(m) ==
    /\ m.op = "logout"
    /\ m.cookie # None /\ m.cookie = m.header
    /\ \E token \in Fresh : Respond(m, token, "expired")

Handle(m) == Reset(m) \/ Refuse(m) \/ Accept(m) \/ AcceptLogout(m)

-----------------------------------------------------------------------------
(* Responses.                                                              *)

\* Mutant: the page keeps the token it has when the response has one.
Held_Kept(c, m) ==
    IF rst[c] \in Tokens THEN rst[c] ELSE m.rst

\* rst = response.headers.get('rst'): null, sent as "null", if there is none.
Held(c, m) ==
    IF m.rst = None /\ c \in Tabs THEN NullText ELSE m.rst

\* Mutant: Max-Age is left out, and an empty cookie stays.
Jarred_Empty(b, m) ==
    CASE m.set = "token"   -> m.rst
      [] m.set = "expired" -> ""
      [] m.set = "nothing" -> jar[b]

\* What the Set-Cookie headers leave in the jar, the last one winning.
Jarred(b, m) ==
    CASE m.set = "token"   -> m.rst
      [] m.set = "expired" -> None
      [] m.set = "nothing" -> jar[b]

\* The browser takes the Set-Cookie headers of a response to a tab; the page
\* still has the header it had.
TakeCookies(m) ==
    LET b == JarOf(m.client)
        others == replies \ {m}
    IN
    /\ m.client \in Tabs /\ m.at = "wire"
    /\ jar' = [jar EXCEPT ![b] = Jarred(b, m)]
    /\ replies' = {[m EXCEPT !.at = "page"]}
            \cup IF m.set = "nothing" THEN others ELSE Overtaken(b, others)
    /\ disturbed' = [d \in Clients |->
            disturbed[d] \/ (JarOf(d) = b /\ m.set # "nothing")]
    /\ UNCHANGED <<rst, sent>>

\* The promise of graphQLFetcher resolves (or, after a load, the page's script
\* runs): other fetches and other tabs may have come in between.
ReadHeader(m) ==
    /\ m.at # "wire"
    /\ replies' = replies \ {m}
    /\ rst' = [rst EXCEPT ![m.client] = Held(m.client, m)]
    /\ disturbed' = [disturbed EXCEPT ![m.client] = m.set # "token" \/ m.at = "late"]
    /\ UNCHANGED <<jar, sent>>

\* A script has both at once.
Receive(m) ==
    LET c == m.client IN
    /\ c \in Scripts
    /\ replies' = replies \ {m}
    /\ jar' = [jar EXCEPT ![c] = Jarred(c, m)]
    /\ rst' = [rst EXCEPT ![c] = Held(c, m)]
    /\ disturbed' = [disturbed EXCEPT ![c] = m.set # "token"]
    /\ UNCHANGED sent

Deliver(m) == TakeCookies(m) \/ ReadHeader(m) \/ Receive(m)

Next ==
    \/ \E t \in Tabs : Load(t)
    \/ \E c \in Clients, op \in {"query", "logout"} : Post(c, op)
    \/ \E b \in Jars, token \in Tokens : ExpireCookie(b, token)
    \/ \E m \in sent : Handle(m)
    \/ \E m \in replies : Deliver(m)

Spec == Init /\ [][Next]_vars

\* Requests are served, responses arrive, cookies reach their Max-Age unless
\* they are replaced, and clients keep asking.  Nobody has to reload or log out.
Fairness ==
    /\ \A c \in Clients, n \in 1 .. MaxSent :
          /\ WF_vars(\E m \in sent : m.client = c /\ m.slot = n /\ Handle(m))
          /\ WF_vars(\E m \in replies : m.client = c /\ m.slot = n /\ Deliver(m))
    /\ \A b \in Jars, token \in Tokens : WF_vars(ExpireCookie(b, token))
    /\ \A c \in Clients : WF_vars(Post(c, "query"))

FairSpec == Spec /\ Fairness

-----------------------------------------------------------------------------
(* Properties.                                                             *)

TypeOK ==
    /\ jar \in [Jars -> Tokens \cup {None}]
    /\ rst \in [Clients -> Headers]
    /\ sent \subseteq Request
    /\ replies \subseteq Reply
    /\ disturbed \in [Clients -> BOOLEAN]

Matches(c) == rst[c] \in Tokens /\ rst[c] = jar[JarOf(c)]

\* A client is refused only for a reason: since its last token, its jar was
\* given another (for another tab, or for an answer of its own that it has not
\* read), the cookie expired, or it logged out or was refused.
UndisturbedIsInSync == \A c \in Clients : ~disturbed[c] => Matches(c)

\* A tab that has "null" for a token, and asks and is answered for nothing else.
Stuck(t) ==
    /\ rst[t] = NullText
    /\ \A m \in sent : m.client = t => m.op # "load" /\ m.header = NullText
    /\ \A m \in replies : m.client = t => m.rst = None

\* A refusal gives nothing away: whatever the other tabs do to the cookie they
\* share, a tab without a token gets none until its page is loaded again.
StuckUntilLoaded ==
    [][\A t \in Tabs : Stuck(t) => Stuck(t)' \/ Load(t)]_vars

\* "a way for the clients to sync up and issue a valid subsequent request":
\* a script keeps coming back to a state in which its next request is valid.
ScriptsSyncUp == \A c \in Scripts : []<>Matches(c)

\* The same, for a GraphiQL tab once it has been loaded.
TabsSyncUp == \A t \in Tabs : rst[t] # None ~> Matches(t)

-----------------------------------------------------------------------------
(* The inductive invariant behind UndisturbedIsInSync.                     *)

\* What a page is about to read is what its jar holds, unless it is late.
RepliesSound ==
    \A m \in replies :
        /\ m.set = "token" => m.rst \in Tokens
        /\ m.at # "wire" => m.client \in Tabs
        /\ m.at = "page" /\ m.set = "token" => jar[JarOf(m.client)] = m.rst

IInv == TypeOK /\ RepliesSound /\ UndisturbedIsInSync
=============================================================================
