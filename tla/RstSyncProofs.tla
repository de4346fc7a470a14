---------------------------- MODULE RstSyncProofs ----------------------------
(***************************************************************************)
(* However many tabs, scripts and requests under way: a client is refused  *)
(* only after something came between its token and its cookie.             *)
(***************************************************************************)
EXTENDS RstSync, TLAPS

USE ClientsAssumption, MaxSentAssumption, TokensAssumption DEF Clients, Jars

LEMMA JarOfClient == ASSUME NEW c \in Clients PROVE JarOf(c) \in Jars
BY DEF JarOf

LEMMA InitIInv == Init => IInv
BY DEF Init, IInv, TypeOK, RepliesSound, UndisturbedIsInSync, Headers, Request, Reply

LEMMA SendTypes ==
    ASSUME TypeOK, NEW c \in Clients, NEW op \in {"load", "query", "logout"},
           NEW header \in Headers, Send(c, op, header)
    PROVE  sent' \subseteq Request
<1>1. PICK n \in 1 .. MaxSent :
        sent' = sent \cup {[client |-> c, slot |-> n, op |-> op,
                            cookie |-> jar[JarOf(c)], header |-> header]}
  BY DEF Send
<1>2. jar[JarOf(c)] \in Tokens \cup {None}
  BY JarOfClient DEF TypeOK
<1>3. QED
  BY <1>1, <1>2 DEF TypeOK, Request

LEMMA LoadIInv == ASSUME IInv, NEW t \in Tabs, Load(t) PROVE IInv'
<1>1. Send(t, "load", None)
  BY DEF Load
<1>2. sent' \subseteq Request
  BY <1>1, SendTypes DEF IInv, Headers
<1>3. TypeOK'
  BY <1>1, <1>2 DEF IInv, TypeOK, Load, Send, Headers
<1>4. RepliesSound' /\ UndisturbedIsInSync'
  BY <1>1 DEF IInv, TypeOK, RepliesSound, UndisturbedIsInSync, Matches, Load, Send
<1>5. QED
  BY <1>3, <1>4 DEF IInv

LEMMA PostIInv ==
    ASSUME IInv, NEW c \in Clients, NEW op \in {"query", "logout"}, Post(c, op)
    PROVE  IInv'
<1>1. Send(c, op, rst[c])
  BY DEF Post
<1>2. sent' \subseteq Request
  BY <1>1, SendTypes DEF IInv, TypeOK
<1>3. TypeOK'
  BY <1>1, <1>2 DEF IInv, TypeOK, Post, Send
<1>4. RepliesSound' /\ UndisturbedIsInSync'
  BY <1>1 DEF IInv, RepliesSound, UndisturbedIsInSync, Matches, Post, Send
<1>5. QED
  BY <1>3, <1>4 DEF IInv

\* What becomes of replies when the cookie of jar b changes: they stay, but those
\* of b that the browser has taken are late.
LEMMA OvertakenReplies ==
    ASSUME NEW b, NEW rs \in SUBSET Reply, NEW m \in Overtaken(b, rs)
    PROVE  /\ m \in Reply
           /\ \E n \in rs :
                /\ m.client = n.client /\ m.rst = n.rst /\ m.set = n.set
                /\ m.at = "wire" <=> n.at = "wire"
                /\ m.at = "page" => n.at = "page" /\ JarOf(n.client) # b
<1>1. PICK n \in rs :
        m = IF n.at = "page" /\ JarOf(n.client) = b THEN [n EXCEPT !.at = "late"] ELSE n
  BY DEF Overtaken
<1>2. CASE n.at = "page" /\ JarOf(n.client) = b
  BY <1>1, <1>2 DEF Reply
<1>3. CASE ~(n.at = "page" /\ JarOf(n.client) = b)
  BY <1>1, <1>3
<1>. QED
  BY <1>2, <1>3

LEMMA ExpireIInv ==
    ASSUME IInv, NEW b \in Jars, NEW token \in Tokens, ExpireCookie(b, token)
    PROVE  IInv'
<1>1. TypeOK'
  BY OvertakenReplies DEF IInv, TypeOK, ExpireCookie
<1>2. RepliesSound'
  <2> SUFFICES ASSUME NEW m \in Overtaken(b, replies)
               PROVE  /\ m.set = "token" => m.rst \in Tokens
                      /\ m.at # "wire" => m.client \in Tabs
                      /\ m.at = "page" /\ m.set = "token" => jar'[JarOf(m.client)] = m.rst
    BY DEF RepliesSound, ExpireCookie
  <2>1. PICK n \in replies :
          /\ m.client = n.client /\ m.rst = n.rst /\ m.set = n.set
          /\ m.at = "wire" <=> n.at = "wire"
          /\ m.at = "page" => n.at = "page" /\ JarOf(n.client) # b
    BY OvertakenReplies DEF IInv, TypeOK
  <2>2. JarOf(n.client) # b => jar'[JarOf(n.client)] = jar[JarOf(n.client)]
    <3>1. JarOf(n.client) \in Jars
      BY JarOfClient DEF IInv, TypeOK, Reply
    <3>. QED
      BY <3>1 DEF ExpireCookie, IInv, TypeOK
  <2>. QED
    BY <2>1, <2>2 DEF IInv, RepliesSound
<1>3. UndisturbedIsInSync'
  BY JarOfClient DEF IInv, TypeOK, UndisturbedIsInSync, Matches, ExpireCookie
<1>4. QED
  BY <1>1, <1>2, <1>3 DEF IInv

LEMMA HandleIInv == ASSUME IInv, NEW m \in sent, Handle(m) PROVE IInv'
<1>1. PICK token \in Tokens \cup {None}, set \in {"token", "expired", "nothing"} :
        Respond(m, token, set) /\ (set = "token" => token \in Tokens)
  BY DEF Handle, Reset, Refuse, Accept, AcceptLogout, Fresh
<1>2. [client |-> m.client, slot |-> m.slot, rst |-> token, set |-> set,
       at |-> "wire"] \in Reply
  BY DEF IInv, TypeOK, Request, Reply
<1>3. TypeOK'
  BY <1>1, <1>2 DEF IInv, TypeOK, Respond
<1>4. RepliesSound'
  BY <1>1 DEF IInv, RepliesSound, Respond
<1>5. UndisturbedIsInSync'
  BY <1>1 DEF IInv, UndisturbedIsInSync, Matches, Respond
<1>6. QED
  BY <1>3, <1>4, <1>5 DEF IInv

\* A jar that took a response: nothing, None or the token it carries.
LEMMA JarredTypes ==
    ASSUME IInv, NEW m \in replies, NEW b \in Jars
    PROVE  /\ Jarred(b, m) \in Tokens \cup {None}
           /\ Held(m.client, m) \in Headers
           /\ m.set = "token" =>
                m.rst \in Tokens /\ Jarred(b, m) = m.rst /\ Held(m.client, m) = m.rst
           /\ m.set = "nothing" => Jarred(b, m) = jar[b]
<1>1. m.rst \in Tokens \cup {None} /\ m.set \in {"token", "expired", "nothing"}
  BY DEF IInv, TypeOK, Reply
<1>2. m.set = "token" => m.rst \in Tokens
  BY DEF IInv, RepliesSound
<1>. QED
  BY <1>1, <1>2 DEF Jarred, Held, Headers, IInv, TypeOK

LEMMA TakeIInv == ASSUME IInv, NEW m \in replies, TakeCookies(m) PROVE IInv'
<1> DEFINE b == JarOf(m.client)
           taken == [m EXCEPT !.at = "page"]
           others == replies \ {m}
<1>1. m \in Reply /\ m.client \in Tabs /\ b \in Jars /\ b = Browser
  BY JarOfClient DEF IInv, TypeOK, TakeCookies, JarOf
<1>2. /\ taken \in Reply /\ taken.client = m.client /\ taken.rst = m.rst
      /\ taken.set = m.set /\ taken.at = "page"
  BY <1>1 DEF Reply
<1>3. /\ jar' = [jar EXCEPT ![b] = Jarred(b, m)]
      /\ replies' = {taken} \cup IF m.set = "nothing" THEN others ELSE Overtaken(b, others)
      /\ disturbed' = [d \in Clients |->
              disturbed[d] \/ (JarOf(d) = b /\ m.set # "nothing")]
      /\ rst' = rst /\ sent' = sent
  BY DEF TakeCookies
<1>4. others \in SUBSET Reply
  BY DEF IInv, TypeOK
<1>5. ASSUME NEW n \in replies', n # taken
      PROVE  /\ n \in Reply
             /\ \E o \in others :
                  /\ n.client = o.client /\ n.rst = o.rst /\ n.set = o.set
                  /\ n.at = "wire" <=> o.at = "wire"
                  /\ n.at = "page" =>
                        o.at = "page" /\ (m.set = "nothing" \/ JarOf(o.client) # b)
  <2>1. CASE m.set = "nothing"
    BY <1>3, <1>4, <1>5, <2>1
  <2>2. CASE m.set # "nothing"
    <3>1. n \in Overtaken(b, others)
      BY <1>3, <1>5, <2>2
    <3>. QED
      BY <1>4, <3>1, OvertakenReplies
  <2>. QED
    BY <2>1, <2>2
<1>6. TypeOK'
  <2>1. replies' \subseteq Reply
    BY <1>2, <1>5
  <2>2. jar' \in [Jars -> Tokens \cup {None}]
    BY <1>1, <1>3, JarredTypes DEF IInv, TypeOK
  <2>3. disturbed' \in [Clients -> BOOLEAN]
    BY <1>3 DEF IInv, TypeOK
  <2>. QED
    BY <1>3, <2>1, <2>2, <2>3 DEF IInv, TypeOK
<1>7. RepliesSound'
  <2> SUFFICES ASSUME NEW n \in replies'
               PROVE  /\ n.set = "token" => n.rst \in Tokens
                      /\ n.at # "wire" => n.client \in Tabs
                      /\ n.at = "page" /\ n.set = "token" => jar'[JarOf(n.client)] = n.rst
    BY DEF RepliesSound
  <2>1. CASE n = taken
    <3>1. jar'[b] = Jarred(b, m)
      BY <1>1, <1>3 DEF IInv, TypeOK
    <3>. QED
      BY <1>1, <1>2, <2>1, <3>1, JarredTypes
  <2>2. CASE n # taken
    <3>1. PICK o \in others :
            /\ n.client = o.client /\ n.rst = o.rst /\ n.set = o.set
            /\ n.at = "wire" <=> o.at = "wire"
            /\ n.at = "page" => o.at = "page" /\ (m.set = "nothing" \/ JarOf(o.client) # b)
      BY <1>5, <2>2
    <3>2. /\ o.set = "token" => o.rst \in Tokens
          /\ o.at # "wire" => o.client \in Tabs
          /\ o.at = "page" /\ o.set = "token" => jar[JarOf(o.client)] = o.rst
      BY <3>1 DEF IInv, RepliesSound
    <3>3. JarOf(o.client) \in Jars
      BY <1>4, <3>1, JarOfClient DEF Reply
    <3>4. m.set = "nothing" \/ JarOf(o.client) # b => jar'[JarOf(o.client)] = jar[JarOf(o.client)]
      BY <1>1, <1>3, <3>3, JarredTypes DEF IInv, TypeOK
    <3>. QED
      BY <3>1, <3>2, <3>4
  <2>. QED
    BY <2>1, <2>2
<1>8. ASSUME NEW d \in Clients, ~disturbed'[d]
      PROVE  rst'[d] \in Tokens /\ rst'[d] = jar'[JarOf(d)]
  <2>1. ~disturbed[d] /\ (JarOf(d) = b => m.set = "nothing")
    BY <1>3, <1>8
  <2>2. JarOf(d) \in Jars
    BY JarOfClient
  <2>3. jar'[JarOf(d)] = jar[JarOf(d)]
    BY <1>1, <1>3, <2>1, <2>2, JarredTypes DEF IInv, TypeOK
  <2>. QED
    BY <1>3, <2>1, <2>3 DEF IInv, UndisturbedIsInSync, Matches
<1>9. UndisturbedIsInSync'
  BY <1>8 DEF UndisturbedIsInSync, Matches
<1>. QED
  BY <1>6, <1>7, <1>9 DEF IInv

LEMMA ReadIInv == ASSUME IInv, NEW m \in replies, ReadHeader(m) PROVE IInv'
<1>1. m \in Reply /\ m.client \in Tabs /\ JarOf(m.client) \in Jars
  BY JarOfClient DEF IInv, TypeOK, RepliesSound, ReadHeader
<1>2. TypeOK' /\ RepliesSound'
  BY <1>1, JarredTypes DEF IInv, TypeOK, RepliesSound, ReadHeader
<1>3. ASSUME NEW d \in Clients, ~disturbed'[d]
      PROVE  rst'[d] \in Tokens /\ rst'[d] = jar'[JarOf(d)]
  <2>1. CASE d = m.client
    <3>1. m.set = "token" /\ m.at = "page"
      BY <1>1, <1>3, <2>1 DEF ReadHeader, IInv, TypeOK, Reply
    <3>2. jar[JarOf(d)] = m.rst /\ m.rst \in Tokens
      BY <2>1, <3>1 DEF IInv, RepliesSound
    <3>. QED
      BY <1>1, <2>1, <3>1, <3>2, JarredTypes DEF ReadHeader, IInv, TypeOK
  <2>2. CASE d # m.client
    BY <1>3, <2>2 DEF ReadHeader, IInv, TypeOK, UndisturbedIsInSync, Matches
  <2>. QED
    BY <2>1, <2>2
<1>4. UndisturbedIsInSync'
  BY <1>3 DEF UndisturbedIsInSync, Matches
<1>. QED
  BY <1>2, <1>4 DEF IInv

LEMMA ReceiveIInv == ASSUME IInv, NEW m \in replies, Receive(m) PROVE IInv'
<1> DEFINE c == m.client
<1>1. m \in Reply /\ c \in Scripts /\ c \in Jars /\ JarOf(c) = c
  BY DEF IInv, TypeOK, Receive, JarOf
<1>2. TypeOK'
  BY <1>1, JarredTypes DEF IInv, TypeOK, Receive
<1>3. \A d \in Clients : d # c => JarOf(d) # c
  BY <1>1 DEF JarOf
<1>4. RepliesSound'
  BY <1>1, <1>3, JarOfClient DEF IInv, TypeOK, Reply, RepliesSound, Receive
<1>5. ASSUME NEW d \in Clients, ~disturbed'[d]
      PROVE  rst'[d] \in Tokens /\ rst'[d] = jar'[JarOf(d)]
  <2>1. CASE d = c
    <3>1. m.set = "token"
      BY <1>1, <1>5, <2>1 DEF Receive, IInv, TypeOK
    <3>. QED
      BY <1>1, <2>1, <3>1, JarredTypes DEF Receive, IInv, TypeOK
  <2>2. CASE d # c
    BY <1>3, <1>5, <2>2, JarOfClient DEF Receive, IInv, TypeOK, UndisturbedIsInSync, Matches
  <2>. QED
    BY <2>1, <2>2
<1>6. UndisturbedIsInSync'
  BY <1>5 DEF UndisturbedIsInSync, Matches
<1>. QED
  BY <1>2, <1>4, <1>6 DEF IInv

LEMMA NextIInv == IInv /\ [Next]_vars => IInv'
<1> SUFFICES ASSUME IInv, [Next]_vars PROVE IInv'
  OBVIOUS
<1>1. CASE UNCHANGED vars
  BY <1>1 DEF vars, IInv, TypeOK, RepliesSound, UndisturbedIsInSync, Matches
<1>2. QED
  BY <1>1, LoadIInv, PostIInv, ExpireIInv, HandleIInv, TakeIInv, ReadIInv, ReceiveIInv
     DEF Next, Deliver

\* A client whose token nothing has come between is not refused.
THEOREM UndisturbedInSync == Spec => []UndisturbedIsInSync
<1>1. IInv => UndisturbedIsInSync
  BY DEF IInv
<1>2. QED
  BY <1>1, InitIInv, NextIInv, PTL DEF Spec

\* A stuck tab's requests are neither reset nor accepted.
LEMMA StuckIsRefused ==
    ASSUME IInv, NEW t \in Tabs, Stuck(t), NEW m \in sent, m.client = t, Handle(m)
    PROVE  Refuse(m)
<1>1. m.op # "load" /\ m.header = NullText /\ m.cookie \in Tokens \cup {None}
  BY DEF Stuck, IInv, TypeOK, Request
<1>2. m.cookie # m.header /\ m.header # None
  BY <1>1 DEF None, NullText
<1>3. QED
  BY <1>1, <1>2 DEF Handle, Reset, Accept, AcceptLogout

LEMMA StuckStep ==
    ASSUME IInv, [Next]_vars, NEW t \in Tabs, Stuck(t), ~Load(t)
    PROVE  Stuck(t)'
<1>1. CASE UNCHANGED vars
  BY <1>1 DEF vars, Stuck
<1>2. ASSUME NEW d \in Tabs, Load(d) PROVE Stuck(t)'
  <2>1. d # t
    BY <1>2
  <2>2. QED
    BY <1>2, <2>1 DEF Load, Send, Stuck, IInv, TypeOK
<1>3. ASSUME NEW c \in Clients, NEW op \in {"query", "logout"}, Post(c, op)
      PROVE  Stuck(t)'
  BY <1>3 DEF Post, Send, Stuck
<1>4. ASSUME NEW b \in Jars, NEW token \in Tokens, ExpireCookie(b, token)
      PROVE  Stuck(t)'
  BY <1>4, OvertakenReplies DEF ExpireCookie, Stuck, IInv, TypeOK
<1>5. ASSUME NEW m \in sent, Handle(m) PROVE Stuck(t)'
  <2>1. PICK token, set : Respond(m, token, set)
    BY <1>5 DEF Handle, Reset, Refuse, Accept, AcceptLogout
  <2>2. CASE m.client = t
    <3>1. Respond(m, None, "nothing")
      BY <1>5, <2>2, StuckIsRefused DEF Refuse
    <3>2. QED
      BY <3>1 DEF Respond, Stuck
  <2>3. CASE m.client # t
    BY <2>1, <2>3 DEF Respond, Stuck
  <2>4. QED
    BY <2>2, <2>3
<1>6. ASSUME NEW m \in replies, TakeCookies(m) PROVE Stuck(t)'
  <2>1. ASSUME NEW n \in replies', n.client = t PROVE n.rst = None
    <3>1. \E o \in replies : n.client = o.client /\ n.rst = o.rst
      BY <1>6, OvertakenReplies DEF TakeCookies, IInv, TypeOK, Reply
    <3>. QED
      BY <2>1, <3>1 DEF Stuck
  <2>. QED
    BY <1>6, <2>1 DEF TakeCookies, Stuck
<1>7. ASSUME NEW m \in replies, ReadHeader(m) \/ Receive(m) PROVE Stuck(t)'
  <2>1. CASE m.client = t
    BY <1>7, <2>1 DEF ReadHeader, Receive, Held, Stuck, IInv, TypeOK
  <2>2. CASE m.client # t
    BY <1>7, <2>2 DEF ReadHeader, Receive, Stuck, IInv, TypeOK
  <2>. QED
    BY <2>1, <2>2
<1>8. QED
  BY <1>1, <1>2, <1>3, <1>4, <1>5, <1>6, <1>7 DEF Next, Deliver

\* A tab without a token gets none until its page is loaded again, however
\* many tabs and requests there are.
THEOREM StuckForGood == Spec => StuckUntilLoaded
<1>1. IInv /\ [Next]_vars =>
        [\A t \in Tabs : Stuck(t) => Stuck(t)' \/ Load(t)]_vars
  BY StuckStep
<1>2. QED
  BY <1>1, InitIInv, NextIInv, PTL DEF Spec, StuckUntilLoaded

\* The variables keep the types TypeOK gives them.
THEOREM TypeCorrect == Spec => []TypeOK
<1>1. IInv => TypeOK
  BY DEF IInv
<1>2. QED
  BY <1>1, InitIInv, NextIInv, PTL DEF Spec
=============================================================================
