--------------------------------- MODULE Web ----------------------------------
(***************************************************************************)
(* The web interface: CHTTPSock reads a request, CWebSock finds or makes   *)
(* the session its cookie names (Sessions.m_mspSessions), CWebAuth logs    *)
(* the session in, at once or when an authentication module answers, and   *)
(* OnPageRequestInternal decides who may see the page.                     *)
(*                                                                         *)
(* A session object lives as long as the map or a socket refers to it,     *)
(* and so long it counts in m_mIPSessions.  `act' orders the objects by    *)
(* GetLastActive.  Browsers keep the cookie they were sent.                *)
(***************************************************************************)
EXTENDS Naturals, FiniteSets

CONSTANTS Socks, Browsers, IPs,
          m_uiMaxSessions,      \* sessions an address may have before one is discarded
          ProtectWebSessions,   \* sessions are bound to their address
          MaxSessions           \* bound: sessions there are at a time

None == 0
Users == {"adm", "usr", "usr2"}     \* "usr2" is added when "usr" was deleted
\* The passwords of a browser's owner: the first one is not an admin.
Knows(b) == IF b = CHOOSE x \in Browsers : TRUE THEN {"usr"} ELSE {"adm", "usr2"}

\* What the browsers ask for: both of them from one address, and the one of the admin
\* also from another, where it takes a cookie it was given at the first.
Page(page, post, basic) == [page |-> page, post |-> post, basic |-> basic]
Login == Page("/login", TRUE, FALSE)
Pages == {Page("/", FALSE, FALSE), Page("/logout", FALSE, FALSE), Login,
          Page("admin", FALSE, FALSE), Page("user", FALSE, FALSE), Page("user", TRUE, FALSE)}
BasicPages == {Page("user", FALSE, TRUE), Page("user", TRUE, TRUE)}
First == CHOOSE i \in IPs : TRUE
Requests == UNION {IF Cardinality(Knows(b)) = 1 THEN {b} \X {First} \X Pages
                   ELSE {b} \X {First} \X (Pages \cup BasicPages)
                        \cup {b} \X IPs \X {Login, Page("user", FALSE, FALSE)} : b \in Browsers}

VARIABLES sock,     \* CWebSock: state, request and m_spSession
          sess,     \* CWebSession objects: address and m_pUser
          msp,      \* m_mspSessions
          act,      \* <<i, j>>: objects, i active no later than j
          live,     \* the users
          jar,      \* the cookie of a browser
          shown,    \* ghost: every page was shown to someone who knows its user's password
          fault     \* ghost: a socket used m_pUser of a "deleted" user, or where it is "null"

vars == <<sock, sess, msp, act, live, jar, shown, fault>>

Free == [st |-> "free", ip |-> First, by |-> CHOOSE b \in Browsers : TRUE,
         cookie |-> None, sess |-> None, page |-> "/", post |-> FALSE, basic |-> FALSE,
         logged |-> FALSE]

Ids == 1..MaxSessions
NoSession == [ip |-> First, user |-> ""]

Init == /\ sock = [s \in Socks |-> Free] /\ sess = [i \in Ids |-> NoSession] /\ msp = {} /\ act = {}
        /\ live = {"adm", "usr"} /\ jar = [b \in Browsers |-> None]
        /\ shown = TRUE /\ fault = "none"

\* All that a request changes, as a value the steps of a request work on.
World == [sock |-> sock, sess |-> sess, msp |-> msp, act |-> act, jar |-> jar]
Objects(w) == {i \in Ids : <<i, i>> \in w.act}
\* UpdateLastActive, also of a new object.
Updated(w, i) == {p \in w.act : i \notin {p[1], p[2]}} \union {<<j, i>> : j \in Objects(w) \union {i}}
Held(w, i) == \E s \in Socks : w.sock[s].sess = i
\* The destructor of a session nobody refers to takes it out of m_mIPSessions; a
\* cookie of a session that is not in the map is as good as none.
Collected(w) ==
  [w EXCEPT !.act = {p \in w.act : \A i \in {p[1], p[2]} : i \in w.msp \/ Held(w, i)},
            !.sess = [i \in Ids |-> IF i \in w.msp \/ Held(w, i) THEN w.sess[i] ELSE NoSession],
            !.jar = [b \in Browsers |-> IF w.jar[b] \in w.msp THEN w.jar[b] ELSE None],
            !.sock = [s \in Socks |-> IF w.sock[s].cookie \in w.msp THEN w.sock[s]
                                      ELSE [w.sock[s] EXCEPT !.cookie = None]]]
Becomes(w) == LET c == Collected(w)
              IN  /\ sock' = c.sock /\ sess' = c.sess /\ msp' = c.msp /\ act' = c.act /\ jar' = c.jar
-----------------------------------------------------------------------------
\* GetSession of a socket: m_spSession, else the session of the cookie, else a new
\* one; then the address's least recently active session is discarded when it has
\* more than m_uiMaxSessions.
GetSession(w, s) ==
  LET k == w.sock[s]
      mine == {i \in Objects(w) : w.sess[i].ip = k.ip}
      drop == IF Cardinality(mine) > m_uiMaxSessions
              THEN {i \in mine : \A j \in mine : <<i, j>> \in w.act} ELSE {}
      new == CHOOSE i \in Ids : i \notin Objects(w)
  IN  IF k.sess # None THEN w
      ELSE IF k.cookie \in w.msp
      THEN [w EXCEPT !.sock[s].sess = k.cookie, !.act = Updated(w, k.cookie)]
      ELSE [w EXCEPT !.sock[s].sess = new, !.msp = (w.msp \ drop) \union {new},
                     !.sess[new] = [ip |-> k.ip, user |-> ""], !.act = Updated(w, new)]
CanMake(w, s) == w.sock[s].sess # None \/ w.sock[s].cookie \in w.msp \/ Objects(w) # Ids

UserOf(w, s) == w.sess[w.sock[s].sess].user
SetUser(w, s, u) == [w EXCEPT !.sess[w.sock[s].sess].user = u, !.sock[s].logged = u # ""]
\* The header is sent: nothing but the session matters of the socket then.
Sent(w, s) == [w EXCEPT !.sock[s] = [Free EXCEPT !.st = "sent", !.sess = w.sock[s].sess]]
SendCookie(w, s, i) == [w EXCEPT !.jar[w.sock[s].by] = i]
Quiet == UNCHANGED <<live, shown, fault>>
\* Nothing is claimed of what the program does from here on.
Faults(f) == fault' = f /\ UNCHANGED <<sock, sess, msp, act, jar, shown>>
-----------------------------------------------------------------------------
\* WebRequiresLogin and WebRequiresAdmin of the page's module.
MaySee(w, s) == \/ w.sock[s].page = "/"
                \/ w.sock[s].page = "user" /\ UserOf(w, s) # ""
                \/ w.sock[s].page = "admin" /\ UserOf(w, s) = "adm"

\* The pages of OnPageRequestInternal, in a session that is found.  csrf: the form
\* had the token of the session; forms of modules are checked after the cookie is sent.
\* A socket that was logged in takes it that its session still is, which another socket
\* of the session may have logged out.
WrongIP(w, s) == ProtectWebSessions /\ w.sess[w.sock[s].sess].ip # w.sock[s].ip
BadToken(w, s, csrf) == w.sock[s].post /\ ~w.sock[s].basic /\ w.sock[s].page # "/login" /\ ~csrf

OnPageRequest(w, s, csrf) ==
  LET k == w.sock[s]
      c == SendCookie(w, s, k.sess)
  IN  IF WrongIP(w, s) THEN Becomes(Sent(SendCookie(w, s, None), s)) /\ Quiet
      ELSE IF UserOf(w, s) \notin live \union {""}
      THEN Faults("deleted") /\ UNCHANGED live
      ELSE IF k.logged /\ UserOf(w, s) = ""
      THEN Faults("null") /\ UNCHANGED live
      ELSE CASE k.page = "/logout" -> Becomes(Sent(SetUser(c, s, ""), s)) /\ Quiet
             [] k.page = "/login" -> Becomes([c EXCEPT !.sock[s].st = "auth"]) /\ Quiet
             [] OTHER ->
                  /\ Becomes(Sent(c, s)) /\ UNCHANGED <<live, fault>>
                  /\ shown' = (shown /\ (~BadToken(w, s, csrf) /\ MaySee(w, s) =>
                                           UserOf(w, s) \in Knows(k.by) \union {""}))

\* The empty line: Basic authentication comes first, then the body of a POST.
EndOfHeader(w, s) ==
  LET k == w.sock[s]
  IN  CASE k.basic /\ ~k.logged -> Becomes([w EXCEPT !.sock[s].st = "auth"]) /\ Quiet
        [] k.post /\ (~k.basic \/ k.logged) ->
             Becomes([w EXCEPT !.sock[s].st = "body"]) /\ Quiet
        [] OTHER -> OnPageRequest(GetSession(w, s), s, FALSE)

\* CListener accepts a socket and CHTTPSock::ReadLine reads the header.
ReadLine == \E s \in {k \in Socks : sock[k].st = "free"}, r \in Requests :
  LET w == [World EXCEPT !.sock[s] = [Free EXCEPT !.by = r[1], !.ip = r[2], !.cookie = jar[r[1]],
                                        !.page = r[3].page, !.post = r[3].post, !.basic = r[3].basic]]
  IN  CanMake(w, s) /\ EndOfHeader(w, s)

\* CheckPost: the body is complete.
CheckPost == \E s \in Socks, csrf \in BOOLEAN :
  /\ sock[s].st = "body" /\ CanMake(World, s) /\ OnPageRequest(GetSession(World, s), s, csrf)

\* AcceptLogin, called by AuthUser or later by a module; a page of Basic
\* authentication goes on with ReadLine(""), the form is redirected.
AcceptedLogin == \E s \in Socks : \E u \in Knows(sock[s].by) \intersect live :
  LET w == SetUser(GetSession(World, s), s, u)
  IN  /\ sock[s].st = "auth" /\ CanMake(World, s)
      /\ IF sock[s].basic THEN EndOfHeader(w, s)
         ELSE Becomes(Sent(w, s)) /\ Quiet

\* RefuseLogin: the session is logged out.
Refused(w, s) == Sent(SetUser(w, s, ""), s)
RefusedLogin == \E s \in Socks :
  /\ sock[s].st = "auth" /\ CanMake(World, s)
  /\ Becomes(Refused(GetSession(World, s), s))
  /\ Quiet

\* ~CWebSock: the reply is written, or the browser hangs up, or 120 seconds pass; the
\* destructor counts the traffic for the session's user, and makes a session for it.
Destroyed == \E s \in Socks, i \in IPs :
  LET k == IF sock[s].st = "free" THEN [World EXCEPT !.sock[s].ip = i] ELSE World
      w == GetSession(k, s)
  IN  /\ CanMake(k, s)
      /\ IF UserOf(w, s) \notin live \union {""}
         THEN Faults("deleted")
         ELSE Becomes([w EXCEPT !.sock[s] = Free]) /\ UNCHANGED <<shown, fault>>
      /\ UNCHANGED live
-----------------------------------------------------------------------------
\* A session that was not used for a day leaves the map (TCacheMap::Cleanup).
Expire == \E i \in msp : /\ Becomes([World EXCEPT !.msp = msp \ {i}])
                         /\ Quiet

\* Mutant: only the sessions that an open socket uses are finished.
FinishUserSessionsOpen(u) == {i \in msp : sess[i].user = u /\ \E s \in Socks : sock[s].sess = i}
\* The sessions of a user that CWebSessionMap erases.
FinishUserSessions(u) == {i \in msp : sess[i].user = u}
\* HandleUserDeletion.
DeleteUser == \E u \in live \ {"adm"} :
  /\ live' = live \ {u}
  /\ Becomes([World EXCEPT !.msp = msp \ FinishUserSessions(u)])
  /\ UNCHANGED <<shown, fault>>

AddUser == /\ live = {"adm"} /\ live' = live \union {"usr2"}
           /\ UNCHANGED <<sock, sess, msp, act, jar, shown, fault>>

Next == fault = "none" /\ (\/ ReadLine \/ CheckPost \/ AcceptedLogin \/ RefusedLogin
                           \/ Destroyed \/ Expire \/ DeleteUser \/ AddUser)

Spec == Init /\ [][Next]_vars
-----------------------------------------------------------------------------
TypeOK == /\ \A s \in Socks : sock[s].sess \in Ids \union {None} /\ sock[s].st \in
                {"free", "auth", "body", "sent"}
          /\ msp \subseteq Ids /\ live \subseteq Users /\ fault \in {"none", "deleted", "null"}
          /\ \A i \in DOMAIN sess : sess[i].ip \in IPs /\ sess[i].user \in Users \union {""}

\* Sessions are shared by sockets, logged in late by authentication modules, discarded
\* by the limit and by age, and outlive the map while a socket is open; still a page of
\* a user is only shown to a browser that knows his password, and no session found by a
\* cookie is of a deleted user.  Of the sessions a socket keeps nothing of the kind
\* holds, see NotAfterDelete.  A session referred to is counted for its address.
PagesRight ==
  /\ TypeOK
  /\ shown
  /\ \A i \in msp : sess[i].user \in live \union {""}
  /\ msp \subseteq Objects(World)
  /\ \A s \in Socks : sock[s].sess # None => sock[s].sess \in Objects(World)

\* No page and no destructor of a web socket uses a user who was deleted.
NotAfterDelete == fault # "deleted"
=============================================================================
