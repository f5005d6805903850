----------------------------- MODULE ClientLogin -----------------------------
(***************************************************************************)
(* How a connection becomes an attached client, and where it is listed:     *)
(* src/src/Listener.cpp, src/src/Client.cpp, CZNC::AuthUser, and the        *)
(* modules that decide on a login (imapauth, cyrusauth, certauth,           *)
(* saslplainauth, blockuser, fail2ban), of which one is loaded besides      *)
(* saslplainauth.                                                          *)
(*                                                                         *)
(* One host, one connection at a time, one user; a name that no user has.   *)
(* Passwords and keys are left out: whether they are right is chosen.       *)
(***************************************************************************)
EXTENDS Integers, FiniteSets

CONSTANTS User, Nobody,    \* names a client may give
          Networks,        \* networks of the user
          Mods,            \* modules of which one is loaded
          AllowedFailed,   \* m_uiAllowedFailed of fail2ban
          MaxConns,        \* bound: connections
          MaxLines,        \* bound: lines a client sends before it is attached
          MaxFails         \* bound: attempts that fail2ban counts

None == "none"
Places == Networks \cup {"user"}   \* lists of clients: of networks, and of the user

VARIABLES mod,
          exists, nets,    \* whether User exists, and its networks
          blocked,         \* blockuser: the user is in its registry
          attempts,        \* fail2ban: what its cache holds about the host
          client,          \* the CIncomingConnection, then CClient
          listed,          \* the lists that hold a pointer to it
          pending,         \* CClientAuth objects that wait for an answer
          lines, conns,
          superseded,      \* ghost: a login was begun while another waited
          late,            \* ghost: SASL succeeded after CAP END
          wild             \* ghost: an answer was given to a deleted client

world == <<mod, exists, nets, blocked>>
ghosts == <<superseded, late, wild>>
vars == <<world, attempts, client, listed, pending, lines, conns, ghosts>>

NewClient == [phase |-> "gone", pass |-> FALSE, nick |-> FALSE, user |-> FALSE, inCap |-> FALSE,
              saslCap |-> FALSE, name |-> None, net |-> None, saslUser |-> None, mech |-> None,
              failedMechs |-> {}, auth |-> {},   \* m_spAuth, while it waits for its answer
              at |-> None]                         \* m_pNetwork and m_pUser

Init == /\ mod \in Mods /\ exists = TRUE /\ nets = Networks /\ blocked = FALSE /\ attempts = 0
        /\ client = NewClient /\ listed = {} /\ pending = {} /\ lines = 0 /\ conns = 0
        /\ superseded = FALSE /\ late = FALSE /\ wild = FALSE

IsAttached(c) == c.at # None
Open == client.phase = "open"
-----------------------------------------------------------------------------
(* Answers.  A state of the login is a record; handlers are functions of it. *)

State == [client |-> client, listed |-> listed, pending |-> pending, attempts |-> attempts,
          superseded |-> superseded, late |-> late, wild |-> wild]
Becomes(s) == /\ client' = s.client /\ listed' = s.listed /\ pending' = s.pending
              /\ attempts' = s.attempts
              /\ superseded' = s.superseded /\ late' = s.late /\ wild' = s.wild

\* OnFailedLogin, for fail2ban
OnFailedLogin(s) ==
  IF mod = "fail2ban" /\ s.attempts < MaxFails THEN [s EXCEPT !.attempts = @ + 1] ELSE s

\* CClient::SetNetwork with bDisconnect, called with the place m_pNetwork named before.
SetNetwork(s, place) ==
  [s EXCEPT !.listed = (@ \ {s.client.at}) \cup {place}, !.client.at = place]

\* CClient::AcceptLogin: m_pNetwork is set before SetNetwork reads it.
Chosen(c) == IF c.net # None THEN {IF c.net \in nets THEN c.net ELSE "user"}
             ELSE IF nets # {} THEN nets ELSE {"user"}
AcceptLogin(s) ==
  {LET t == [s EXCEPT !.client.saslUser = None, !.client.mech = None, !.client.at = p]
   IN  [SetNetwork(t, p) EXCEPT !.attempts = IF mod = "fail2ban" THEN 0 ELSE @] : p \in Chosen(s.client)}

\* CClient::RefuseLogin, AcceptSASLLogin and RefuseSASLLogin
RefuseLogin(s) == [s EXCEPT !.client.phase = "closing"]
AcceptSASLLogin(s) ==
  [s EXCEPT !.client.saslUser = User, !.client.mech = None,
            !.late = @ \/ ~s.client.inCap]
RefuseSASLLogin(s) ==
  OnFailedLogin([s EXCEPT !.client.failedMechs = @ \cup {s.client.mech}, !.client.mech = None])

\* CAuthBase::AcceptLogin and RefuseLogin.  An auth names its connection; a connection
\* that is gone was deleted.
Accepted(s, a) ==
  IF ~a.sock THEN {s}
  ELSE IF a.conn # conns \/ s.client.phase = "gone" THEN {[s EXCEPT !.wild = TRUE]}
  ELSE IF a.sasl THEN {AcceptSASLLogin(s)} ELSE AcceptLogin(s)
Refused(s, a) ==
  IF ~a.sock THEN {s}
  ELSE IF a.conn # conns \/ s.client.phase = "gone" THEN {[s EXCEPT !.wild = TRUE]}
  ELSE LET t == OnFailedLogin(s)
       IN  {IF a.sasl THEN RefuseSASLLogin(t) ELSE RefuseLogin(t)}

\* CUser::CheckPass and IsHostAllowed, after OnLoginAttempt of the module.
Checked(found) == IF found THEN {"accept", "refuse"} ELSE {"refuse"}
Verdicts(s, a) ==
  LET found == exists /\ a.name = User
  IN  CASE mod = "imapauth" -> IF found THEN {"accept", "wait"} ELSE {"refuse"}
        [] mod = "fail2ban" -> IF s.attempts >= AllowedFailed THEN {"refuse"} ELSE Checked(found)
        [] mod = "blockuser" -> IF blocked /\ a.name = User THEN {"refuse"} ELSE Checked(found)
        [] mod \in {"certauth", "cyrusauth"} -> Checked(found)

\* m_spAuth = make_shared<...>; CZNC::AuthUser(m_spAuth)
Attempt(s, sasl) ==
  LET a == [conn |-> conns, name |-> s.client.name, sasl |-> sasl, sock |-> TRUE]
      t == [s EXCEPT !.client.auth = {},
                     !.superseded = @ \/ \E b \in s.pending : b.sock]
  IN  UNION {CASE v = "accept" -> Accepted(t, a)
               [] v = "refuse" -> Refused(t, a)
               [] v = "wait" -> {[t EXCEPT !.pending = @ \cup {a}, !.client.auth = {a}]} : v \in Verdicts(s, a)}

\* CClient::AuthUser
AuthUser(s) ==
  LET c == s.client
  IN  IF ~c.nick \/ ~c.user \/ c.inCap \/ (c.saslUser = None /\ ~c.pass) \/ IsAttached(c)
      THEN {s}
      ELSE IF c.saslUser = None THEN Attempt(s, FALSE)
      ELSE IF exists THEN AcceptLogin(s) ELSE {RefuseLogin(s)}
-----------------------------------------------------------------------------
(* Lines of a client that is not attached: CClient::ReadLine *)

Says(T) == /\ Open /\ ~IsAttached(client) /\ lines < MaxLines /\ lines' = lines + 1
           /\ \E s \in T : Becomes(s)
           /\ UNCHANGED <<world, conns>>
Changed(c) == [State EXCEPT !.client = c]

\* PASS [user[/network]:]password
Pass == \E name \in {client.name, User, Nobody}, net \in Networks \cup {client.net} :
          /\ name = None => net = client.net
          /\ Says(AuthUser(Changed([client EXCEPT !.pass = TRUE, !.name = name, !.net = net])))
Nick == Says(AuthUser(Changed([client EXCEPT !.nick = TRUE])))
\* USER; without a password, SendRequiredPasswordNotice
UserLine == LET c == [client EXCEPT !.user = TRUE, !.name = IF @ = None THEN User ELSE @]
            IN  Says(IF c.pass \/ c.saslUser # None THEN AuthUser(Changed(c)) ELSE {Changed(c)})

\* HandleCap: LS, REQ of sasl (refused ones set m_bInCap too), END
CapLs == Says({Changed([client EXCEPT !.inCap = TRUE])})
CapReq == Says({Changed([client EXCEPT !.inCap = TRUE, !.saslCap = b]) : b \in {TRUE, client.saslCap}})
AbortSASL(c) == [c EXCEPT !.mech = None]
\* Slip: END only ends the negotiation.
CapEndQuiet == Says({Changed(AbortSASL([client EXCEPT !.inCap = FALSE]))})
CapEnd == LET c == AbortSASL([client EXCEPT !.inCap = FALSE])
          IN  Says(IF c.user /\ c.saslUser = None /\ ~c.pass THEN {Changed(c)}
                   ELSE AuthUser(Changed(c)))

\* OnAuthenticateMessage: a mechanism, the response, or "*" (and lines that are too long).
Mechanisms == {"PLAIN"} \cup IF mod = "certauth" THEN {"EXTERNAL"} ELSE {}
MaySASL == client.saslCap /\ client.saslUser = None
Authenticate == /\ MaySASL /\ client.mech = None
                /\ \E m \in Mechanisms \ client.failedMechs :
                     Says({Changed([client EXCEPT !.mech = m])})
\* saslplainauth and StartSASLPasswordCheck; certauth.  A refusal of the authorization
\* identity does not end the check.
SaslResponse ==
  /\ MaySASL /\ client.mech # None
  /\ \E name \in {User, Nobody} :
       LET s == Changed([client EXCEPT !.name = name])
       IN  Says(IF client.mech = "EXTERNAL"
                THEN {RefuseSASLLogin(s)}
                     \cup IF exists /\ name = User THEN {AcceptSASLLogin(s)} ELSE {}
                ELSE Attempt(s, TRUE) \cup Attempt(RefuseSASLLogin(s), TRUE))
SaslAbort == /\ MaySASL /\ client.mech # None /\ Says({Changed(AbortSASL(client))})
-----------------------------------------------------------------------------
(* The connection *)

\* CRealListener::GetSockObj, and fail2ban's OnClientConnect: a limit is reached, or the
\* connection waits for its first line.
Connect == /\ client.phase = "gone" /\ conns < MaxConns /\ conns' = conns + 1 /\ lines' = 0
           /\ LET s == Changed([NewClient EXCEPT !.phase = "incoming"])
                  banned == mod = "fail2ban" /\ attempts >= AllowedFailed
              IN  \/ Becomes(IF banned THEN RefuseLogin(s) ELSE s)
                  \/ Becomes(OnFailedLogin(RefuseLogin(s)))
           /\ UNCHANGED world
\* CIncomingConnection::ReadLine: a port that takes IRC, or not.  Web sockets are another
\* module's matter.
FirstLine == /\ client.phase = "incoming"
             /\ \E p \in {"open", "closing"} : client' = [client EXCEPT !.phase = p]
             /\ UNCHANGED <<world, attempts, listed, pending, lines, conns, ghosts>>

\* Disconnected, then ~CClient, which invalidates m_spAuth.
\* Slip: the auth keeps its pointer to the client.
DeletedKeepingAuth(s) ==
  [s EXCEPT !.client = NewClient, !.listed = @ \ {s.client.at}]
Deleted(s) ==
  [s EXCEPT !.client = NewClient, !.listed = @ \ {s.client.at},
            !.pending = {IF a \in s.client.auth THEN [a EXCEPT !.sock = FALSE] ELSE a : a \in @}]

\* The socket closes: after a refusal, by the client, by the timeout, by ReachedMaxBuffer.
Closed == client.phase # "gone" /\ Becomes(Deleted(State)) /\ UNCHANGED <<world, lines, conns>>

\* imapauth: CIMAPSock::ReadLine, or ~CIMAPSock when the server said nothing.
Answer == \E a \in pending :
            /\ \E s \in Refused(State, a) \cup IF exists THEN Accepted(State, a) ELSE {} :
                 Becomes([s EXCEPT !.pending = @ \ {a}, !.client.auth = @ \ {a}])
            /\ UNCHANGED <<world, lines, conns>>

\* /znc JumpNetwork
JumpNetwork == /\ Open /\ IsAttached(client)
               /\ \E n \in nets \ {client.at} : Becomes(SetNetwork(State, n))
               /\ UNCHANGED <<world, lines, conns>>
\* /znc DelNetwork moves the client to the user's list first; controlpanel and webadmin
\* delete the network with its clients.
Lost(places) == IF listed \cap places = {} THEN State ELSE Deleted(State)
DelNetwork(n) == /\ n \in nets /\ nets' = nets \ {n}
                 /\ \/ Open /\ client.at = n /\ Becomes(SetNetwork(State, "user"))
                    \/ Becomes(Lost({n}))
                 /\ UNCHANGED <<mod, exists, blocked, lines, conns>>
\* CZNC::HandleUserDeletion; the control panel, and cyrusauth at a login, may add the user again.
DelUser == /\ exists /\ exists' = FALSE /\ nets' = {} /\ Becomes(Lost(Places))
           /\ UNCHANGED <<mod, blocked, lines, conns>>
AddUser == /\ ~exists /\ exists' = TRUE /\ Becomes(State)
           /\ UNCHANGED <<mod, nets, blocked, lines, conns>>
\* blockuser: Block closes the clients of the user, and Unblock.
Block == /\ mod = "blockuser" /\ exists /\ blocked' = ~blocked
         /\ Becomes(IF ~blocked /\ IsAttached(client) THEN RefuseLogin(State) ELSE State)
         /\ UNCHANGED <<mod, exists, nets, lines, conns>>
\* fail2ban: the time to live ends, or Unban.
Forget == /\ attempts > 0 /\ attempts' = 0
          /\ UNCHANGED <<world, client, listed, pending, lines, conns, ghosts>>

Next == \/ Connect \/ FirstLine \/ Closed
        \/ Pass \/ Nick \/ UserLine \/ CapLs \/ CapReq \/ CapEnd
        \/ Authenticate \/ SaslResponse \/ SaslAbort \/ Answer
        \/ JumpNetwork \/ (\E n \in Networks : DelNetwork(n)) \/ DelUser \/ AddUser
        \/ Block \/ Forget
Spec == Init /\ [][Next]_vars
\* imapauth's socket times out; a socket that is to close is closed by the manager.
Fairness == WF_vars(Answer) /\ WF_vars(client.phase = "closing" /\ Closed)
FairSpec == Spec /\ Fairness
-----------------------------------------------------------------------------
\* Every variable holds a value of its kind.
TypeOK ==
  /\ client.phase \in {"gone", "incoming", "open", "closing"}
  /\ client.name \in {None, User, Nobody} /\ client.net \in Networks \cup {None}
  /\ client.at \in Places \cup {None} /\ listed \subseteq Places /\ nets \subseteq Networks
  /\ \A a \in pending : a.sock \in BOOLEAN /\ a.conn \in 1..MaxConns
  /\ lines \in 0..MaxLines /\ conns \in 0..MaxConns /\ attempts \in 0..MaxFails

\* As long as no login was begun while another waited for its answer (Client.cpp:375 then
\* forgets the first), a client is in the one list it is attached to, in none before login
\* and after it is gone, whatever deletes networks, users and connections meanwhile, and
\* no answer reaches a client that is gone.
Consistent ==
  ~superseded => /\ ~wild
                 /\ listed = IF client.at = None THEN {} ELSE {client.at}
                 /\ client.at \in nets \cup {None, "user"} /\ (client.at # None => exists)

\* A client that has sent all there is to send is let in or sent away.  The exception is
\* SASL that succeeds after CAP END, also when CAP END aborted it: AcceptSASLLogin does not
\* call AuthUser (Client.cpp:1351), and nothing does until the client speaks again.
Registered == /\ Open /\ client.nick /\ client.user /\ ~client.inCap
              /\ (client.pass \/ client.saslUser # None)
LoginCompletes == Registered ~> (IsAttached(client) \/ ~Open \/ client.inCap \/ late)
==============================================================================
