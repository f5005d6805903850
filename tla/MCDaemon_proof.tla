---------------------------- MODULE MCDaemon_proof ----------------------------
(***************************************************************************)
(* Proofs about the configuration (Config), for any users, listeners and    *)
(* signals: the type of the state, and that ZNC can be started again        *)
(* whenever it dies.  And about the login of clients (ClientLogin), for any *)
(* networks, any limits and any of the modules that decide on a login, and  *)
(* about the instance in which the two stand side by side.                  *)
(***************************************************************************)
EXTENDS MCDaemon, TLAPS

-----------------------------------------------------------------------------
(* The configuration *)

\* What of memory may be saved: it is usable, or ZNC was spoiled.
Sound(m) == m \in Content /\ (spoiled \/ ~Unusable(m))

\* The inductive invariant: znc.conf is only ever replaced by a temporary file that is
\* complete, which holds from WriteTemp on, and that was written from sound memory.
LoadableInv == /\ TypeOK
               /\ spoiled \in BOOLEAN
               /\ pc # "down" => Sound(mem)
               /\ pc = "move" => Sound(tmp)
               /\ Sound(disk)

LEMMA InitSound == Init => LoadableInv
<1>1. Fresh \in Content /\ ~Unusable(Fresh)
  BY FreshAssumption DEF Fresh, Content, Unusable
<1> QED  BY <1>1 DEF Init, LoadableInv, TypeOK, Sound, States

\* What is done to memory keeps its type.
LEMMA ContentUpdated ==
  ASSUME NEW m \in Content, NEW U \in SUBSET Users, NEW L \in SUBSET Listeners,
         NEW p \in {"valid", "bad"}
  PROVE  /\ [m EXCEPT !.users = U] \in Content
         /\ [m EXCEPT !.listeners = L] \in Content
         /\ [m EXCEPT !.prefix = p] \in Content
         /\ [m EXCEPT !.prefix = p, !.listeners = L] \in Content
  BY DEF Content

\* A change of memory by InMemory leaves all that could be saved before sound.
LEMMA InMemorySound ==
  ASSUME spoiled \in BOOLEAN, NEW m \in Content, InMemory(m)
  PROVE  /\ mem' \in Content /\ spoiled' \in BOOLEAN /\ Sound(mem)'
         /\ \A x : Sound(x) => Sound(x)'
  BY DEF InMemory, Sound

\* So does a rehash.
LEMMA RehashSound ==
  ASSUME LoadableInv, RehashConfig
  PROVE  /\ mem' \in Content /\ spoiled' \in BOOLEAN /\ Sound(mem)'
         /\ \A x : Sound(x) => Sound(x)'
<1>1. disk \in Content /\ mem \in Content /\ spoiled \in BOOLEAN
  BY DEF LoadableInv, TypeOK, Sound
<1>2. \A L \in SUBSET disk.listeners : [mem EXCEPT !.prefix = disk.prefix, !.listeners = L] \in Content
  <2>1. disk.listeners \subseteq Listeners /\ disk.prefix \in {"valid", "bad"}
    BY <1>1 DEF Content
  <2> QED  BY <1>1, <2>1, ContentUpdated
<1> QED  BY <1>1, <1>2, InMemorySound DEF RehashConfig

LEMMA NextSound == LoadableInv /\ [Next]_vars => LoadableInv'
<1> SUFFICES ASSUME LoadableInv, [Next]_vars PROVE LoadableInv'
  OBVIOUS
<1>fresh. Fresh \in Content /\ ~Unusable(Fresh)
  BY FreshAssumption DEF Fresh, Content, Unusable
<1>mem. mem.users \subseteq Users /\ mem.listeners \subseteq Listeners
  BY DEF LoadableInv, TypeOK, Content
<1> USE DEF LoadableInv, TypeOK, Sound, fileVars, ghosts, InSelect, Stays, Saves, Quietly
<1>1. CASE Start
  BY <1>1 DEF Start, Accepts
<1>2. CASE Crash
  BY <1>2, <1>fresh DEF States, Crash, Down
<1>3. CASE Signal
  BY <1>3, SignalsAssumption DEF Signal, States, SignalState, fileVars
<1>4. CASE GetConfigState
  BY <1>4 DEF GetConfigState
<1>5. CASE ActNothing
  BY <1>5 DEF ActNothing
<1>6. CASE ActRehash
  BY <1>6, RehashSound DEF ActRehash, States
<1>7. CASE ActDelayed
  BY <1>7 DEF States, ActDelayed
<1>8. CASE ActWrite
  BY <1>8 DEF States, ActWrite
<1>9. CASE ActQuit
  BY <1>9, <1>fresh DEF States, ActQuit, Down
<1>10. CASE HandleUserDeletion
  <2>1. CASE doomed = {}
    BY <1>10, <2>1 DEF HandleUserDeletion
  <2>2. CASE doomed # {}
    <3>1. PICK gone \in SUBSET doomed : InMemory([mem EXCEPT !.users = @ \ gone])
      BY <1>10, <2>2 DEF HandleUserDeletion
    <3>2. [mem EXCEPT !.users = @ \ gone] \in Content
      BY <1>mem, ContentUpdated, mem.users \ gone \in SUBSET Users
    <3> QED  BY <1>10, <2>2, <3>1, <3>2, InMemorySound DEF HandleUserDeletion
  <2> QED  BY <2>1, <2>2
<1>11. CASE OpenTemp
  BY <1>11 DEF OpenTemp
<1>12. CASE WriteTemp
  BY <1>12 DEF WriteTemp
<1>13. CASE MoveTemp
  BY <1>13, <1>fresh DEF States, MoveTemp, Saved, Down
<1>14. CASE LeaveSelect
  BY <1>14 DEF LeaveSelect
<1>15. CASE TimerFires
  BY <1>15 DEF States, TimerFires
<1>16. CASE SetInConfig
  BY <1>16 DEF States, SetInConfig
<1>17. CASE DeleteUser
  BY <1>17, <1>mem DEF DeleteUser
<1>18. CASE AddUser
  <2>1. PICK u \in Users \ mem.users : mem' = [mem EXCEPT !.users = @ \cup {u}]
    BY <1>18 DEF AddUser
  <2>2. mem' \in Content /\ (~Unusable(mem) => ~Unusable(mem'))
    BY <2>1 DEF Content, Unusable
  <2> QED  BY <1>18, <2>2 DEF AddUser
<1>19. CASE SettingsPage
  <2>1. PICK p \in {"valid", "bad"} : InMemory([mem EXCEPT !.prefix = p])
    BY <1>19 DEF SettingsPage
  <2>2. [mem EXCEPT !.prefix = p] \in Content
    BY ContentUpdated, {} \in SUBSET Users, {} \in SUBSET Listeners
  <2> QED  BY <1>19, <2>1, <2>2, InMemorySound DEF SettingsPage
<1>20. CASE ChangeListeners
  <2> DEFINE Toggled(l) == IF l \in mem.listeners THEN mem.listeners \ {l} ELSE mem.listeners \cup {l}
  <2>1. PICK l \in Listeners : InMemory([mem EXCEPT !.listeners = Toggled(l)])
    BY <1>20 DEF ChangeListeners
  <2>2. [mem EXCEPT !.listeners = Toggled(l)] \in Content
    <3>1. Toggled(l) \in SUBSET Listeners  BY <1>mem
    <3> HIDE DEF Toggled
    <3> QED  BY <3>1, ContentUpdated, {} \in SUBSET Users, "bad" \in {"valid", "bad"}
  <2> HIDE DEF Toggled
  <2> QED  BY <1>20, <2>1, <2>2, InMemorySound DEF ChangeListeners
<1>21. CASE SaveConfig
  BY <1>21 DEF SaveConfig
<1>22. CASE RehashCommand
  BY <1>22, RehashSound DEF RehashCommand
<1>23. CASE Shutdown
  BY <1>23 DEF Shutdown
<1>24. CASE ForcedExit
  BY <1>24, <1>fresh DEF States, ForcedExit, Down
<1>25. ASSUME NEW step \in {"open", "write", "move"}, WriteFails(step)
      PROVE  LoadableInv'
  BY <1>25 DEF WriteFails
<1>26. CASE UNCHANGED vars
  BY <1>26 DEF vars
<1> QED
  BY <1>1, <1>2, <1>3, <1>4, <1>5, <1>6, <1>7, <1>8, <1>9, <1>10, <1>11, <1>12, <1>13, <1>14, <1>15, <1>16, <1>17, <1>18, <1>19, <1>20, <1>21, <1>22, <1>23, <1>24, <1>25, <1>26 DEF Next, LoopStep, Events

\* The state of the main loop and of the configuration keeps its type.
THEOREM ConfigTypeCorrect == Spec => []TypeOK
<1>1. LoadableInv => TypeOK  BY DEF LoadableInv
<1> QED  BY <1>1, InitSound, NextSound, PTL DEF Spec

\* At every moment at which ZNC may die, also between two steps of WriteConfig, znc.conf
\* is a file that ZNC starts from, unless it was made unusable while ZNC ran.
THEOREM ConfigLoadable == Spec => []Loadable
<1>1. LoadableInv => Loadable
  BY DEF LoadableInv, Sound, Loadable, Accepts
<1> QED  BY <1>1, InitSound, NextSound, PTL DEF Spec
-----------------------------------------------------------------------------
(* Logins *)


None == Cl!None
AllMechs == {None, "PLAIN", "EXTERNAL"}
Auths == [conn : 1..MaxConns, name : {None, User, Nobody}, sasl : BOOLEAN, sock : BOOLEAN]
CClient == [phase : {"gone", "incoming", "open", "closing"}, pass : BOOLEAN, nick : BOOLEAN,
            user : BOOLEAN, inCap : BOOLEAN, saslCap : BOOLEAN, name : {None, User, Nobody},
            net : Networks \cup {None}, saslUser : {None, User}, mech : AllMechs,
            failedMechs : SUBSET AllMechs, auth : SUBSET Auths, at : Cl!Places \cup {None}]
LoginStates == [client : CClient, listed : SUBSET Cl!Places, pending : SUBSET Auths,
                attempts : 0..MaxFails, superseded : BOOLEAN, late : BOOLEAN, wild : BOOLEAN]

\* An auth that still points to the client is the one the client waits for, and the
\* client is not attached and not authenticated with SASL meanwhile.
Waits(s, k) == \A a \in s.pending : a.sock =>
  /\ a \in s.client.auth /\ a.conn = k
  /\ s.client.at = None /\ s.client.saslUser = None

\* The client is in the list that it is attached to.
Linked(s) == /\ ~s.wild
             /\ s.listed = IF s.client.at = None THEN {} ELSE {s.client.at}

\* It is attached to what exists.
Attached(s, N, E) == s.client.at \in N \cup {None, "user"} /\ (s.client.at # None => E)

\* What holds of a client that is there or not, as the k-th connection.
Present(s, k, m) ==
  /\ s.client.phase = "gone" => s.client.at = None /\ s.client.auth = {}
  /\ s.client.phase # "gone" => k > 0
  /\ \A a, b \in s.client.auth : a = b
  /\ s.pending # {} => m = "imapauth"
  /\ s.client.mech = "EXTERNAL" => m = "certauth"

Fit(s, N, E, k, m) ==
  /\ s \in LoginStates /\ Present(s, k, m)
  /\ ~s.superseded => Waits(s, k) /\ Linked(s) /\ Attached(s, N, E)

\* The inductive invariant.  No answer reaches a client that is gone because ~CClient
\* invalidates the one auth that it waits for.
LoginInv == /\ Fit(Cl!State, nets, exists, conns, mod)
            /\ mod \in Mods /\ exists \in BOOLEAN /\ nets \in SUBSET Networks /\ blocked \in BOOLEAN
            /\ lines \in 0..MaxLines /\ conns \in 0..MaxConns

LEMMA StateFacts ==
  /\ Cl!State.client = client /\ Cl!State.listed = listed /\ Cl!State.pending = pending
  /\ Cl!State.attempts = attempts /\ Cl!State.superseded = superseded /\ Cl!State.late = late
  /\ Cl!State.wild = wild
  BY DEF Cl!State

LEMMA BecomesState == ASSUME NEW s \in LoginStates, Cl!Becomes(s) PROVE Cl!State' = s
<1>1. s = [client |-> s.client, listed |-> s.listed, pending |-> s.pending, attempts |-> s.attempts,
           superseded |-> s.superseded, late |-> s.late, wild |-> s.wild]
  BY DEF LoginStates
<1> QED  BY <1>1 DEF Cl!Becomes, Cl!State

LEMMA NewClientFacts ==
  /\ Cl!NewClient \in CClient /\ Cl!NewClient.at = None /\ Cl!NewClient.auth = {}
  /\ Cl!NewClient.phase = "gone" /\ Cl!NewClient.saslUser = None
  BY DEF Cl!NewClient, CClient, None, AllMechs

\* The fields of a client that Fit is about.
Keeps(c, d) == /\ d \in CClient /\ d.at = c.at /\ d.auth = c.auth /\ d.saslUser = c.saslUser
               /\ d.mech \in {c.mech, None}
               /\ d.phase = "gone" <=> c.phase = "gone"

\* Everything but the client, the attempts and the ghost late.
Rest(s, t) == /\ t \in LoginStates /\ t.listed = s.listed /\ t.pending = s.pending
              /\ t.superseded = s.superseded /\ t.wild = s.wild

LEMMA SameFit ==
  ASSUME NEW s, NEW t, NEW N, NEW E, NEW k, NEW m, Fit(s, N, E, k, m),
         Rest(s, t), Keeps(s.client, t.client)
  PROVE  Fit(t, N, E, k, m)
<1>1. t \in LoginStates  BY DEF Rest
<1>2. Present(t, k, m)  BY DEF Fit, Present, Rest, Keeps, None, Cl!None
<1>3. ~t.superseded => Waits(t, k) /\ Linked(t) /\ Attached(t, N, E)
  BY DEF Fit, Waits, Linked, Attached, Rest, Keeps
<1> QED  BY <1>1, <1>2, <1>3 DEF Fit
-----------------------------------------------------------------------------
(* The answers *)

LEMMA ClientReplaced ==
  ASSUME NEW s \in LoginStates, NEW c \in CClient, NEW t, t = [s EXCEPT !.client = c]
  PROVE  t.client = c /\ Rest(s, t) /\ t.attempts = s.attempts
  BY DEF LoginStates, Rest

LEMMA OnFailedLoginFacts ==
  ASSUME NEW s \in LoginStates
  PROVE  /\ Rest(s, Cl!OnFailedLogin(s)) /\ Cl!OnFailedLogin(s) \in LoginStates
         /\ Cl!OnFailedLogin(s).client = s.client
<1>1. CASE mod = "fail2ban" /\ s.attempts < MaxFails
  <2> DEFINE t == [s EXCEPT !.attempts = s.attempts + 1]
  <2>1. s.attempts + 1 \in 0..MaxFails  BY <1>1, LoginAssumption DEF LoginStates
  <2>2. t \in LoginStates /\ t.client = s.client /\ Rest(s, t)  BY <2>1 DEF LoginStates, Rest
  <2> QED  BY <1>1, <2>2 DEF Cl!OnFailedLogin
<1>2. CASE ~(mod = "fail2ban" /\ s.attempts < MaxFails)
  BY <1>2 DEF Cl!OnFailedLogin, Rest
<1> QED  BY <1>1, <1>2

LEMMA ClientUpdates ==
  ASSUME NEW c \in CClient
  PROVE  /\ [c EXCEPT !.phase = "closing"] \in CClient
         /\ [c EXCEPT !.phase = "closing"].at = c.at
         /\ [c EXCEPT !.phase = "closing"].auth = c.auth
         /\ [c EXCEPT !.phase = "closing"].saslUser = c.saslUser
         /\ [c EXCEPT !.phase = "closing"].mech = c.mech
         /\ [c EXCEPT !.phase = "closing"].phase = "closing"
  BY DEF CClient

LEMMA RefuseLoginFacts ==
  ASSUME NEW s \in LoginStates, s.client.phase # "gone"
  PROVE  Rest(s, Cl!RefuseLogin(s)) /\ Keeps(s.client, Cl!RefuseLogin(s).client)
<1>1. s.client \in CClient  BY DEF LoginStates
<1> DEFINE c == [s.client EXCEPT !.phase = "closing"]
           t == [s EXCEPT !.client = c]
<1>2. c \in CClient /\ Keeps(s.client, c)  BY <1>1, ClientUpdates DEF Keeps
<1>3. Cl!RefuseLogin(s) = t  BY DEF Cl!RefuseLogin, LoginStates
<1> HIDE DEF c
<1>4. t.client = c /\ Rest(s, t)  BY <1>2, ClientReplaced
<1> QED  BY <1>2, <1>3, <1>4

LEMMA RefuseSASLLoginFacts ==
  ASSUME NEW s \in LoginStates
  PROVE  Rest(s, Cl!RefuseSASLLogin(s)) /\ Keeps(s.client, Cl!RefuseSASLLogin(s).client)
<1>1. s.client \in CClient  BY DEF LoginStates
<1> DEFINE c == [s.client EXCEPT !.failedMechs = s.client.failedMechs \cup {s.client.mech}, !.mech = None]
           t == [s EXCEPT !.client = c]
<1>2. c \in CClient /\ Keeps(s.client, c)  BY <1>1 DEF Keeps, CClient, AllMechs
<1>3. Cl!RefuseSASLLogin(s) = Cl!OnFailedLogin(t)
  BY DEF Cl!RefuseSASLLogin, LoginStates, None
<1> HIDE DEF c
<1>4. t.client = c /\ Rest(s, t)  BY <1>2, ClientReplaced
<1> HIDE DEF t
<1>5. Rest(t, Cl!OnFailedLogin(t)) /\ Cl!OnFailedLogin(t).client = t.client
  BY <1>4, OnFailedLoginFacts DEF Rest
<1>6. Rest(s, Cl!OnFailedLogin(t))  BY <1>4, <1>5 DEF Rest
<1> QED  BY <1>2, <1>3, <1>4, <1>5, <1>6

LEMMA AcceptSASLLoginFacts ==
  ASSUME NEW s \in LoginStates, NEW t, t = Cl!AcceptSASLLogin(s)
  PROVE  /\ Rest(s, t) /\ t.client.at = s.client.at /\ t.client.auth = s.client.auth
         /\ t.client.phase = s.client.phase /\ t.client.saslUser = User /\ t.client.mech = None
<1>1. s.client \in CClient  BY DEF LoginStates
<1> DEFINE c == [s.client EXCEPT !.saslUser = User, !.mech = None]
           l == s.late \/ ~s.client.inCap
<1>2. /\ c \in CClient /\ c.at = s.client.at /\ c.auth = s.client.auth
      /\ c.phase = s.client.phase /\ c.saslUser = User /\ c.mech = None
  BY <1>1 DEF CClient, AllMechs
<1>3. l \in BOOLEAN  OBVIOUS
<1>4. t = [s EXCEPT !.client = c, !.late = l]
  BY DEF Cl!AcceptSASLLogin, LoginStates, None
<1> HIDE DEF c, l
<1>5. t.client = c /\ Rest(s, t)  BY <1>2, <1>3, <1>4 DEF LoginStates, Rest
<1> QED  BY <1>2, <1>5

\* The client is attached to a network that the user has, or to the user.
LEMMA AcceptLoginFacts ==
  ASSUME NEW s \in LoginStates, nets \in SUBSET Networks, NEW t \in Cl!AcceptLogin(s)
  PROVE  /\ t \in LoginStates /\ t.pending = s.pending /\ t.superseded = s.superseded
         /\ t.wild = s.wild /\ t.client.auth = s.client.auth /\ t.client.phase = s.client.phase
         /\ t.client.at \in nets \cup {"user"} /\ t.listed = s.listed \cup {t.client.at}
         /\ t.client.mech = None
<1>1. s.client \in CClient /\ MaxFails \in Nat  BY LoginAssumption DEF LoginStates
<1>2. PICK p \in Cl!Chosen(s.client) :
        t = LET u == [s EXCEPT !.client.saslUser = None, !.client.mech = None, !.client.at = p]
            IN  [Cl!SetNetwork(u, p) EXCEPT !.attempts = IF mod = "fail2ban" THEN 0 ELSE @]
  BY DEF Cl!AcceptLogin, None
<1>3. p \in nets \cup {"user"}  BY DEF Cl!Chosen
<1>4. p \in Cl!Places  BY <1>3 DEF Cl!Places
<1> DEFINE c == [s.client EXCEPT !.saslUser = None, !.mech = None, !.at = p]
           u == [s EXCEPT !.client = c]
           L == (s.listed \ {p}) \cup {p}
           f == IF mod = "fail2ban" THEN 0 ELSE s.attempts
<1>5. /\ c \in CClient /\ c.at = p /\ c.auth = s.client.auth /\ c.phase = s.client.phase
      /\ c.mech = None
  BY <1>1, <1>4 DEF CClient, AllMechs
<1>6. u = [s EXCEPT !.client.saslUser = None, !.client.mech = None, !.client.at = p]
  BY DEF LoginStates
<1>7. L \in SUBSET Cl!Places /\ L = s.listed \cup {p}  BY <1>4 DEF LoginStates
<1>8. f \in 0..MaxFails  BY <1>1 DEF LoginStates
<1>9. [c EXCEPT !.at = p] = c  BY <1>5 DEF CClient
<1> HIDE DEF c
<1>10. u.client = c /\ u.listed = s.listed /\ u.attempts = s.attempts /\ u \in LoginStates
  BY <1>5 DEF LoginStates
<1>11. Cl!SetNetwork(u, p) = [u EXCEPT !.listed = L]
  BY <1>5, <1>9, <1>10 DEF Cl!SetNetwork, LoginStates
<1>12. [u EXCEPT !.listed = L].attempts = s.attempts  BY <1>10 DEF LoginStates
<1>13. t = [[u EXCEPT !.listed = L] EXCEPT !.attempts = f]
  BY <1>2, <1>6, <1>11, <1>12
<1> HIDE DEF L, f
<1>14. /\ t \in LoginStates /\ t.pending = s.pending /\ t.superseded = s.superseded
       /\ t.wild = s.wild /\ t.client = c /\ t.listed = L
  BY <1>5, <1>7, <1>8, <1>13 DEF LoginStates
<1> QED  BY <1>3, <1>5, <1>7, <1>14
-----------------------------------------------------------------------------
(* Attempts *)

\* Nobody is let in as a user that does not exist, and only imapauth waits.
LEMMA VerdictsFacts ==
  ASSUME mod \in Mods, NEW s, NEW a, NEW v \in Cl!Verdicts(s, a)
  PROVE  /\ v \in {"accept", "refuse", "wait"} /\ (v = "accept" => exists)
         /\ v = "wait" => mod = "imapauth"
<1>1. mod \in {"imapauth", "cyrusauth", "certauth", "blockuser", "fail2ban"}
  BY LoginAssumption
<1>2. CASE mod = "imapauth"  BY <1>2 DEF Cl!Verdicts
<1>3. CASE mod = "fail2ban"  BY <1>3 DEF Cl!Verdicts, Cl!Checked
<1>4. CASE mod = "blockuser"  BY <1>4 DEF Cl!Verdicts, Cl!Checked
<1>5. CASE mod \in {"certauth", "cyrusauth"}  BY <1>5 DEF Cl!Verdicts, Cl!Checked
<1> QED  BY <1>1, <1>2, <1>3, <1>4, <1>5

World == /\ mod \in Mods /\ exists \in BOOLEAN /\ nets \in SUBSET Networks /\ blocked \in BOOLEAN
         /\ lines \in 0..MaxLines /\ conns \in 0..MaxConns
FitNow(s) == Fit(s, nets, exists, conns, mod)

\* A client that no auth points to is let in.
LEMMA AcceptedFit ==
  ASSUME World, NEW s, FitNow(s), exists, s.client.phase # "gone",
         ~s.superseded => s.client.at = None /\ \A a \in s.pending : ~a.sock,
         NEW t \in Cl!AcceptLogin(s)
  PROVE  FitNow(t)
<1>1. s \in LoginStates  BY DEF FitNow, Fit
<1>2. /\ t \in LoginStates /\ t.pending = s.pending /\ t.superseded = s.superseded
      /\ t.wild = s.wild /\ t.client.auth = s.client.auth /\ t.client.phase = s.client.phase
      /\ t.client.at \in nets \cup {"user"} /\ t.listed = s.listed \cup {t.client.at}
      /\ t.client.mech = None
  BY <1>1, AcceptLoginFacts DEF World
<1>3. Present(t, conns, mod)  BY <1>2 DEF FitNow, Fit, Present, None, Cl!None
<1>4. t.client.at # None  BY <1>2, LoginAssumption DEF World, None, Cl!None
<1>5. ~t.superseded => Waits(t, conns) /\ Linked(t) /\ Attached(t, nets, exists)
  BY <1>2, <1>4 DEF FitNow, Fit, Waits, Linked, Attached
<1> QED  BY <1>2, <1>3, <1>5 DEF FitNow, Fit

LEMMA SaslAcceptedFit ==
  ASSUME NEW s, FitNow(s), ~s.superseded => \A a \in s.pending : ~a.sock
  PROVE  FitNow(Cl!AcceptSASLLogin(s))
<1> DEFINE t == Cl!AcceptSASLLogin(s)
<1>1. s \in LoginStates  BY DEF FitNow, Fit
<1>2. /\ Rest(s, t) /\ t.client.at = s.client.at /\ t.client.auth = s.client.auth
      /\ t.client.phase = s.client.phase /\ t.client.mech = None
  BY <1>1, AcceptSASLLoginFacts
<1> HIDE DEF t
<1>3. Present(t, conns, mod)  BY <1>2 DEF FitNow, Fit, Present, Rest, None, Cl!None
<1>4. ~t.superseded => Waits(t, conns) /\ Linked(t) /\ Attached(t, nets, exists)
  BY <1>2 DEF FitNow, Fit, Waits, Linked, Attached, Rest
<1>5. FitNow(t)  BY <1>2, <1>3, <1>4 DEF FitNow, Fit, Rest
<1> QED  BY <1>5 DEF t

LEMMA RefusedFit ==
  ASSUME NEW s, FitNow(s), s.client.phase # "gone"
  PROVE  FitNow(Cl!RefuseLogin(s)) /\ FitNow(Cl!RefuseSASLLogin(s)) /\ FitNow(Cl!OnFailedLogin(s))
<1>1. s \in LoginStates  BY DEF FitNow, Fit
<1>2. FitNow(Cl!RefuseLogin(s))  BY <1>1, RefuseLoginFacts, SameFit DEF FitNow
<1>3. FitNow(Cl!RefuseSASLLogin(s))  BY <1>1, RefuseSASLLoginFacts, SameFit DEF FitNow
<1>4. Keeps(s.client, Cl!OnFailedLogin(s).client)
  BY <1>1, OnFailedLoginFacts DEF Keeps, LoginStates
<1>5. FitNow(Cl!OnFailedLogin(s))  BY <1>1, <1>4, OnFailedLoginFacts, SameFit DEF FitNow
<1> QED  BY <1>2, <1>3, <1>5

\* m_spAuth is replaced: if an auth still pointed to the client, it is superseded.
Begun(s) == [s EXCEPT !.client.auth = {}, !.superseded = @ \/ \E b \in s.pending : b.sock]

LEMMA BegunFacts ==
  ASSUME NEW s, FitNow(s), s.client.at = None, NEW t, t = Begun(s)
  PROVE  /\ FitNow(t) /\ t.client.at = None /\ t.client.phase = s.client.phase /\ t.client.auth = {}
         /\ t.client.saslUser = s.client.saslUser /\ t.client.name = s.client.name
         /\ t.pending = s.pending /\ (~t.superseded => \A b \in t.pending : ~b.sock)
<1>1. s \in LoginStates /\ s.client \in CClient  BY DEF FitNow, Fit, LoginStates
<1> DEFINE c == [s.client EXCEPT !.auth = {}]
           w == s.superseded \/ \E b \in s.pending : b.sock
<1>2. /\ c \in CClient /\ c.at = s.client.at /\ c.auth = {} /\ c.phase = s.client.phase
      /\ c.saslUser = s.client.saslUser /\ c.name = s.client.name /\ c.mech = s.client.mech
  BY <1>1 DEF CClient
<1>3. w \in BOOLEAN  OBVIOUS
<1>4. t = [s EXCEPT !.client = c, !.superseded = w]  BY <1>1 DEF Begun, LoginStates
<1>5. ~w => ~s.superseded /\ \A b \in s.pending : ~b.sock  OBVIOUS
<1> HIDE DEF c, w
<1>6. /\ t \in LoginStates /\ t.client = c /\ t.pending = s.pending /\ t.superseded = w
      /\ t.listed = s.listed /\ t.wild = s.wild
  BY <1>1, <1>2, <1>3, <1>4 DEF LoginStates
<1>7. Present(t, conns, mod)  BY <1>2, <1>6 DEF FitNow, Fit, Present
<1>8. ~w => Waits(t, conns) /\ Linked(t) /\ Attached(t, nets, exists)
  BY <1>2, <1>5, <1>6 DEF FitNow, Fit, Waits, Linked, Attached
<1> QED  BY <1>2, <1>5, <1>6, <1>7, <1>8 DEF FitNow, Fit

\* The auth waits for an answer.
LEMMA WaitingFit ==
  ASSUME World, NEW s, FitNow(s), s.client.phase # "gone", s.client.at = None,
         s.client.saslUser = None, mod = "imapauth",
         ~s.superseded => \A b \in s.pending : ~b.sock,
         NEW sasl \in BOOLEAN, NEW n \in {None, User, Nobody}, NEW a,
         a = [conn |-> conns, name |-> n, sasl |-> sasl, sock |-> TRUE],
         NEW t, t = [s EXCEPT !.pending = @ \cup {a}, !.client.auth = {a}]
  PROVE  FitNow(t)
<1>1. s \in LoginStates /\ s.client \in CClient  BY DEF FitNow, Fit, LoginStates
<1>2. conns \in 1..MaxConns  BY DEF FitNow, Fit, Present, World
<1>3. a \in Auths /\ a.conn = conns  BY <1>2 DEF Auths
<1> DEFINE c == [s.client EXCEPT !.auth = {a}]
           P == s.pending \cup {a}
<1>4. /\ c \in CClient /\ c.at = None /\ c.auth = {a} /\ c.phase = s.client.phase
      /\ c.saslUser = None /\ c.mech = s.client.mech
  BY <1>1, <1>3 DEF CClient
<1>5. P \in SUBSET Auths /\ \A b \in P : b = a \/ b \in s.pending  BY <1>1, <1>3 DEF LoginStates
<1>6. t = [s EXCEPT !.client = c, !.pending = P]  BY <1>1 DEF LoginStates
<1> HIDE DEF c, P
<1>7. /\ t \in LoginStates /\ t.client = c /\ t.pending = P /\ t.superseded = s.superseded
      /\ t.listed = s.listed /\ t.wild = s.wild
  BY <1>1, <1>4, <1>5, <1>6 DEF LoginStates
<1>8. Present(t, conns, mod)  BY <1>4, <1>7 DEF FitNow, Fit, Present
<1>9. ~t.superseded => Waits(t, conns) /\ Linked(t) /\ Attached(t, nets, exists)
  BY <1>3, <1>4, <1>5, <1>7 DEF FitNow, Fit, Waits, Linked, Attached
<1> QED  BY <1>7, <1>8, <1>9 DEF FitNow, Fit

LEMMA AttemptFit ==
  ASSUME World, NEW s, FitNow(s), s.client.phase # "gone", s.client.at = None,
         s.client.saslUser = None, NEW sasl \in BOOLEAN, NEW u \in Cl!Attempt(s, sasl)
  PROVE  FitNow(u)
<1> DEFINE a == [conn |-> conns, name |-> s.client.name, sasl |-> sasl, sock |-> TRUE]
           t == Begun(s)
<1>1. PICK v \in Cl!Verdicts(s, a) :
        u \in CASE v = "accept" -> Cl!Accepted(t, a)
                [] v = "refuse" -> Cl!Refused(t, a)
                [] v = "wait" -> {[t EXCEPT !.pending = @ \cup {a}, !.client.auth = {a}]}
  BY DEF Cl!Attempt, Begun
<1>2. /\ FitNow(t) /\ t.client.at = None /\ t.client.phase = s.client.phase
      /\ t.client.saslUser = None /\ t.client.name = s.client.name
      /\ ~t.superseded => \A b \in t.pending : ~b.sock
  BY BegunFacts
<1>3. /\ v \in {"accept", "refuse", "wait"} /\ (v = "accept" => exists)
      /\ v = "wait" => mod = "imapauth"
  BY VerdictsFacts DEF World
<1>4. a.sock /\ a.conn = conns /\ a.sasl = sasl  OBVIOUS
<1>5. s.client.name \in {None, User, Nobody}  BY DEF FitNow, Fit, LoginStates, CClient
<1>6. a = [conn |-> conns, name |-> s.client.name, sasl |-> sasl, sock |-> TRUE]  OBVIOUS
<1> HIDE DEF t, a
<1>7. CASE v = "accept"
  <2>1. u \in Cl!Accepted(t, a)  BY <1>1, <1>7
  <2>2. CASE sasl
    <3>1. u = Cl!AcceptSASLLogin(t)  BY <1>2, <1>4, <2>1, <2>2 DEF Cl!Accepted
    <3> QED  BY <1>2, <3>1, SaslAcceptedFit
  <2>3. CASE ~sasl
    <3>1. u \in Cl!AcceptLogin(t)  BY <1>2, <1>4, <2>1, <2>3 DEF Cl!Accepted
    <3> QED  BY <1>2, <1>3, <1>7, <3>1, AcceptedFit
  <2> QED  BY <2>2, <2>3
<1>8. CASE v = "refuse"
  <2>1. u \in Cl!Refused(t, a)  BY <1>1, <1>8
  <2> DEFINE w == Cl!OnFailedLogin(t)
  <2>2. u = IF sasl THEN Cl!RefuseSASLLogin(w) ELSE Cl!RefuseLogin(w)
    BY <1>2, <1>4, <2>1 DEF Cl!Refused
  <2>3. FitNow(w)  BY <1>2, RefusedFit
  <2>4. w.client.phase # "gone"  BY <1>2, OnFailedLoginFacts DEF FitNow, Fit
  <2> HIDE DEF w
  <2> QED  BY <2>2, <2>3, <2>4, RefusedFit
<1>9. CASE v = "wait"
  <2>1. u = [t EXCEPT !.pending = @ \cup {a}, !.client.auth = {a}]  BY <1>1, <1>9
  <2> QED  BY <1>2, <1>3, <1>5, <1>6, <1>9, <2>1, WaitingFit
<1> QED  BY <1>3, <1>7, <1>8, <1>9

LEMMA AuthUserFit ==
  ASSUME World, NEW s, FitNow(s), s.client.phase # "gone", NEW u \in Cl!AuthUser(s)
  PROVE  FitNow(u)
<1>1. CASE u = s  BY <1>1
<1>2. CASE u # s
  <2>1. s.client.at = None  BY <1>2 DEF Cl!AuthUser, Cl!IsAttached, None
  <2>2. CASE s.client.saslUser = None
    <3>1. u \in Cl!Attempt(s, FALSE)  BY <1>2, <2>2 DEF Cl!AuthUser, None
    <3> QED  BY <2>1, <2>2, <3>1, AttemptFit
  <2>3. CASE s.client.saslUser # None
    <3>1. (u \in Cl!AcceptLogin(s) /\ exists) \/ u = Cl!RefuseLogin(s)
      BY <1>2, <2>3 DEF Cl!AuthUser, None
    <3>2. ~s.superseded => \A a \in s.pending : ~a.sock  BY <2>3 DEF FitNow, Fit, Waits
    <3> QED  BY <2>1, <3>1, <3>2, AcceptedFit, RefusedFit
  <2> QED  BY <2>2, <2>3
<1> QED  BY <1>1, <1>2
-----------------------------------------------------------------------------
(* Steps *)

LEMMA LoginInvFacts ==
  LoginInv => /\ World /\ FitNow(Cl!State) /\ client \in CClient /\ Cl!State \in LoginStates
              /\ listed \in SUBSET Cl!Places /\ pending \in SUBSET Auths
<1> SUFFICES ASSUME LoginInv
             PROVE  /\ World /\ FitNow(Cl!State) /\ client \in CClient /\ Cl!State \in LoginStates
                    /\ listed \in SUBSET Cl!Places /\ pending \in SUBSET Auths
  OBVIOUS
<1>1. World /\ FitNow(Cl!State) /\ Cl!State \in LoginStates  BY DEF LoginInv, World, FitNow, Fit
<1>2. /\ Cl!State.client \in CClient /\ Cl!State.listed \in SUBSET Cl!Places
      /\ Cl!State.pending \in SUBSET Auths
  BY <1>1 DEF LoginStates
<1> QED  BY <1>1, <1>2, StateFacts

\* A step to a state that fits.
LEMMA BecomesInv ==
  ASSUME NEW s, Cl!Becomes(s), Fit(s, nets', exists', conns', mod'), World'
  PROVE  LoginInv'
<1>1. s \in LoginStates  BY DEF Fit
<1>2. Cl!State' = s  BY <1>1, BecomesState
<1> QED  BY <1>2 DEF LoginInv, World

LEMMA SaysInv ==
  ASSUME LoginInv, NEW T, Cl!Says(T), \A s \in T : FitNow(s)
  PROVE  LoginInv'
<1>1. PICK s \in T : Cl!Becomes(s)  BY DEF Cl!Says
<1>2. /\ lines < MaxLines /\ lines' = lines + 1
      /\ mod' = mod /\ exists' = exists /\ nets' = nets /\ blocked' = blocked /\ conns' = conns
  BY DEF Cl!Says, Cl!world
<1>3. World'  BY <1>2, LoginInvFacts, LoginAssumption DEF World
<1>4. Fit(s, nets', exists', conns', mod')  BY <1>1, <1>2 DEF FitNow
<1> QED  BY <1>1, <1>3, <1>4, BecomesInv

\* A line that changes none of the fields that Fit is about.
LEMMA ChangedFit ==
  ASSUME LoginInv, NEW c, Keeps(client, c)
  PROVE  /\ FitNow(Cl!Changed(c)) /\ Cl!Changed(c).client = c
         /\ client.phase # "gone" => c.phase # "gone"
<1> DEFINE t == Cl!Changed(c)
<1>1. c \in CClient /\ (client.phase # "gone" => c.phase # "gone")  BY DEF Keeps
<1>2. t.client = c /\ Rest(Cl!State, t)
  BY <1>1, LoginInvFacts, ClientReplaced DEF Cl!Changed
<1>3. FitNow(Cl!State) /\ Cl!State.client = client  BY LoginInvFacts, StateFacts
<1> HIDE DEF t
<1>4. Fit(t, nets, exists, conns, mod)  BY <1>2, <1>3, SameFit DEF FitNow
<1> QED  BY <1>1, <1>2, <1>4 DEF FitNow, t

LEMMA LineInv ==
  ASSUME LoginInv, NEW c, Keeps(client, c),
         Cl!Says(Cl!AuthUser(Cl!Changed(c))) \/ Cl!Says({Cl!Changed(c)})
  PROVE  LoginInv'
<1>1. client.phase # "gone"  BY DEF Cl!Says, Cl!Open
<1>2. FitNow(Cl!Changed(c)) /\ Cl!Changed(c).client.phase # "gone"  BY <1>1, ChangedFit
<1>3. \A s \in Cl!AuthUser(Cl!Changed(c)) : FitNow(s)  BY <1>2, LoginInvFacts, AuthUserFit
<1>4. \A s \in {Cl!Changed(c)} : FitNow(s)  BY <1>2
<1> QED  BY <1>3, <1>4, SaysInv

LEMMA PassInv == ASSUME LoginInv, Cl!Pass PROVE LoginInv'
<1>0. client \in CClient  BY LoginInvFacts
<1>1. PICK name \in {client.name, User, Nobody}, net \in Networks \cup {client.net} :
        Cl!Says(Cl!AuthUser(Cl!Changed([client EXCEPT !.pass = TRUE, !.name = name, !.net = net])))
  BY Zenon DEF Cl!Pass
<1> DEFINE c == [client EXCEPT !.pass = TRUE, !.name = name, !.net = net]
<1>2. name \in {None, User, Nobody} /\ net \in Networks \cup {None}  BY <1>0 DEF CClient
<1>3. Keeps(client, c)  BY <1>0, <1>2 DEF Keeps, CClient
<1>4. Cl!Says(Cl!AuthUser(Cl!Changed(c)))  BY <1>1
<1> HIDE DEF c
<1> QED  BY <1>3, <1>4, LineInv

LEMMA NickInv == ASSUME LoginInv, Cl!Nick PROVE LoginInv'
<1>0. client \in CClient  BY LoginInvFacts
<1> DEFINE c == [client EXCEPT !.nick = TRUE]
<1>1. Keeps(client, c)  BY <1>0 DEF Keeps, CClient
<1>2. Cl!Says(Cl!AuthUser(Cl!Changed(c)))  BY DEF Cl!Nick
<1> HIDE DEF c
<1> QED  BY <1>1, <1>2, LineInv

LEMMA UserLineInv == ASSUME LoginInv, Cl!UserLine PROVE LoginInv'
<1>0. client \in CClient  BY LoginInvFacts
<1> DEFINE n == IF client.name = None THEN User ELSE client.name
           c == [client EXCEPT !.user = TRUE, !.name = n]
<1>1. n \in {None, User, Nobody}  BY <1>0 DEF CClient
<1>2. Cl!Says(IF c.pass \/ c.saslUser # None THEN Cl!AuthUser(Cl!Changed(c)) ELSE {Cl!Changed(c)})
  BY DEF Cl!UserLine, None
<1> HIDE DEF n
<1>3. Keeps(client, c)  BY <1>0, <1>1 DEF Keeps, CClient
<1> HIDE DEF c
<1>4. Cl!Says(Cl!AuthUser(Cl!Changed(c))) \/ Cl!Says({Cl!Changed(c)})  BY <1>2
<1> QED  BY <1>3, <1>4, LineInv

LEMMA CapInv == ASSUME LoginInv, Cl!CapLs \/ Cl!CapReq \/ Cl!CapEnd PROVE LoginInv'
<1>0. client \in CClient  BY LoginInvFacts
<1>1. CASE Cl!CapLs
  <2> DEFINE c == [client EXCEPT !.inCap = TRUE]
  <2>1. Keeps(client, c)  BY <1>0 DEF Keeps, CClient
  <2>2. Cl!Says({Cl!Changed(c)})  BY <1>1 DEF Cl!CapLs
  <2> HIDE DEF c
  <2> QED  BY <2>1, <2>2, LineInv
<1>2. CASE Cl!CapReq
  <2> DEFINE C(b) == [client EXCEPT !.inCap = TRUE, !.saslCap = b]
             T == {Cl!Changed(C(b)) : b \in {TRUE, client.saslCap}}
  <2>1. \A b \in {TRUE, client.saslCap} : Keeps(client, C(b))  BY <1>0 DEF Keeps, CClient
  <2>2. Cl!Says(T)  BY <1>2 DEF Cl!CapReq
  <2> HIDE DEF C
  <2>3. \A s \in T : FitNow(s)  BY <2>1, ChangedFit
  <2> HIDE DEF T
  <2> QED  BY <2>2, <2>3, SaysInv
<1>3. CASE Cl!CapEnd
  <2> DEFINE c == Cl!AbortSASL([client EXCEPT !.inCap = FALSE])
  <2>1. Keeps(client, c)  BY <1>0 DEF Keeps, CClient, Cl!AbortSASL, None, AllMechs
  <2>2. Cl!Says(IF c.user /\ c.saslUser = None /\ ~c.pass THEN {Cl!Changed(c)}
                ELSE Cl!AuthUser(Cl!Changed(c)))
    BY <1>3 DEF Cl!CapEnd, None
  <2> HIDE DEF c
  <2>3. Cl!Says(Cl!AuthUser(Cl!Changed(c))) \/ Cl!Says({Cl!Changed(c)})  BY <2>2
  <2> QED  BY <2>1, <2>3, LineInv
<1> QED  BY <1>1, <1>2, <1>3

LEMMA AuthenticateInv == ASSUME LoginInv, Cl!Authenticate \/ Cl!SaslAbort PROVE LoginInv'
<1>0. client \in CClient  BY LoginInvFacts
<1>1. CASE Cl!Authenticate
  <2>1. PICK m \in Cl!Mechanisms \ client.failedMechs :
          Cl!Says({Cl!Changed([client EXCEPT !.mech = m])})
    BY <1>1, Zenon DEF Cl!Authenticate
  <2>2. m \in AllMechs  BY DEF Cl!Mechanisms, AllMechs
  <2> DEFINE c == [client EXCEPT !.mech = m]
             t == Cl!Changed(c)
  <2>3. /\ c \in CClient /\ c.at = client.at /\ c.auth = client.auth /\ c.saslUser = client.saslUser
        /\ c.phase = client.phase /\ c.mech = m
    BY <1>0, <2>2 DEF CClient
  <2>4. Cl!Says({t})  BY <2>1
  <2> HIDE DEF c
  <2>5. t.client = c /\ Rest(Cl!State, t)
    BY <2>3, LoginInvFacts, ClientReplaced DEF Cl!Changed
  <2> HIDE DEF t
  <2>6. FitNow(Cl!State) /\ Cl!State.client = client  BY LoginInvFacts, StateFacts
  <2>7. m = "EXTERNAL" => mod = "certauth"  BY DEF Cl!Mechanisms
  <2>8. Present(t, conns, mod)  BY <2>3, <2>5, <2>6, <2>7 DEF FitNow, Fit, Present, Rest
  <2>9. ~t.superseded => Waits(t, conns) /\ Linked(t) /\ Attached(t, nets, exists)
    BY <2>3, <2>5, <2>6 DEF FitNow, Fit, Waits, Linked, Attached, Rest
  <2>10. \A x \in {t} : FitNow(x)  BY <2>5, <2>8, <2>9 DEF FitNow, Fit, Rest
  <2> QED  BY <2>4, <2>10, SaysInv
<1>2. CASE Cl!SaslAbort
  <2> DEFINE c == Cl!AbortSASL(client)
  <2>1. Keeps(client, c)  BY <1>0 DEF Keeps, CClient, Cl!AbortSASL, None, AllMechs
  <2>2. Cl!Says({Cl!Changed(c)})  BY <1>2 DEF Cl!SaslAbort
  <2> HIDE DEF c
  <2> QED  BY <2>1, <2>2, LineInv
<1> QED  BY <1>1, <1>2

\* EXTERNAL is certauth's, which answers at once: no auth waits.
LEMMA SaslResponseInv == ASSUME LoginInv, Cl!SaslResponse PROVE LoginInv'
<1>0. client \in CClient /\ World  BY LoginInvFacts
<1>1. PICK name \in {User, Nobody} :
        LET s == Cl!Changed([client EXCEPT !.name = name])
        IN  Cl!Says(IF client.mech = "EXTERNAL"
                    THEN {Cl!RefuseSASLLogin(s)}
                         \cup IF exists /\ name = User THEN {Cl!AcceptSASLLogin(s)} ELSE {}
                    ELSE Cl!Attempt(s, TRUE) \cup Cl!Attempt(Cl!RefuseSASLLogin(s), TRUE))
  BY Zenon DEF Cl!SaslResponse
<1> DEFINE c == [client EXCEPT !.name = name]
           s == Cl!Changed(c)
           T == IF client.mech = "EXTERNAL"
                THEN {Cl!RefuseSASLLogin(s)}
                     \cup IF exists /\ name = User THEN {Cl!AcceptSASLLogin(s)} ELSE {}
                ELSE Cl!Attempt(s, TRUE) \cup Cl!Attempt(Cl!RefuseSASLLogin(s), TRUE)
<1>2. Cl!Says(T)  BY <1>1
<1>3. Keeps(client, c)  BY <1>0 DEF Keeps, CClient
<1>4. client.saslUser = None  BY DEF Cl!SaslResponse, Cl!MaySASL, None
<1> HIDE DEF c
<1>5. client.phase # "gone" /\ client.at = None  BY <1>2 DEF Cl!Says, Cl!Open, Cl!IsAttached, None
<1>6. FitNow(s) /\ s.client = c  BY <1>3, ChangedFit
<1>7. s.client.phase # "gone" /\ s.client.at = None /\ s.client.saslUser = None
  BY <1>3, <1>4, <1>5, <1>6 DEF Keeps
<1> HIDE DEF s
<1>8. \A t \in T : FitNow(t)
  <2>1. CASE client.mech = "EXTERNAL" /\ s.pending = {}
    <3>1. FitNow(Cl!RefuseSASLLogin(s))  BY <1>6, <1>7, RefusedFit
    <3>2. FitNow(Cl!AcceptSASLLogin(s))  BY <1>6, <2>1, SaslAcceptedFit
    <3> QED  BY <2>1, <3>1, <3>2
  <2>2. CASE client.mech # "EXTERNAL"
    <3> DEFINE r == Cl!RefuseSASLLogin(s)
    <3>1. FitNow(r)  BY <1>6, <1>7, RefusedFit
    <3>2. Keeps(s.client, r.client)  BY <1>6, RefuseSASLLoginFacts DEF FitNow, Fit
    <3> HIDE DEF r
    <3>3. r.client.phase # "gone" /\ r.client.at = None /\ r.client.saslUser = None
      BY <1>7, <3>2 DEF Keeps
    <3>4. \A t \in Cl!Attempt(s, TRUE) : FitNow(t)  BY <1>0, <1>6, <1>7, AttemptFit
    <3>5. \A t \in Cl!Attempt(r, TRUE) : FitNow(t)  BY <1>0, <3>1, <3>3, AttemptFit
    <3> QED  BY <2>2, <3>4, <3>5 DEF r
  <2>3. client.mech = "EXTERNAL" => s.pending = {}
    <3>1. s.pending = pending  BY <1>0, LoginInvFacts DEF s, Cl!Changed, Cl!State
    <3>2. Present(Cl!State, conns, mod)  BY LoginInvFacts DEF FitNow, Fit
    <3> QED  BY <3>1, <3>2, StateFacts DEF Present
  <2> QED  BY <2>1, <2>2, <2>3
<1> HIDE DEF T
<1> QED  BY <1>2, <1>8, SaysInv
-----------------------------------------------------------------------------
(* The connection *)

\* After a client is deleted nothing points to it, whatever else goes with it.
LEMMA DeletedFit ==
  ASSUME NEW s, NEW N, NEW E, NEW k \in Nat, NEW m, Fit(s, N, E, k, m), NEW N2, NEW E2,
         NEW t, t = Cl!Deleted(s)
  PROVE  Fit(t, N2, E2, k, m)
<1> DEFINE P == {IF a \in s.client.auth THEN [a EXCEPT !.sock = FALSE] ELSE a : a \in s.pending}
           L == s.listed \ {s.client.at}
           c == Cl!NewClient
<1>1. s \in LoginStates /\ s.pending \in SUBSET Auths  BY DEF Fit, LoginStates
<1>2. \A a \in Auths : [a EXCEPT !.sock = FALSE] \in Auths /\ [a EXCEPT !.sock = FALSE].sock = FALSE
  BY DEF Auths
<1>3. P \in SUBSET Auths /\ (P # {} => s.pending # {})  BY <1>1, <1>2
<1>4. (\A a \in s.pending : a.sock => a \in s.client.auth) => \A a \in P : ~a.sock
  BY <1>1, <1>2
<1>5. L \in SUBSET Cl!Places  BY <1>1 DEF LoginStates
<1>6. t = [s EXCEPT !.client = c, !.listed = L, !.pending = P]  BY DEF Cl!Deleted
<1>7. /\ c \in CClient /\ c.at = None /\ c.auth = {} /\ c.phase = "gone" /\ c.mech = None
  BY NewClientFacts DEF Cl!NewClient, None
<1>8. s.listed = (IF s.client.at = None THEN {} ELSE {s.client.at}) => L = {}
  OBVIOUS
<1> HIDE DEF P, L, c
<1>9. /\ t \in LoginStates /\ t.client = c /\ t.listed = L /\ t.pending = P
      /\ t.superseded = s.superseded /\ t.wild = s.wild
  BY <1>1, <1>3, <1>5, <1>6, <1>7 DEF LoginStates
<1>10. Present(t, k, m)  BY <1>3, <1>7, <1>9 DEF Fit, Present, None, Cl!None
<1>11. ~t.superseded => Waits(t, k) /\ Linked(t) /\ Attached(t, N2, E2)
  BY <1>4, <1>7, <1>8, <1>9 DEF Fit, Waits, Linked, Attached
<1> QED  BY <1>9, <1>10, <1>11 DEF Fit

LEMMA ConnectInv ==
  ASSUME LoginInv, Cl!Connect
  PROVE  LoginInv'
<1>0. World /\ FitNow(Cl!State) /\ Cl!State \in LoginStates /\ Cl!State.client = client
  BY LoginInvFacts, StateFacts
<1>1. /\ client.phase = "gone" /\ conns < MaxConns /\ conns' = conns + 1 /\ lines' = 0
      /\ mod' = mod /\ exists' = exists /\ nets' = nets /\ blocked' = blocked
  BY DEF Cl!Connect, Cl!world
<1>2. World' /\ conns' > 0  BY <1>0, <1>1, LoginAssumption DEF World
<1> DEFINE c == [Cl!NewClient EXCEPT !.phase = "incoming"]
           s == Cl!Changed(c)
<1>3. /\ c \in CClient /\ c.at = None /\ c.auth = {} /\ c.phase = "incoming" /\ c.saslUser = None
      /\ c.mech = None
  <2>1. Cl!NewClient.mech = None  BY DEF Cl!NewClient, None
  <2> QED  BY <2>1, NewClientFacts DEF CClient
<1>4. Cl!Becomes(s) \/ Cl!Becomes(Cl!RefuseLogin(s)) \/ Cl!Becomes(Cl!OnFailedLogin(Cl!RefuseLogin(s)))
  BY DEF Cl!Connect
<1> HIDE DEF c
<1>5. s.client = c /\ Rest(Cl!State, s)  BY <1>0, <1>3, ClientReplaced DEF Cl!Changed
<1> HIDE DEF s
<1>6. Present(s, conns', mod')
  BY <1>0, <1>1, <1>2, <1>3, <1>5 DEF FitNow, Fit, Present, Rest, None, Cl!None
<1>7. ~s.superseded => Waits(s, conns') /\ Linked(s) /\ Attached(s, nets', exists')
  <2>1. client.at = None /\ client.auth = {}  BY <1>0, <1>1 DEF FitNow, Fit, Present
  <2> QED  BY <1>0, <1>3, <1>5, <2>1 DEF FitNow, Fit, Waits, Linked, Attached, Rest
<1>8. Fit(s, nets', exists', conns', mod')  BY <1>5, <1>6, <1>7 DEF Fit, Rest
<1> DEFINE r == Cl!RefuseLogin(s)
           f == Cl!OnFailedLogin(r)
<1>9. Rest(s, r) /\ Keeps(s.client, r.client)  BY <1>3, <1>5, RefuseLoginFacts DEF Rest
<1>10. Fit(r, nets', exists', conns', mod')  BY <1>8, <1>9, SameFit
<1>11. r \in LoginStates  BY <1>9 DEF Rest
<1> HIDE DEF r
<1>12. Rest(r, f) /\ f.client = r.client  BY <1>11, OnFailedLoginFacts
<1>13. Keeps(r.client, f.client)  BY <1>11, <1>12 DEF Keeps, LoginStates
<1>14. Fit(f, nets', exists', conns', mod')  BY <1>10, <1>12, <1>13, SameFit
<1> QED  BY <1>2, <1>4, <1>8, <1>10, <1>14, BecomesInv DEF r

LEMMA FirstLineInv == ASSUME LoginInv, Cl!FirstLine PROVE LoginInv'
<1>0. client \in CClient /\ World /\ Cl!State \in LoginStates  BY LoginInvFacts
<1>1. PICK p \in {"open", "closing"} : client' = [client EXCEPT !.phase = p]
  BY DEF Cl!FirstLine
<1>2. /\ client.phase = "incoming" /\ UNCHANGED <<mod, exists, nets, blocked, attempts, listed>>
      /\ UNCHANGED <<pending, lines, conns, superseded, late, wild>>
  BY DEF Cl!FirstLine, Cl!world, Cl!ghosts
<1> DEFINE c == [client EXCEPT !.phase = p]
<1>3. Keeps(client, c)  BY <1>0, <1>2 DEF Keeps, CClient
<1>4. client' = c  BY <1>1
<1> HIDE DEF c
<1>5. Cl!State' = Cl!Changed(c)  BY <1>2, <1>4 DEF Cl!State, Cl!Changed
<1>6. FitNow(Cl!Changed(c))  BY <1>3, ChangedFit
<1> QED  BY <1>0, <1>2, <1>5, <1>6 DEF LoginInv, FitNow, World

LEMMA ClosedInv == ASSUME LoginInv, Cl!Closed PROVE LoginInv'
<1>0. World /\ FitNow(Cl!State) /\ conns \in Nat  BY LoginInvFacts, LoginAssumption DEF World
<1>1. /\ Cl!Becomes(Cl!Deleted(Cl!State))
      /\ mod' = mod /\ exists' = exists /\ nets' = nets /\ blocked' = blocked
      /\ lines' = lines /\ conns' = conns
  BY DEF Cl!Closed, Cl!world
<1>2. Fit(Cl!Deleted(Cl!State), nets', exists', conns', mod')
  BY <1>0, <1>1, DeletedFit DEF FitNow
<1>3. World'  BY <1>0, <1>1 DEF World
<1> QED  BY <1>1, <1>2, <1>3, BecomesInv

\* An answer: the auth is done with.
LEMMA DoneFit ==
  ASSUME NEW s, FitNow(s), NEW a, NEW t, t = [s EXCEPT !.pending = @ \ {a}, !.client.auth = @ \ {a}]
  PROVE  FitNow(t)
<1>1. s \in LoginStates /\ s.client \in CClient  BY DEF FitNow, Fit, LoginStates
<1> DEFINE c == [s.client EXCEPT !.auth = s.client.auth \ {a}]
           P == s.pending \ {a}
<1>2. /\ c \in CClient /\ c.at = s.client.at /\ c.auth = s.client.auth \ {a}
      /\ c.phase = s.client.phase /\ c.saslUser = s.client.saslUser /\ c.mech = s.client.mech
  BY <1>1 DEF CClient
<1>3. t = [s EXCEPT !.client = c, !.pending = P]  BY <1>1 DEF LoginStates
<1>4. P \in SUBSET Auths /\ \A b \in P : b \in s.pending /\ b # a  BY <1>1 DEF LoginStates
<1> HIDE DEF c, P
<1>5. /\ t \in LoginStates /\ t.client = c /\ t.pending = P /\ t.superseded = s.superseded
      /\ t.listed = s.listed /\ t.wild = s.wild
  BY <1>1, <1>2, <1>3, <1>4 DEF LoginStates
<1>6. Present(t, conns, mod)  BY <1>2, <1>4, <1>5 DEF FitNow, Fit, Present
<1>7. ~t.superseded => Waits(t, conns) /\ Linked(t) /\ Attached(t, nets, exists)
  BY <1>2, <1>4, <1>5 DEF FitNow, Fit, Waits, Linked, Attached
<1> QED  BY <1>5, <1>6, <1>7 DEF FitNow, Fit

\* The client was told something by the auth that it waits for.
LEMMA ToldFit ==
  ASSUME NEW s, FitNow(s), NEW a \in s.pending, a.sock,
         NEW t \in LoginStates, t.pending = s.pending, t.superseded = s.superseded,
         t.client.auth = s.client.auth, t.client.mech \in {s.client.mech, None},
         t.client.phase = "gone" <=> s.client.phase = "gone",
         t.client.phase = "gone" => t.client.at = None,
         ~s.superseded => Linked(t) /\ Attached(t, nets, exists),
         NEW u, u = [t EXCEPT !.pending = @ \ {a}, !.client.auth = @ \ {a}]
  PROVE  FitNow(u)
<1>1. t.client \in CClient /\ t.pending \in SUBSET Auths  BY DEF LoginStates
<1> DEFINE c == [t.client EXCEPT !.auth = t.client.auth \ {a}]
           P == t.pending \ {a}
<1>2. /\ c \in CClient /\ c.at = t.client.at /\ c.auth = t.client.auth \ {a}
      /\ c.phase = t.client.phase /\ c.mech = t.client.mech
  BY <1>1 DEF CClient
<1>3. u = [t EXCEPT !.client = c, !.pending = P]  BY <1>1 DEF LoginStates
<1>4. P \in SUBSET Auths /\ \A b \in P : b \in s.pending /\ b # a  BY <1>1
<1> HIDE DEF c, P
<1>5. /\ u \in LoginStates /\ u.client = c /\ u.pending = P /\ u.superseded = s.superseded
      /\ u.listed = t.listed /\ u.wild = t.wild
  BY <1>1, <1>2, <1>3, <1>4 DEF LoginStates
<1>6. Present(u, conns, mod)
  BY <1>2, <1>4, <1>5 DEF FitNow, Fit, Present, None, Cl!None
<1>7. ~s.superseded => \A b \in P : ~b.sock  BY <1>4 DEF FitNow, Fit, Waits, Present
<1>8. ~s.superseded => Waits(u, conns)  BY <1>5, <1>7 DEF Waits
<1>9. ~s.superseded => Linked(u) /\ Attached(u, nets, exists)
  BY <1>2, <1>5 DEF Linked, Attached
<1> QED  BY <1>5, <1>6, <1>8, <1>9 DEF FitNow, Fit

\* No answer is given to a client that is gone, unless the auth was superseded.
LEMMA AnswerInv == ASSUME LoginInv, Cl!Answer PROVE LoginInv'
<1> DEFINE s == Cl!State
<1>0. World /\ FitNow(s) /\ s \in LoginStates /\ s.pending = pending
  BY LoginInvFacts, StateFacts
<1>1. PICK a \in pending :
        /\ \E t \in Cl!Refused(s, a) \cup IF exists THEN Cl!Accepted(s, a) ELSE {} :
             Cl!Becomes([t EXCEPT !.pending = @ \ {a}, !.client.auth = @ \ {a}])
        /\ UNCHANGED <<Cl!world, lines, conns>>
  BY Zenon DEF Cl!Answer
<1>2. PICK t \in Cl!Refused(s, a) \cup IF exists THEN Cl!Accepted(s, a) ELSE {} :
        Cl!Becomes([t EXCEPT !.pending = @ \ {a}, !.client.auth = @ \ {a}])
  BY <1>1
<1>3. t \in Cl!Refused(s, a) \/ (exists /\ t \in Cl!Accepted(s, a))  BY <1>2
<1> DEFINE u == [t EXCEPT !.pending = @ \ {a}, !.client.auth = @ \ {a}]
<1>4. Cl!Becomes(u)  BY <1>2
<1>5. World' /\ mod' = mod /\ exists' = exists /\ nets' = nets /\ conns' = conns
  BY <1>0, <1>1 DEF World, Cl!world
<1>6. u = [t EXCEPT !.pending = @ \ {a}, !.client.auth = @ \ {a}]  OBVIOUS
<1> HIDE DEF s, u
<1>7. FitNow(u)
  <2>1. CASE ~a.sock
    <3>1. t = s  BY <1>3, <2>1 DEF Cl!Refused, Cl!Accepted
    <3> QED  BY <1>0, <1>6, <3>1, DoneFit
  <2>2. CASE a.sock /\ (a.conn # conns \/ s.client.phase = "gone")
    <3>1. t = [s EXCEPT !.wild = TRUE]  BY <1>3, <2>2 DEF Cl!Refused, Cl!Accepted
    <3>2. s.superseded
      BY <1>0, <1>1, <2>2 DEF FitNow, Fit, Waits, Present
    <3>3. t \in LoginStates /\ t.superseded = s.superseded /\ t.pending = s.pending /\ t.client = s.client
      BY <1>0, <3>1 DEF LoginStates
    <3>4. FitNow(t)  BY <1>0, <3>2, <3>3 DEF FitNow, Fit, Present, LoginStates
    <3> QED  BY <1>6, <3>4, DoneFit
  <2>3. CASE a.sock /\ a.conn = conns /\ s.client.phase # "gone"
    <3>1. CASE t \in Cl!Refused(s, a)
      <4> DEFINE f == Cl!OnFailedLogin(s)
      <4>1. t = IF a.sasl THEN Cl!RefuseSASLLogin(f) ELSE Cl!RefuseLogin(f)
        BY <2>3, <3>1 DEF Cl!Refused
      <4>2. FitNow(f)  BY <1>0, <2>3, RefusedFit
      <4>3. f.client = s.client /\ f \in LoginStates /\ f.pending = s.pending
        BY <1>0, OnFailedLoginFacts DEF Rest
      <4> HIDE DEF f
      <4>4. FitNow(t)  BY <2>3, <4>1, <4>2, <4>3, RefusedFit
      <4> QED  BY <1>6, <4>4, DoneFit
    <3>2. CASE exists /\ t \in Cl!Accepted(s, a) /\ a.sasl
      <4>1. t = Cl!AcceptSASLLogin(s)  BY <2>3, <3>2 DEF Cl!Accepted
      <4>2. /\ Rest(s, t) /\ t.client.at = s.client.at /\ t.client.auth = s.client.auth
            /\ t.client.phase = s.client.phase /\ t.client.mech = None
        BY <1>0, <4>1, AcceptSASLLoginFacts
      <4>3. ~s.superseded => Linked(t) /\ Attached(t, nets, exists)
        BY <1>0, <4>2 DEF FitNow, Fit, Linked, Attached, Rest
      <4> QED  BY <1>0, <1>1, <1>6, <2>3, <4>2, <4>3, ToldFit DEF Rest
    <3>3. CASE exists /\ t \in Cl!Accepted(s, a) /\ ~a.sasl
      <4>1. t \in Cl!AcceptLogin(s)  BY <2>3, <3>3 DEF Cl!Accepted
      <4>2. /\ t \in LoginStates /\ t.pending = s.pending /\ t.superseded = s.superseded
            /\ t.wild = s.wild /\ t.client.auth = s.client.auth /\ t.client.phase = s.client.phase
            /\ t.client.at \in nets \cup {"user"} /\ t.listed = s.listed \cup {t.client.at}
            /\ t.client.mech = None
        BY <1>0, <4>1, AcceptLoginFacts DEF World
      <4>3. t.client.at # None  BY <1>0, <4>2, LoginAssumption DEF World, None, Cl!None
      <4>4. ~s.superseded => s.client.at = None  BY <1>0, <1>1, <2>3 DEF FitNow, Fit, Waits
      <4>5. ~s.superseded => Linked(t) /\ Attached(t, nets, exists)
        BY <1>0, <3>3, <4>2, <4>3, <4>4 DEF FitNow, Fit, Linked, Attached
      <4> QED  BY <1>0, <1>1, <1>6, <2>3, <4>2, <4>5, ToldFit
    <3> QED  BY <1>3, <3>1, <3>2, <3>3
  <2> QED  BY <2>1, <2>2, <2>3
<1> QED  BY <1>4, <1>5, <1>7, BecomesInv DEF FitNow

\* An attached client goes to another list.
LEMMA SetNetworkFit ==
  ASSUME NEW s, NEW N, NEW E, NEW k, NEW m, Fit(s, N, E, k, m), s.client.at # None,
         s.client.phase # "gone", NEW p \in Cl!Places, NEW N2, p \in N2 \cup {"user"},
         NEW t, t = Cl!SetNetwork(s, p)
  PROVE  Fit(t, N2, E, k, m)
<1>1. s \in LoginStates /\ s.client \in CClient  BY DEF Fit, LoginStates
<1> DEFINE c == [s.client EXCEPT !.at = p]
           L == (s.listed \ {s.client.at}) \cup {p}
<1>2. /\ c \in CClient /\ c.at = p /\ c.auth = s.client.auth /\ c.phase = s.client.phase
      /\ c.saslUser = s.client.saslUser /\ c.mech = s.client.mech
  BY <1>1 DEF CClient
<1>3. t = [s EXCEPT !.client = c, !.listed = L]  BY <1>1 DEF Cl!SetNetwork, LoginStates
<1>4. L \in SUBSET Cl!Places /\ (s.listed = {s.client.at} => L = {p})  BY <1>1 DEF LoginStates
<1> HIDE DEF c, L
<1>5. /\ t \in LoginStates /\ t.client = c /\ t.listed = L /\ t.pending = s.pending
      /\ t.superseded = s.superseded /\ t.wild = s.wild
  BY <1>1, <1>2, <1>3, <1>4 DEF LoginStates
<1>6. p # None  BY LoginAssumption DEF Cl!Places, None, Cl!None
<1>7. Present(t, k, m)  BY <1>2, <1>5 DEF Fit, Present
<1>8. ~t.superseded => Waits(t, k) /\ Linked(t) /\ Attached(t, N2, E)
  BY <1>2, <1>4, <1>5, <1>6 DEF Fit, Waits, Linked, Attached
<1> QED  BY <1>5, <1>7, <1>8 DEF Fit

LEMMA JumpNetworkInv == ASSUME LoginInv, Cl!JumpNetwork PROVE LoginInv'
<1>0. World /\ FitNow(Cl!State) /\ Cl!State.client = client  BY LoginInvFacts, StateFacts
<1>1. PICK n \in nets : Cl!Becomes(Cl!SetNetwork(Cl!State, n))  BY DEF Cl!JumpNetwork
<1>2. /\ client.phase # "gone" /\ client.at # None
      /\ mod' = mod /\ exists' = exists /\ nets' = nets /\ blocked' = blocked
      /\ lines' = lines /\ conns' = conns
  BY DEF Cl!JumpNetwork, Cl!world, Cl!Open, Cl!IsAttached, None
<1>3. n \in Cl!Places  BY <1>0 DEF World, Cl!Places
<1>4. Fit(Cl!SetNetwork(Cl!State, n), nets', exists', conns', mod')
  BY <1>0, <1>1, <1>2, <1>3, SetNetworkFit DEF FitNow
<1>5. World'  BY <1>0, <1>2 DEF World
<1> QED  BY <1>1, <1>4, <1>5, BecomesInv

\* A client that is in a list which goes is deleted; one that is not stays.
LEMMA LostFit ==
  ASSUME LoginInv, NEW places, NEW N2, NEW E2,
         listed \cap places = {} /\ ~superseded => Attached(Cl!State, N2, E2)
  PROVE  Fit(Cl!Lost(places), N2, E2, conns, mod)
<1>0. World /\ FitNow(Cl!State) /\ conns \in Nat  BY LoginInvFacts, LoginAssumption DEF World
<1>1. CASE listed \cap places = {}
  <2>1. Cl!Lost(places) = Cl!State  BY <1>1 DEF Cl!Lost
  <2> QED  BY <1>0, <1>1, <2>1, StateFacts DEF FitNow, Fit
<1>2. CASE listed \cap places # {}
  <2>1. Cl!Lost(places) = Cl!Deleted(Cl!State)  BY <1>2 DEF Cl!Lost
  <2> QED  BY <1>0, <2>1, DeletedFit DEF FitNow
<1> QED  BY <1>1, <1>2

LEMMA DelNetworkInv == ASSUME LoginInv, NEW n \in Networks, Cl!DelNetwork(n) PROVE LoginInv'
<1>0. World /\ FitNow(Cl!State) /\ Cl!State.client = client /\ Cl!State.listed = listed
      /\ Cl!State.superseded = superseded
  BY LoginInvFacts, StateFacts
<1>1. /\ nets' = nets \ {n} /\ mod' = mod /\ exists' = exists /\ blocked' = blocked
      /\ lines' = lines /\ conns' = conns
  BY DEF Cl!DelNetwork
<1>2. World'  BY <1>0, <1>1 DEF World
<1>3. CASE Cl!Open /\ client.at = n /\ Cl!Becomes(Cl!SetNetwork(Cl!State, "user"))
  <2>1. client.phase # "gone" /\ client.at # None /\ "user" \in Cl!Places
    BY <1>3, LoginAssumption DEF Cl!Open, Cl!Places, None, Cl!None
  <2>2. Fit(Cl!SetNetwork(Cl!State, "user"), nets', exists', conns', mod')
    BY <1>0, <1>1, <2>1, SetNetworkFit DEF FitNow
  <2> QED  BY <1>2, <1>3, <2>2, BecomesInv
<1>4. CASE Cl!Becomes(Cl!Lost({n}))
  <2>1. listed \cap {n} = {} /\ ~superseded => Attached(Cl!State, nets', exists')
    BY <1>0, <1>1 DEF FitNow, Fit, Linked, Attached
  <2>2. Fit(Cl!Lost({n}), nets', exists', conns, mod)
    <3> DEFINE S == {n}
    <3>1. listed \cap S = {} /\ ~superseded => Attached(Cl!State, nets', exists')  BY <2>1
    <3> HIDE DEF S
    <3>2. Fit(Cl!Lost(S), nets', exists', conns, mod)  BY <3>1, LostFit
    <3> QED  BY <3>2 DEF S
  <2> QED  BY <1>1, <1>2, <1>4, <2>2, BecomesInv
<1> QED  BY <1>3, <1>4 DEF Cl!DelNetwork

LEMMA UserInv == ASSUME LoginInv, Cl!DelUser \/ Cl!AddUser PROVE LoginInv'
<1>0. World /\ FitNow(Cl!State) /\ Cl!State.client = client /\ Cl!State.listed = listed
      /\ Cl!State.superseded = superseded
  BY LoginInvFacts, StateFacts
<1>1. CASE Cl!DelUser
  <2>1. /\ nets' = {} /\ exists' = FALSE /\ mod' = mod /\ blocked' = blocked /\ lines' = lines
        /\ conns' = conns /\ Cl!Becomes(Cl!Lost(Cl!Places))
    BY <1>1 DEF Cl!DelUser
  <2>2. listed \cap Cl!Places = {} /\ ~superseded => Attached(Cl!State, nets', exists')
    BY <1>0, LoginInvFacts DEF FitNow, Fit, Linked, Attached
  <2>3. Fit(Cl!Lost(Cl!Places), nets', exists', conns, mod)  BY <2>2, LostFit
  <2>4. World'  BY <1>0, <2>1 DEF World
  <2> QED  BY <2>1, <2>3, <2>4, BecomesInv
<1>2. CASE Cl!AddUser
  <2>1. /\ nets' = nets /\ exists' = TRUE /\ mod' = mod /\ blocked' = blocked /\ lines' = lines
        /\ conns' = conns /\ Cl!Becomes(Cl!State)
    BY <1>2 DEF Cl!AddUser
  <2>2. Fit(Cl!State, nets', exists', conns', mod')  BY <1>0, <2>1 DEF FitNow, Fit, Attached
  <2>3. World'  BY <1>0, <2>1 DEF World
  <2> QED  BY <2>1, <2>2, <2>3, BecomesInv
<1> QED  BY <1>1, <1>2

LEMMA BlockInv == ASSUME LoginInv, Cl!Block PROVE LoginInv'
<1>0. World /\ FitNow(Cl!State) /\ Cl!State.client = client  BY LoginInvFacts, StateFacts
<1>1. /\ blocked' = ~blocked /\ mod' = mod /\ exists' = exists /\ nets' = nets
      /\ lines' = lines /\ conns' = conns
      /\ Cl!Becomes(IF ~blocked /\ Cl!IsAttached(client) THEN Cl!RefuseLogin(Cl!State) ELSE Cl!State)
  BY DEF Cl!Block
<1>2. World'  BY <1>0, <1>1 DEF World
<1>3. CASE ~blocked /\ Cl!IsAttached(client)
  <2>1. client.phase # "gone"  BY <1>0, <1>3 DEF FitNow, Fit, Present, Cl!IsAttached, None
  <2>2. FitNow(Cl!RefuseLogin(Cl!State))  BY <1>0, <2>1, RefusedFit
  <2> QED  BY <1>1, <1>2, <1>3, <2>2, BecomesInv DEF FitNow
<1>4. CASE ~(~blocked /\ Cl!IsAttached(client))
  BY <1>0, <1>1, <1>2, <1>4, BecomesInv DEF FitNow
<1> QED  BY <1>3, <1>4

LEMMA ForgetInv == ASSUME LoginInv, Cl!Forget PROVE LoginInv'
<1>0. World /\ FitNow(Cl!State) /\ Cl!State \in LoginStates  BY LoginInvFacts
<1>1. /\ attempts' = 0 /\ UNCHANGED <<mod, exists, nets, blocked, client, listed>>
      /\ UNCHANGED <<pending, lines, conns, superseded, late, wild>>
  BY DEF Cl!Forget, Cl!world, Cl!ghosts
<1> DEFINE t == [Cl!State EXCEPT !.attempts = 0]
<1>2. Cl!State' = t  BY <1>1 DEF Cl!State
<1>3. 0 \in 0..MaxFails  BY LoginAssumption
<1>4. Rest(Cl!State, t) /\ t.client = Cl!State.client  BY <1>0, <1>3 DEF Rest, LoginStates
<1> HIDE DEF t
<1>5. Keeps(Cl!State.client, t.client)  BY <1>0, <1>4 DEF Keeps, LoginStates
<1>6. FitNow(t)  BY <1>0, <1>4, <1>5, SameFit DEF FitNow
<1> QED  BY <1>0, <1>1, <1>2, <1>6 DEF LoginInv, World, FitNow
-----------------------------------------------------------------------------
LEMMA LoginInit == Cl!Init => LoginInv
<1> SUFFICES ASSUME Cl!Init PROVE LoginInv
  OBVIOUS
<1>1. Cl!State = [client |-> Cl!NewClient, listed |-> {}, pending |-> {}, attempts |-> 0,
                  superseded |-> FALSE, late |-> FALSE, wild |-> FALSE]
  BY DEF Cl!Init, Cl!State
<1>2. /\ Cl!State \in LoginStates /\ Cl!State.client = Cl!NewClient /\ Cl!State.listed = {}
      /\ Cl!State.pending = {} /\ Cl!State.superseded = FALSE /\ Cl!State.wild = FALSE
  BY <1>1, NewClientFacts, LoginAssumption DEF LoginStates
<1>3. Cl!NewClient.mech = None  BY DEF Cl!NewClient, None
<1>4. Fit(Cl!State, nets, exists, conns, mod)
  BY <1>2, <1>3, NewClientFacts DEF Fit, Present, Waits, Linked, Attached, None, Cl!None
<1>5. exists \in BOOLEAN /\ blocked \in BOOLEAN  BY DEF Cl!Init
<1>6. mod \in Mods /\ nets \in SUBSET Networks  BY DEF Cl!Init
<1>7. lines \in 0..MaxLines /\ conns \in 0..MaxConns  BY LoginAssumption DEF Cl!Init
<1> QED  BY <1>4, <1>5, <1>6, <1>7 DEF LoginInv

LEMMA LoginNext == ASSUME LoginInv, [Cl!Next]_clVars PROVE LoginInv'
<1>1. CASE UNCHANGED clVars
  BY <1>1 DEF clVars, LoginInv, Cl!State
<1>2. CASE Cl!Next
  BY <1>2, ConnectInv, FirstLineInv, ClosedInv, PassInv, NickInv, UserLineInv, CapInv,
     AuthenticateInv, SaslResponseInv, AnswerInv, JumpNetworkInv, DelNetworkInv, UserInv, BlockInv,
     ForgetInv
  DEF Cl!Next
<1> QED  BY <1>1, <1>2

LEMMA LoginConsistent == LoginInv => Cl!TypeOK /\ Cl!Consistent
<1> SUFFICES ASSUME LoginInv PROVE Cl!TypeOK /\ Cl!Consistent
  OBVIOUS
<1>1. Cl!State \in LoginStates /\ FitNow(Cl!State) /\ World  BY LoginInvFacts
<1>2. attempts \in 0..MaxFails /\ listed \in SUBSET Cl!Places /\ pending \in SUBSET Auths
  BY <1>1, StateFacts DEF LoginStates
<1>3. client \in CClient  BY LoginInvFacts
<1>4. Cl!TypeOK  BY <1>1, <1>2, <1>3 DEF Cl!TypeOK, CClient, World, Auths, None
<1>5. Cl!Consistent
  BY <1>1, StateFacts DEF FitNow, Fit, Linked, Attached, Cl!Consistent, None
<1> QED  BY <1>4, <1>5

\* For any networks, limits and lines, with any one of the modules that decide: as long as no
\* login is begun while another waits, a client is in exactly the list that it is
\* attached to, and no answer is given to a client that was deleted (CClient,
\* CAuthBase::Invalidate); and the main loop keeps its types.
THEOREM ClientsConsistent == PartsSpec => []Consistent
<1> DEFINE Inv == LoadableInv /\ LoginInv
<1>1. PartsInit => Inv  BY InitSound, LoginInit DEF PartsInit
<1>2. Inv /\ [PartsNext]_<<part, vars, clVars>> => Inv'
  <2>1. [PartsNext]_<<part, vars, clVars>> => [Next]_vars /\ [Cl!Next]_clVars
    BY DEF PartsNext
  <2> QED  BY <2>1, NextSound, LoginNext
<1>3. Inv => Consistent  BY LoginConsistent DEF Consistent, LoadableInv
<1> QED  BY <1>1, <1>2, <1>3, PTL DEF PartsSpec
=============================================================================
