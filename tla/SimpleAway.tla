------------------------------ MODULE SimpleAway ------------------------------
(***************************************************************************)
(* simple_away: sets the user away on IRC while fewer than m_iMinClients   *)
(* clients are attached.  src/modules/simple_away.cpp.                     *)
(*                                                                         *)
(* What is sent to the server counts only when the connection is           *)
(* registered: without a socket it is dropped, before the 001 the server   *)
(* refuses it.  The reason is left out.                                    *)
(***************************************************************************)
EXTENDS Naturals

CONSTANTS MaxClients    \* bound: clients that are attached to the network

VARIABLES irc,          \* "none": no socket, "registering", "connected": authed
          clients,      \* number of clients attached to the network
          server,       \* the away state the server has: "back", of the "module", of a
                        \* "client", or "left" behind by a module that was unloaded
          m,            \* the module: loaded, its settings and its two flags
          nv,           \* what the registry has of awaywait and minclients ("" is 99)
          timer,        \* the timer simple_away runs
          settled       \* ghost: the module was told of the clients there are

vars == <<irc, clients, server, m, nv, timer, settled>>

Unset == 99
Fresh == [loaded |-> FALSE, wait |-> 1, min |-> 1, clientSet |-> FALSE, weSet |-> FALSE]

Init == /\ irc = "none" /\ clients = 0 /\ server = "back" /\ m = Fresh
        /\ nv = [wait |-> Unset, min |-> Unset] /\ timer = FALSE /\ settled = FALSE

MinClientsConnected(x) == clients' >= x.min
\* PutIRC("AWAY ...")
Put(who) == server' = IF irc' = "connected" THEN who ELSE server

\* SetAway(false)
AwayNow(x) == IF x.clientSet THEN m' = x /\ UNCHANGED server
              ELSE m' = [x EXCEPT !.weSet = TRUE] /\ Put("module")
\* SetAway(true): a timer that runs is replaced.
AwayLater(x) == m' = x /\ timer' = TRUE /\ UNCHANGED server

\* Mutant: the timer goes on.
SetBackTimerRuns(x) ==
  /\ UNCHANGED timer
  /\ IF x.weSet THEN m' = [x EXCEPT !.weSet = FALSE] /\ Put("back") ELSE m' = x /\ UNCHANGED server
SetBack(x) ==
  /\ timer' = FALSE
  /\ IF x.weSet THEN m' = [x EXCEPT !.weSet = FALSE] /\ Put("back") ELSE m' = x /\ UNCHANGED server
-----------------------------------------------------------------------------
\* Arguments -timer and -notimer are stored, otherwise the stored values are used.  The
\* condition asks for the clients to be there, although it is meant for a user who is not.
OnLoad ==
  /\ ~m.loaded
  /\ \E arg \in {Unset, 0, 1} :
       LET w == IF arg # Unset THEN arg ELSE nv.wait
           x == [Fresh EXCEPT !.loaded = TRUE,
                              !.wait = IF w = Unset THEN @ ELSE w,
                              !.min = IF nv.min = Unset THEN @ ELSE nv.min]
       IN  /\ UNCHANGED <<irc, clients>>
           /\ nv' = [nv EXCEPT !.wait = w]
           /\ IF irc = "connected" /\ MinClientsConnected(x)
              THEN AwayNow(x) ELSE m' = x /\ UNCHANGED server
           /\ settled' = FALSE /\ UNCHANGED timer

\* The module goes, and its timer with it; the server keeps what it was told, and a
\* module that is loaded again does not take it back.
Unload == /\ m.loaded /\ m' = Fresh /\ timer' = FALSE /\ settled' = FALSE
          /\ server' = IF server = "module" THEN "left" ELSE server
          /\ UNCHANGED <<irc, clients, nv>>

\* Hooks of a module that is loaded: they settle the matter, or see no reason to act.
Nothing == UNCHANGED <<server, m, timer, settled>>
Settle(A) == A /\ settled' = TRUE
Hook(A) == IF m.loaded THEN A ELSE Nothing

OnIRCConnected == Settle(IF MinClientsConnected(m) THEN SetBack(m)
                         ELSE AwayNow(m) /\ UNCHANGED timer)
OnClientLogin == IF MinClientsConnected(m) THEN Settle(SetBack(m)) ELSE Nothing
OnClientDisconnect == IF MinClientsConnected(m) THEN Nothing ELSE Settle(AwayLater(m))

\* A message AWAY of a client, with or without a text; it goes on to the server.
OnUserRawMessage ==
  /\ m.loaded /\ clients > 0
  /\ \E text \in BOOLEAN :
       /\ m' = [m EXCEPT !.clientSet = text, !.weSet = FALSE]
       /\ UNCHANGED irc /\ Put(IF text THEN "client" ELSE "back")
       /\ settled' = (settled /\ (text \/ clients >= m.min))
  /\ UNCHANGED <<clients, nv, timer>>

\* SetTimer and DisableTimer; a timer that runs keeps its time.
SetAwayWait == /\ m.loaded
               /\ \E w \in 0..1 : m' = [m EXCEPT !.wait = w] /\ nv' = [nv EXCEPT !.wait = w]
               /\ UNCHANGED <<irc, clients, server, timer, settled>>
\* MinClients does not look at the clients there are.
SetMinClients == /\ m.loaded
                 /\ \E k \in 0..MaxClients : m' = [m EXCEPT !.min = k] /\ nv' = [nv EXCEPT !.min = k]
                 /\ settled' = FALSE /\ UNCHANGED <<irc, clients, server, timer>>

RunJob == /\ timer /\ timer' = FALSE /\ UNCHANGED <<irc, clients, nv, settled>> /\ AwayNow(m)
-----------------------------------------------------------------------------
\* The connection, seen from the module.
Connect == /\ irc = "none" /\ irc' = "registering" /\ server' = "back"
           /\ UNCHANGED <<clients, m, nv, timer, settled>>
Welcome == /\ irc = "registering" /\ irc' = "connected" /\ UNCHANGED <<clients, nv>>
           /\ Hook(OnIRCConnected)
Disconnect == /\ irc # "none" /\ irc' = "none" /\ server' = "back"
              /\ UNCHANGED <<clients, m, nv, timer, settled>>

\* Clients: the hook for one that leaves runs when it is no longer in the list.
Login == /\ clients < MaxClients /\ clients' = clients + 1 /\ UNCHANGED <<irc, nv>>
         /\ Hook(OnClientLogin)
Leave == /\ clients > 0 /\ clients' = clients - 1 /\ UNCHANGED <<irc, nv>>
         /\ Hook(OnClientDisconnect)
\* JUMPNETWORK calls OnClientAttached and OnClientDetached only.
Jump == /\ \/ clients < MaxClients /\ clients' = clients + 1
           \/ clients > 0 /\ clients' = clients - 1
        /\ settled' = FALSE /\ UNCHANGED <<irc, server, m, nv, timer>>

Next == \/ OnLoad \/ Unload \/ OnUserRawMessage \/ SetAwayWait \/ SetMinClients \/ RunJob
        \/ Connect \/ Welcome \/ Disconnect \/ Login \/ Leave \/ Jump

Spec == Init /\ [][Next]_vars
-----------------------------------------------------------------------------
TypeOK == /\ irc \in {"none", "registering", "connected"} /\ clients \in 0..MaxClients
          /\ server \in {"back", "module", "client", "left"} /\ timer \in BOOLEAN /\ settled \in BOOLEAN
          /\ m.wait \in 0..1 /\ m.min \in 0..MaxClients

\* m_bWeSetAway is what the server has: through reconnects, a message AWAY of a client
\* and a timer that runs late, the module never takes back an away of a client, and
\* takes back its own.  And a user is away exactly while too few clients are attached
\* (simple_away.cpp:252), once the module was told of them, unless a client said
\* otherwise or the timer still runs.
AwayRight ==
  m.loaded /\ irc = "connected" =>
    /\ m.weSet <=> server = "module"
    /\ settled /\ ~m.clientSet /\ ~timer => (server = "module" <=> clients < m.min)
=============================================================================
