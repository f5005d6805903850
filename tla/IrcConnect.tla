----------------------------- MODULE IrcConnect -----------------------------
(***************************************************************************)
(* How the networks of all users get and keep their IRC connections: the   *)
(* server list of a CIRCNetwork (src/src/IRCNetwork.cpp), the connect      *)
(* queue and its timer in CZNC (src/src/znc.cpp), the life of a CIRCSock   *)
(* (src/src/IRCSock.cpp, src/src/Socket.cpp) and the identfile module,     *)
(* which pauses the queue while a network connects                         *)
(* (src/modules/identfile.cpp).                                            *)
(*                                                                         *)
(* All of it runs in the main thread: an action is one event handler.  The *)
(* one exception is the timer's RunJob, which takes an action per network  *)
(* that it tries, and keeps the other events out (running) until it ends.  *)
(* Name resolution is what Resolver describes, seen from outside: it ends  *)
(* once, well or badly.  A server is its name, by which it is found,       *)
(* compared and throttled.                                                 *)
(***************************************************************************)
EXTENDS Naturals, Sequences, FiniteSets

CONSTANTS Networks, NoNetwork,
          Servers,
          Unix,        \* the servers that are unix sockets
          Socks, NoSock,
          IdentFile,   \* whether the identfile module is loaded
          HooksAbort   \* whether some module's OnIRCConnecting returns HALTCORE

ASSUME NamesAssumption == NoNetwork \notin Networks /\ NoSock \notin Socks
ASSUME ServersAssumption == Unix \subseteq Servers
ASSUME ModulesAssumption == IdentFile \in BOOLEAN /\ HooksAbort \in BOOLEAN

VARIABLES live,       \* the networks that exist
          enabled,    \* m_bIRCConnectEnabled
          servers,    \* m_vServers
          idx,        \* m_uServerIdx
          sock,       \* m_pIRCSock
          znc,        \* m_lpConnectQueue, m_pConnectQueueTimer and m_uiConnectPaused
          throttled,  \* m_sConnectThrottle
          running,    \* the timer's RunJob is in progress
          local,      \* its list ConnectionQueue
          state,      \* of the CIRCSock at each address
          owner,      \* its m_pNetwork
          closing,    \* whether Close() or Quit() was called
          identSock,  \* m_pIRCSock of identfile
          crashed     \* a deleted network was called

netVars == <<live, enabled, servers, idx>>
sockVars == <<state, owner, closing>>
runVars == <<running, local>>
vars == <<live, enabled, servers, idx, sock, znc, throttled, running, local,
          state, owner, closing, identSock, crashed>>

SockStates == {"none", "resolving", "opening", "authed", "orphan", "leaked"}

InSeq(x, s) == \E i \in DOMAIN s : s[i] = x
RemoveIndex(s, i) == SubSeq(s, 1, i - 1) \o SubSeq(s, i + 1, Len(s))

\* list::remove of what a queue holds at most once (see QueueSound).
Without(s, x) == IF InSeq(x, s) THEN RemoveIndex(s, CHOOSE i \in DOMAIN s : s[i] = x) ELSE s
Lists == {s \in UNION {[1..m -> Servers] : m \in 0..Cardinality(Servers)} :
            \A i, j \in DOMAIN s : s[i] = s[j] => i = j}

Init == /\ live = {}
        /\ enabled = [n \in Networks |-> FALSE]
        /\ servers = [n \in Networks |-> <<>>]
        /\ idx = [n \in Networks |-> 0]
        /\ sock = [n \in Networks |-> NoSock]
        /\ znc = [queue |-> <<>>, timer |-> "none", paused |-> 0]
        /\ throttled = {}
        /\ running = FALSE
        /\ local = <<>>
        /\ state = [k \in Socks |-> "none"]
        /\ owner = [k \in Socks |-> NoNetwork]
        /\ closing = [k \in Socks |-> FALSE]
        /\ identSock = NoSock
        /\ crashed = FALSE
-----------------------------------------------------------------------------
(* CZNC: what its functions make of z = [queue, timer, paused] *)

EnableConnectQueue(z) ==
  IF z.timer = "none" /\ z.paused = 0 /\ z.queue # <<>>
  THEN [z EXCEPT !.timer = "active"] ELSE z

DisableConnectQueue(z) == [z EXCEPT !.timer = "none"]

PauseConnectQueue(z) ==
  [z EXCEPT !.paused = @ + 1, !.timer = IF @ = "none" THEN @ ELSE "paused"]

\* Slip: the timer is not created when the queue is resumed.
ResumeOnlyUnpauses(z) ==
  [z EXCEPT !.paused = @ - 1, !.timer = IF @ = "none" THEN @ ELSE "active"]

ResumeConnectQueue(z) ==
  LET y == EnableConnectQueue([z EXCEPT !.paused = @ - 1])
  IN  [y EXCEPT !.timer = IF @ = "none" THEN @ ELSE "active"]

AddNetworkToQueue(z, n) ==
  IF InSeq(n, z.queue) THEN z
  ELSE EnableConnectQueue([z EXCEPT !.queue = Append(@, n)])

\* CIRCNetwork::CheckIRCConnect of network n with m_bIRCConnectEnabled = b and
\* m_pIRCSock = k.
CheckIRCConnect(z, n, b, k) == IF b /\ k = NoSock THEN AddNetworkToQueue(z, n) ELSE z

\* Slip: identfile lets go whichever socket ended.
ReleasedByAny(z, k) == IF identSock # NoSock THEN ResumeConnectQueue(z) ELSE z

\* The queue after identfile's ReleaseISpoof, if it waits for socket k.
Released(z, k) == IF identSock = k THEN ResumeConnectQueue(z) ELSE z
IdentWithout(k) == IF identSock = k THEN NoSock ELSE identSock

\* Slip: a network that loses its socket is not put back into the queue.
IRCDisconnectedQuietly(z, n) == z

\* CIRCNetwork::IRCDisconnected, which has set m_pIRCSock to null.
IRCDisconnected(z, n) == CheckIRCConnect(z, n, enabled[n], NoSock)
-----------------------------------------------------------------------------
(* Commands and web pages that change a network *)

Idle == ~running /\ ~crashed

\* Close() or Quit() of the network's socket, if there is one.
Closed(n) == [k \in Socks |-> closing[k] \/ k = sock[n]]

\* The index of GetCurrentServer() in the list, or 0.
CurrentIndex(n) == LET i == IF idx[n] > 0 THEN idx[n] ELSE 1
                   IN  IF i <= Len(servers[n]) THEN i ELSE 0

\* The constructor of CIRCNetwork.
AddNetwork(n) ==
  /\ Idle /\ n \notin live
  /\ live' = live \cup {n}
  /\ enabled' = [enabled EXCEPT ![n] = TRUE]
  /\ znc' = CheckIRCConnect(znc, n, TRUE, NoSock)
  /\ UNCHANGED <<servers, idx, sock, throttled, runVars, sockVars, identSock, crashed>>

\* Slip: the network leaves the queue before its socket is destroyed.
AfterDeleteTooEarly(n) ==
  LET k == sock[n]
      z == [znc EXCEPT !.queue = Without(@, n)]
  IN  IF k # NoSock /\ state[k] # "resolving" THEN IRCDisconnected(Released(z, k), n) ELSE z

\* The queue after ~CIRCNetwork: deleting the socket puts the network into it.
AfterDelete(n) ==
  LET k == sock[n]
      z == IF k # NoSock /\ state[k] # "resolving"
           THEN IRCDisconnected(Released(znc, k), n) ELSE znc
  IN  [z EXCEPT !.queue = Without(@, n)]

\* The destructor of CIRCNetwork.  DelSockByAddr deletes the socket, but one
\* that resolves is only marked, and keeps its m_pNetwork.
DeleteNetwork(n) ==
  LET gone == {k \in Socks : k = sock[n] /\ state[k] # "resolving"}
  IN
  /\ Idle /\ n \in live
  /\ live' = live \ {n}
  /\ enabled' = [enabled EXCEPT ![n] = FALSE]
  /\ servers' = [servers EXCEPT ![n] = <<>>]
  /\ idx' = [idx EXCEPT ![n] = 0]
  /\ sock' = [sock EXCEPT ![n] = NoSock]
  /\ znc' = AfterDelete(n)
  /\ state' = [k \in Socks |-> IF k # sock[n] THEN state[k]
                               ELSE IF k \in gone THEN "none" ELSE "orphan"]
  /\ owner' = [k \in Socks |-> IF k \in gone THEN NoNetwork ELSE owner[k]]
  /\ closing' = [k \in Socks |-> k # sock[n] /\ closing[k]]
  /\ identSock' = IF identSock \in gone THEN NoSock ELSE identSock
  /\ UNCHANGED <<throttled, runVars, crashed>>

\* SetIRCConnectEnabled (the commands Connect and Disconnect of controlpanel,
\* blockuser, the configuration) and the command DISCONNECT.
SetIRCConnectEnabled(n, b) ==
  /\ Idle /\ n \in live
  /\ enabled' = [enabled EXCEPT ![n] = b]
  /\ znc' = CheckIRCConnect(znc, n, b, sock[n])
  /\ closing' = IF b THEN closing ELSE Closed(n)
  /\ UNCHANGED <<live, servers, idx, sock, throttled, runVars, state, owner,
                 identSock, crashed>>

\* The command JUMP with a server, the i-th of the list, or without (i = 0).
Jump(n, i) ==
  /\ Idle /\ n \in live /\ servers[n] # <<>>
  /\ idx' = [idx EXCEPT ![n] = IF i > 0 THEN i - 1
                               ELSE IF @ >= Len(servers[n]) THEN 0 ELSE @]
  /\ enabled' = [enabled EXCEPT ![n] = TRUE]
  /\ znc' = CheckIRCConnect(znc, n, TRUE, sock[n])
  /\ closing' = Closed(n)
  /\ UNCHANGED <<live, servers, sock, throttled, runVars, state, owner,
                 identSock, crashed>>

\* CIRCNetwork::AddServer of a server that is not in the list.
AddServer(n, s) ==
  /\ Idle /\ n \in live /\ ~InSeq(s, servers[n])
  /\ servers' = [servers EXCEPT ![n] = Append(@, s)]
  /\ znc' = CheckIRCConnect(znc, n, enabled[n], sock[n])
  /\ UNCHANGED <<live, enabled, idx, sock, throttled, runVars, sockVars,
                 identSock, crashed>>

\* Slip: servers before the current one are forgotten.
IndexAfterDelOfCurrent(n, i) ==
  IF i = CurrentIndex(n) /\ idx[n] > 0 THEN idx[n] - 1 ELSE idx[n]

\* Slip: the index is decremented without a test for 0.
IndexAfterDelUnchecked(n, i) ==
  IF i <= CurrentIndex(n) THEN idx[n] - 1 ELSE idx[n]

\* m_uServerIdx after DelServer removed the i-th server.
IndexAfterDel(n, i) ==
  LET c == CurrentIndex(n) IN
  IF i = c THEN IF idx[n] > 0 THEN idx[n] - 1 ELSE 0
  ELSE IF c = 0 \/ i < c THEN idx[n] - 1
  ELSE idx[n]

\* CIRCNetwork::DelServer finds the i-th server.
DelServer(n, i) ==
  /\ Idle /\ n \in live /\ i \in DOMAIN servers[n]
  /\ servers' = [servers EXCEPT ![n] = RemoveIndex(@, i)]
  /\ idx' = [idx EXCEPT ![n] = IndexAfterDel(n, i)]
  /\ closing' = IF i = CurrentIndex(n) THEN Closed(n) ELSE closing
  /\ UNCHANGED <<live, enabled, sock, znc, throttled, runVars, state, owner,
                 identSock, crashed>>

\* The network page of webadmin: SetIRCConnectEnabled, then DelServers and
\* AddServer for every line of the form; m_uServerIdx stays.
ReplaceServers(n, b, list) ==
  /\ Idle /\ n \in live
  /\ enabled' = [enabled EXCEPT ![n] = b]
  /\ servers' = [servers EXCEPT ![n] = list]
  /\ znc' = CheckIRCConnect(znc, n, b, sock[n])
  /\ closing' = IF b THEN closing ELSE Closed(n)
  /\ UNCHANGED <<live, idx, sock, throttled, runVars, state, owner, identSock, crashed>>

\* CIRCNetwork::Clone of a network with the given servers and setting: the
\* current server is looked up in the new list.
CloneNetwork(n, b, list) ==
  LET c == CurrentIndex(n)
      same == {a \in DOMAIN list : c # 0 /\ list[a] = servers[n][c]}
  IN
  /\ Idle /\ n \in live
  /\ servers' = [servers EXCEPT ![n] = list]
  /\ idx' = [idx EXCEPT ![n] = IF same = {} THEN Len(list) ELSE CHOOSE a \in same : TRUE]
  /\ enabled' = [enabled EXCEPT ![n] = b]
  /\ znc' = CheckIRCConnect(
              IF list = <<>> THEN znc ELSE CheckIRCConnect(znc, n, enabled[n], sock[n]),
              n, b, sock[n])
  /\ closing' = IF same # {} /\ b THEN closing ELSE Closed(n)
  /\ UNCHANGED <<live, sock, throttled, runVars, state, owner, identSock, crashed>>
-----------------------------------------------------------------------------
(* CConnectQueueTimer::RunJob *)

RunStart ==
  /\ Idle /\ znc.timer = "active"
  /\ running' = TRUE
  /\ local' = znc.queue
  /\ znc' = [znc EXCEPT !.queue = <<>>]
  /\ UNCHANGED <<netVars, sock, throttled, sockVars, identSock, crashed>>

\* What CIRCNetwork::Connect tests first.
Wants(n) == enabled[n] /\ sock[n] = NoSock /\ servers[n] # <<>>

\* GetNextServer: the index it uses, and the server.
NextIndex(n) == IF idx[n] >= Len(servers[n]) THEN 0 ELSE idx[n]
NextServer(n) == servers[n][NextIndex(n) + 1]
Advanced(n) == [idx EXCEPT ![n] = NextIndex(n) + 1]

\* The end of RunJob, with rest left in its list.
RunEnd(z, rest) ==
  LET y == [z EXCEPT !.queue = rest \o @]
  IN  IF y.queue = <<>> THEN DisableConnectQueue(y) ELSE y

\* Connect() returns false at once: the network leaves the queue.
TryNothing ==
  /\ running /\ local # <<>> /\ ~Wants(Head(local))
  /\ local' = Tail(local)
  /\ UNCHANGED <<netVars, sock, znc, throttled, running, sockVars, identSock, crashed>>

\* Slip: a throttled network does not queue again.
RequeuedNot(z, n) == z

\* The queue after Connect() has put the network back.
Requeued(z, n) == AddNetworkToQueue(z, n)

\* The next server is throttled: the network queues again.
TryThrottled ==
  LET n == Head(local) IN
  /\ running /\ local # <<>> /\ Wants(n)
  /\ NextServer(n) \in throttled
  /\ idx' = Advanced(n)
  /\ znc' = Requeued(znc, n)
  /\ local' = Tail(local)
  /\ UNCHANGED <<live, enabled, servers, sock, throttled, running, sockVars,
                 identSock, crashed>>

\* A module aborts the attempt and the new socket is deleted at once; identfile,
\* which comes first, may have claimed it and then lets it go.
TryAborted(claimed) ==
  LET n == Head(local)
      z == IF claimed THEN ResumeConnectQueue(PauseConnectQueue(znc)) ELSE znc
  IN
  /\ running /\ local # <<>> /\ Wants(n)
  /\ NextServer(n) \notin throttled
  /\ HooksAbort \/ identSock # NoSock
  /\ claimed => IdentFile /\ identSock = NoSock
  /\ throttled' = throttled \cup {NextServer(n)}
  /\ idx' = Advanced(n)
  /\ znc' = Requeued(IRCDisconnected(z, n), n)
  /\ local' = Tail(local)
  /\ UNCHANGED <<live, enabled, servers, sock, running, sockVars, identSock, crashed>>

\* Connect() creates the socket and returns true: RunJob ends.
Connected(n, k, z) ==
  /\ running /\ local # <<>> /\ n = Head(local) /\ Wants(n)
  /\ NextServer(n) \notin throttled
  /\ identSock = NoSock
  /\ state[k] = "none"
  /\ throttled' = throttled \cup {NextServer(n)}
  /\ idx' = Advanced(n)
  /\ znc' = RunEnd(z, Tail(local))
  /\ running' = FALSE /\ local' = <<>>
  /\ UNCHANGED <<live, enabled, servers, closing, crashed>>

\* The queue once identfile has claimed a socket in OnIRCConnecting.
Claimed == IF IdentFile THEN PauseConnectQueue(znc) ELSE znc

\* The attempt is under way: to resolve the name, or to open a unix socket.
TryConnect(n, k) ==
  /\ Connected(n, k, Claimed)
  /\ sock' = [sock EXCEPT ![n] = k]
  /\ state' = [state EXCEPT ![k] = IF NextServer(n) \in Unix THEN "opening" ELSE "resolving"]
  /\ owner' = [owner EXCEPT ![k] = n]
  /\ identSock' = IF IdentFile THEN k ELSE identSock

\* A unix socket fails at once: ConnectUnix deletes it, Connect() returns true.
TryUnixFails(n, k) ==
  /\ Connected(n, k, IRCDisconnected(IF IdentFile THEN ResumeConnectQueue(Claimed) ELSE znc, n))
  /\ NextServer(n) \in Unix
  /\ UNCHANGED <<sock, state, owner, identSock>>

\* Everything in the list was tried.
RunFinish ==
  /\ running /\ local = <<>>
  /\ znc' = RunEnd(znc, <<>>)
  /\ running' = FALSE
  /\ UNCHANGED <<netVars, sock, throttled, local, sockVars, identSock, crashed>>

ThrottleExpires(s) ==
  /\ Idle /\ s \in throttled
  /\ throttled' = throttled \ {s}
  /\ UNCHANGED <<netVars, sock, znc, runVars, sockVars, identSock, crashed>>
-----------------------------------------------------------------------------
(* Events of a socket *)

\* ~CIRCSock of a socket whose network exists.
DestroySock(k) ==
  /\ state' = [state EXCEPT ![k] = "none"]
  /\ owner' = [owner EXCEPT ![k] = NoNetwork]
  /\ closing' = [closing EXCEPT ![k] = FALSE]
  /\ sock' = [sock EXCEPT ![owner[k]] = NoSock]
  /\ znc' = IRCDisconnected(Released(znc, k), owner[k])
  /\ identSock' = IdentWithout(k)
  /\ UNCHANGED <<netVars, throttled, runVars, crashed>>

\* Slip: the mark of a deleted socket is not looked at.
ResolvedUnmarked(k) ==
  /\ Idle /\ state[k] \in {"resolving", "orphan"}
  /\ state' = [state EXCEPT ![k] = "opening"]
  /\ UNCHANGED <<netVars, sock, znc, throttled, runVars, owner, closing,
                 identSock, crashed>>

\* Name resolution succeeds: the socket manager takes the socket and opens the
\* connection, or drops a socket whose network was deleted.
Resolved(k) ==
  /\ Idle /\ state[k] \in {"resolving", "orphan"}
  /\ state' = [state EXCEPT ![k] = IF @ = "resolving" THEN "opening" ELSE "leaked"]
  /\ UNCHANGED <<netVars, sock, znc, throttled, runVars, owner, closing,
                 identSock, crashed>>

\* Name resolution fails: the socket is deleted.
ResolveFails(k) ==
  /\ Idle
  /\ \/ state[k] = "resolving" /\ DestroySock(k)
     \/ /\ state[k] = "orphan"
        /\ crashed' = TRUE
        /\ UNCHANGED <<netVars, sock, znc, throttled, runVars, sockVars, identSock>>

\* The server's 001: OnIRCConnected lets identfile go.
LoggedIn(k) ==
  /\ Idle /\ state[k] = "opening" /\ ~closing[k]
  /\ state' = [state EXCEPT ![k] = "authed"]
  /\ znc' = Released(znc, k)
  /\ identSock' = IdentWithout(k)
  /\ UNCHANGED <<netVars, sock, throttled, runVars, owner, closing, crashed>>

\* A connection is refused, lost or closed, or times out: the socket manager
\* deletes the socket.
SockEnds(k) ==
  /\ Idle /\ state[k] \in {"opening", "authed"}
  /\ DestroySock(k)

\* A call of a deleted network is undefined: nothing more is said of the process.
\* Nor when an attempt finds every address leaked, which is a bound of this model.
Ended == /\ crashed \/ (running /\ \A k \in Socks : state[k] # "none")
         /\ UNCHANGED vars

TimerStep == \/ RunStart \/ TryNothing \/ TryThrottled \/ RunFinish
             \/ \E c \in BOOLEAN : TryAborted(c)
             \/ \E n \in Networks, k \in Socks : TryConnect(n, k) \/ TryUnixFails(n, k)

NetworkStep(n) == \/ AddNetwork(n) \/ DeleteNetwork(n)
                  \/ \E b \in BOOLEAN : SetIRCConnectEnabled(n, b)
                  \/ \E i \in 0..Len(servers[n]) : Jump(n, i)
                  \/ \E s \in Servers : AddServer(n, s)
                  \/ \E i \in DOMAIN servers[n] : DelServer(n, i)
                  \/ \E b \in BOOLEAN, list \in Lists :
                       ReplaceServers(n, b, list) \/ CloneNetwork(n, b, list)

SockStep(k) == Resolved(k) \/ ResolveFails(k) \/ LoggedIn(k) \/ SockEnds(k)

Next == \/ TimerStep
        \/ \E n \in Networks : NetworkStep(n)
        \/ \E k \in Socks : SockStep(k)
        \/ \E s \in Servers : ThrottleExpires(s)
        \/ Ended

Spec == Init /\ [][Next]_vars

\* The cron runs again and again, and between two runs, however short, time goes
\* on and the event loop looks at every socket: a throttled name expires, a lookup
\* ends (see Resolver), and a connection that does not log in is refused or
\* times out.
Fairness == /\ SF_vars(TimerStep)
            /\ \A s \in Servers : SF_vars(ThrottleExpires(s))
            /\ \A k \in Socks : /\ SF_vars(Resolved(k) \/ ResolveFails(k))
                                /\ SF_vars(state[k] = "opening" /\ (LoggedIn(k) \/ SockEnds(k)))

FairSpec == Spec /\ Fairness
-----------------------------------------------------------------------------
(* Properties *)

\* Type of the state.  In particular m_uServerIdx and m_uiConnectPaused, which are
\* unsigned and decremented by DelServer and ResumeConnectQueue, do not wrap.
TypeOK == /\ live \subseteq Networks
          /\ enabled \in [Networks -> BOOLEAN]
          /\ servers \in [Networks -> Seq(Servers)]
          /\ idx \in [Networks -> Nat]
          /\ sock \in [Networks -> Socks \cup {NoSock}]
          /\ znc \in [queue : Seq(Networks), timer : {"none", "active", "paused"}, paused : Nat]
          /\ throttled \subseteq Servers
          /\ running \in BOOLEAN
          /\ local \in Seq(Networks)
          /\ state \in [Socks -> SockStates]
          /\ owner \in [Socks -> Networks \cup {NoNetwork}]
          /\ closing \in [Socks -> BOOLEAN]
          /\ identSock \in Socks \cup {NoSock}
          /\ crashed \in BOOLEAN

\* A network that is to be connected and has servers and no socket is waiting in
\* the queue, whatever threw it out: no event leaves it behind.
NoneForgotten == \A n \in live :
  Wants(n) => InSeq(n, znc.queue) \/ InSeq(n, local)

\* The queue is served: while it is not paused and not empty there is a running
\* timer, and a paused queue has none that runs.
TimerRuns ==
  /\ ~running /\ znc.queue # <<>> /\ znc.paused = 0 => znc.timer = "active"
  /\ znc.paused > 0 => znc.timer # "active"

\* The queue is sound: the state has its type, the queue is served by a timer (TimerRuns),
\* and everything in it or in RunJob's list is a network that exists, and is there once:
\* RunJob gives it "a single chance" and no deleted network is called.
QueueSound ==
  /\ TypeOK
  /\ TimerRuns
  /\ LET all == local \o znc.queue
     IN  /\ \A i \in DOMAIN all : all[i] \in live
         /\ \A i, j \in DOMAIN all : all[i] = all[j] => i = j

\* Network and socket point at each other, and only a socket that was being
\* resolved survives its network.
SockOwned ==
  /\ \A n \in Networks : sock[n] # NoSock => /\ n \in live /\ owner[sock[n]] = n
                                             /\ state[sock[n]] \in {"resolving", "opening", "authed"}
  /\ \A k \in Socks : state[k] \in {"resolving", "opening", "authed"}
                        => owner[k] # NoNetwork /\ sock[owner[k]] = k

\* Pauses are balanced: the unsigned counter is 1 while identfile holds a socket
\* that has not logged in, and 0 otherwise; it never wraps.
PauseBalanced ==
  /\ znc.paused = IF identSock = NoSock THEN 0 ELSE 1
  /\ identSock # NoSock => state[identSock] \notin {"none", "authed"}

\* "Make sure we don't skip the next server in the list!": removing servers one
\* by one never makes a network skip the server that it would try next.
NextServerKept == [][\A n \in Networks, i \in 1..Cardinality(Servers) :
  DelServer(n, i) /\ servers'[n] # <<>>
    => NextServer(n)' = IF i # NextIndex(n) + 1 THEN NextServer(n)
                        ELSE servers[n][(i % Len(servers[n])) + 1]]_vars

\* A network that wants a connection in the end tries one (or stops wanting it),
\* unless the process crashed, addresses ran out (a bound), or the queue is
\* paused for a socket whose network was deleted.
NetworkTries == \A n \in Networks :
  Wants(n) ~> \/ ~Wants(n) \/ crashed
              \/ \A k \in Socks : state[k] # "none"
              \/ identSock # NoSock /\ state[identSock] \in {"orphan", "leaked"}

\* Refuted (see README): while the queue is paused "another user or network is
\* currently connecting", as identfile tells the user.
PausedForNetwork == znc.paused > 0 => \E n \in live : sock[n] # NoSock
=============================================================================
