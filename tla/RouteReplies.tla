---------------------------- MODULE RouteReplies -----------------------------
(***************************************************************************)
(* route_replies: a request such as WHO of one of several clients is held   *)
(* back until the request before it was answered, and its replies go to     *)
(* that client only.  src/modules/route_replies.cpp.                        *)
(*                                                                         *)
(* The server answers requests in order, with replies that come before the  *)
(* last one and a last one.  Which numerics are whose is left out: a reply  *)
(* of the request under way is one of its list, others may be.              *)
(***************************************************************************)
EXTENDS Integers, Sequences, SequencesExt, FiniteSetsExt

CONSTANTS Clients,       \* integers: the addresses of the CClients order m_vsPending
          MaxRequests    \* bound: requests of clients

VARIABLES where,         \* of a client: "here", "elsewhere" on another network, or "gone"
          pending,       \* m_vsPending: how many requests of each client wait
          doing,         \* m_pDoing, or 0
          replies,       \* m_pReplies is set
          timer,         \* the timer RouteTimeout is in m_sTimers and will run
          server,        \* owners of the requests on the way to the server and there
          requests,
          left,          \* ghost: clients that left by JUMPNETWORK and still have requests here
          lost,          \* ghost: the timeout, a client or the server broke the order
          wrong          \* ghost: a reply did not go to the client that asked

vars == <<where, pending, doing, replies, timer, server, requests, left, lost, wrong>>

Init == /\ where = [c \in Clients |-> "here"] /\ pending = [c \in Clients |-> 0] /\ doing = 0
        /\ replies = FALSE /\ timer = FALSE /\ server = <<>> /\ requests = 0 /\ left = {}
        /\ lost = FALSE /\ wrong = FALSE

\* What the module has of client c, with the request d under way.
Has(p, d, c) == p[c] > 0 \/ d = c
StillLeft == left' = {c \in left : Has(pending', doing', c)}

Waiting(p) == {c \in Clients : p[c] > 0}
\* SendRequest, with the pending requests p: entries of clients that wait for nothing are
\* dropped, the first of the others is sent and timed.
SendRequest(p, srv) ==
  IF Waiting(p) = {}
  THEN doing' = 0 /\ replies' = FALSE /\ timer' = FALSE /\ pending' = p /\ server' = srv
  ELSE LET c == Min(Waiting(p))
       IN  /\ doing' = c /\ replies' = TRUE /\ timer' = TRUE
           /\ pending' = [p EXCEPT ![c] = @ - 1] /\ server' = Append(srv, c)

\* OnUserRawMessage for a request that is routed
\* Slip: the request is sent although another is under way.
UserRequestAtOnce(c) ==
  /\ where[c] = "here" /\ requests < MaxRequests /\ requests' = requests + 1
  /\ SendRequest([pending EXCEPT ![c] = @ + 1], server)
  /\ UNCHANGED <<where, left, lost, wrong>>
UserRequest(c) ==
  /\ where[c] = "here" /\ requests < MaxRequests /\ requests' = requests + 1
  /\ LET p == [pending EXCEPT ![c] = @ + 1]
     IN  IF doing # 0 \/ replies THEN pending' = p /\ UNCHANGED <<doing, replies, timer, server>>
         ELSE SendRequest(p, server)
  /\ UNCHANGED <<where, left, lost, wrong>>

\* OnRawMessage and RouteReply for a reply of the request at the head of the server.
Routed(owner) == wrong' = (wrong \/ (~lost /\ doing # owner))
Reply == /\ server # <<>> /\ Routed(Head(server))
         /\ UNCHANGED <<where, pending, doing, replies, timer, server, requests, left, lost>>
LastReply ==
  /\ server # <<>> /\ Routed(Head(server))
  /\ IF replies /\ doing # 0 THEN SendRequest(pending, Tail(server))
     ELSE server' = Tail(server) /\ UNCHANGED <<pending, doing, replies, timer>>
  /\ StillLeft /\ UNCHANGED <<where, requests, lost>>
\* The server ends a request with a numeric the table lacks, or sends one of the table
\* that answers something else: 403 for a JOIN, say.
Unlisted == /\ server # <<>> /\ server' = Tail(server) /\ lost' = TRUE
            /\ UNCHANGED <<where, pending, doing, replies, timer, requests, left, wrong>>
Stray == /\ replies /\ doing # 0 /\ lost' = TRUE /\ SendRequest(pending, server) /\ StillLeft
         /\ UNCHANGED <<where, requests, wrong>>

\* CRouteTimeout::RunJob and Timeout
Timeout == /\ timer /\ lost' = TRUE /\ SendRequest(pending, server) /\ StillLeft
           /\ UNCHANGED <<where, requests, wrong>>

\* OnClientDisconnect.  Replies to its request are still to come.
\* Slip: the next request is left to the next event.
ClientGoneWaiting(c) ==
  /\ where[c] = "here" /\ where' = [where EXCEPT ![c] = "gone"]
  /\ pending' = [pending EXCEPT ![c] = 0]
  /\ IF doing = c THEN doing' = 0 /\ replies' = FALSE /\ timer' = FALSE /\ lost' = TRUE
     ELSE UNCHANGED <<doing, replies, timer, lost>>
  /\ StillLeft /\ UNCHANGED <<server, requests, wrong>>
ClientGone(c) ==
  /\ where[c] = "here" /\ where' = [where EXCEPT ![c] = "gone"]
  /\ LET p == [pending EXCEPT ![c] = 0]
     IN  IF doing = c THEN SendRequest(p, server) /\ lost' = TRUE
         ELSE IF doing # 0 THEN pending' = p /\ UNCHANGED <<doing, replies, timer, server, lost>>
         ELSE SendRequest(p, server) /\ UNCHANGED lost
  /\ StillLeft /\ UNCHANGED <<requests, wrong>>
\* JUMPNETWORK: SetNetwork calls OnClientDetached, which the module does not implement, so
\* it keeps what it has of the client.
ClientJumps(c) ==
  /\ where[c] = "here" /\ where' = [where EXCEPT ![c] = "elsewhere"]
  /\ left' = IF Has(pending, doing, c) THEN left \cup {c} ELSE left
  /\ UNCHANGED <<pending, doing, replies, timer, server, requests, lost, wrong>>
\* Elsewhere a client disconnects without the module's knowing.  A client that comes may
\* be another object at the same address.
ClientMoves(c) ==
  /\ \/ where[c] = "elsewhere" /\ where' = [where EXCEPT ![c] = "gone"]
     \/ where[c] # "here" /\ where' = [where EXCEPT ![c] = "here"]
  /\ UNCHANGED <<pending, doing, replies, timer, server, requests, left, lost, wrong>>

\* OnIRCConnected and OnIRCDisconnected
IRCDisconnected == /\ pending' = [c \in Clients |-> 0] /\ doing' = 0 /\ replies' = FALSE
                   /\ timer' = FALSE /\ server' = <<>> /\ left' = {} /\ lost' = FALSE
                   /\ UNCHANGED <<where, requests, wrong>>
\* What waits, client by client.
Ordered(p) == {s \in BoundedSeq(Clients, MaxRequests) :
                 /\ \A i, j \in DOMAIN s : i < j => s[i] <= s[j]
                 /\ \A c \in Clients : Cardinality({i \in DOMAIN s : s[i] = c}) = p[c]}
\* The destructor sends what waits; the module is loaded again.
Unloaded == /\ \E s \in Ordered(pending) : server' = server \o s
            /\ pending' = [c \in Clients |-> 0] /\ doing' = 0 /\ replies' = FALSE
            /\ timer' = FALSE /\ left' = {} /\ lost' = (server' # <<>>)
            /\ UNCHANGED <<where, requests, wrong>>

Next == \/ \E c \in Clients : UserRequest(c) \/ ClientGone(c) \/ ClientJumps(c) \/ ClientMoves(c)
        \/ Reply \/ LastReply \/ Unlisted \/ Stray \/ Timeout \/ IRCDisconnected \/ Unloaded
Spec == Init /\ [][Next]_vars
\* The event loop runs timers.  Servers need not answer.
Fairness == WF_vars(Timeout)
FairSpec == Spec /\ Fairness
-----------------------------------------------------------------------------
\* Every variable holds a value of its kind.
TypeOK == /\ where \in [Clients -> {"here", "elsewhere", "gone"}] /\ left \subseteq Clients
          /\ doing \in Clients \cup {0} /\ replies \in BOOLEAN /\ timer \in BOOLEAN
          /\ Range(server) \subseteq Clients /\ pending \in [Clients -> 0..MaxRequests]

\* As long as no timeout, departure or unlisted numeric broke the order, every reply goes
\* to the client that asked; and what the module holds is of clients that are attached.
\* Those that left by JUMPNETWORK are excepted: their replies follow them, or go to
\* whatever is at the address of a client that was deleted since.
RightClient == /\ ~wrong /\ (doing # 0) = replies
               /\ \A c \in Clients \ left : Has(pending, doing, c) => where[c] = "here"

\* A request that waits is sent, or dropped with its client or connection, although the
\* server may never answer those before it; as long as clients make only finitely many
\* requests (MaxRequests), since clients are served in a fixed order.
RequestsServed == \A c \in Clients : pending[c] > 0 ~> pending[c] = 0
==============================================================================
