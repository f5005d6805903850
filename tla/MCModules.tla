------------------------------ MODULE MCModules ------------------------------
(***************************************************************************)
(* An instance of the send queue, of the list of servers of IrcConnect, of  *)
(* the functions on text and of the modules route_replies, autoop,          *)
(* simple_away, dcc and bouncedcc, beside Crypt, which is extended.  They   *)
(* share no state: in a behaviour one of them moves, and the others stay in *)
(* an initial state.                                                        *)
(***************************************************************************)
EXTENDS Crypt

CONSTANTS Half, Bursts, MaxLines,          \* of SendQueue
          Clients, MaxRequests,            \* of RouteReplies
          Holders, Others, MaxChanges,     \* of AutoOp
          Cases,                           \* nicks, those that differ in case only in one set
          MaxClients,                      \* of SimpleAway
          Word, Window, Packet, MaxFile,   \* of Dcc
          MaxWriteBuffer, MaxDCCBuffer, MinDCCBuffer,
          MaxWild, MaxString, MaxLine, MaxValue   \* of Text

\* FloodBurst is an unsigned short, m_iSendsAllowed a short.
ASSUME QueueAssumption == /\ Half \in Nat \ {0} /\ Bursts \subseteq 0..2 * Half - 1
                          /\ MaxLines \in Nat
ASSUME RepliesAssumption == Clients \subseteq Nat \ {0} /\ MaxRequests \in Nat
\* "old" is what AutoOp calls a challenge that is gone.
ASSUME NicksAssumption == {} \notin Cases /\ "old" \notin UNION Cases
ASSUME AwayAssumption == MaxClients \in Nat \ {0}
ASSUME DccAssumption == /\ Word \in Nat \ {0} /\ Packet \in Nat \ {0} /\ MaxFile \in Nat
                        /\ {Window, MaxWriteBuffer, MaxDCCBuffer, MinDCCBuffer} \subseteq Nat
                        /\ MinDCCBuffer < MaxDCCBuffer

VARIABLES part,
          burst, protected, allowed, queue, sent, put,
          live, enabled, servers, idx, sock, znc, throttled, running, local, state, owner, closing,
          identSock, crashed,
          where, pending, doing, replies, timer, server, requests, left, lost, wrong,
          key, op, peers, opQueue, out, back, changes, late,
          irc, clients, away, m, stored, awayTimer, settled,
          t, broken,
          fn, first, second

Sq == INSTANCE SendQueue
Sv == INSTANCE IrcConnect WITH Networks <- {"n1"}, NoNetwork <- "none", Servers <- {"s1", "s2", "s3"},
                               Unix <- {"s3"}, Socks <- {"k1"}, NoSock <- "none", IdentFile <- FALSE,
                               HooksAbort <- TRUE
Rr == INSTANCE RouteReplies
\* AsLower: one nick of those that differ in case only.
AsLower == [n \in UNION Cases |-> CHOOSE x \in CHOOSE S \in Cases : n \in S : TRUE]
Ao == INSTANCE AutoOp WITH Nicks <- UNION Cases, Lower <- AsLower, queue <- opQueue
Sa == INSTANCE SimpleAway WITH server <- away, timer <- awayTimer, nv <- stored
Dc == INSTANCE Dcc
Tx == INSTANCE Text WITH a <- first, b <- second

sqVars == <<burst, protected, allowed, queue, sent, put>>
svVars == <<live, enabled, servers, idx, sock, znc, throttled, running, local, state, owner, closing,
            identSock, crashed>>
rrVars == <<where, pending, doing, replies, timer, server, requests, left, lost, wrong>>
aoVars == <<key, op, peers, opQueue, out, back, changes, late>>
saVars == <<irc, clients, away, m, stored, awayTimer, settled>>
dcVars == <<t, broken>>
txVars == <<fn, first, second>>
partsVars == <<sqVars, svVars, rrVars, aoVars, saVars, dcVars, txVars>>

\* Different nicks for all peers.
Apart == CHOOSE f \in [Ao!Peers -> UNION Cases] :
           \A p, q \in Ao!Peers : AsLower[f[p]] = AsLower[f[q]] => p = q

PartsInit ==
        /\ part \in {"queue", "servers", "replies", "autoop", "away", "dcc", "text", "crypt"}
        /\ Init
        /\ Sq!Init /\ (part # "queue" => burst = 1 /\ protected)
        /\ Sv!Init
        /\ Rr!Init
        /\ Ao!Init /\ (part # "autoop" => key /\ \A p \in Ao!Peers : peers[p].nick = Apart[p])
        /\ Sa!Init
        /\ Dc!Init /\ (part # "dcc" => t.kind = "send" /\ t.size = 0)
        /\ Tx!Init /\ (part # "text" => fn = "Split")

PartsNext ==
  \/ part = "queue" /\ Sq!Next /\ UNCHANGED <<part, vars, svVars, rrVars, aoVars, saVars, dcVars, txVars>>
  \/ part = "servers" /\ Sv!Next /\ UNCHANGED <<part, vars, sqVars, rrVars, aoVars, saVars, dcVars, txVars>>
  \/ part = "replies" /\ Rr!Next /\ UNCHANGED <<part, vars, sqVars, svVars, aoVars, saVars, dcVars, txVars>>
  \/ part = "autoop" /\ Ao!Next /\ UNCHANGED <<part, vars, sqVars, svVars, rrVars, saVars, dcVars, txVars>>
  \/ part = "away" /\ Sa!Next /\ UNCHANGED <<part, vars, sqVars, svVars, rrVars, aoVars, dcVars, txVars>>
  \/ part = "dcc" /\ Dc!Next /\ UNCHANGED <<part, vars, sqVars, svVars, rrVars, aoVars, saVars, txVars>>
  \/ part = "text" /\ Tx!Next /\ UNCHANGED <<part, vars, sqVars, svVars, rrVars, aoVars, saVars, dcVars>>
  \/ part = "crypt" /\ Next /\ UNCHANGED <<part, partsVars>>

PartsFairness ==
            /\ WF_sqVars(part = "queue" /\ Sq!RunJob)
            /\ WF_rrVars(part = "replies" /\ Rr!Timeout)
            /\ WF_aoVars(part = "autoop" /\ Ao!ProcessQueue)
            /\ WF_aoVars(part = "autoop" /\ Ao!ChallengeRespond)
            /\ WF_aoVars(part = "autoop" /\ Ao!VerifyResponse)
            /\ WF_dcVars(part = "dcc" /\ Dc!Moves)

PartsSpec == PartsInit /\ [][PartsNext]_<<part, vars, partsVars>> /\ PartsFairness
-----------------------------------------------------------------------------
\* What passes through these parts passes once, in order and to the right side: lines to
\* the server (TrySend), replies to the client that asked until something breaks their order
\* (route_replies; not to one that left by JUMPNETWORK), bytes of a transfer (dcc), of which
\* a bounced one has less than MaxDCCBuffer and one read waiting (bouncedcc); and the server
\* thinks of the user as away when the clients and the settings say so (simple_away).
TrafficRight == /\ Sq!TypeOK /\ Sq!SendsInOrder
                /\ Rr!TypeOK /\ Rr!RightClient
                /\ Dc!TypeOK /\ Dc!TransferSafe
                /\ Sa!TypeOK /\ Sa!AwayRight
                /\ Ao!TypeOK

\* Text that is taken apart and put together, or written to a file and read, says the same,
\* and masks match what they mean (CString, CMessage, CModule's registry).
TextRight == Tx!MasksRight /\ Tx!ComesBack /\ Tx!TokensAgree /\ Tx!SameMeaning

\* Removing servers one by one never makes a network skip the one it would try next.
NextServerKept == Sv!NextServerKept

\* Every line that is put into the send queue is sent, for any FloodBurst but 0.
AllSent == Sq!AllSent

\* route_replies: requests of a client are served, also when replies never come.
RequestsServed == Rr!RequestsServed

\* autoop: a holder of the key gets op, whatever nicks he and others take.
HolderOpped == Ao!HolderOpped

\* dcc and bouncedcc: a transfer whose ends go on is completed, but for files sent of which
\* the last position and the window do not fit in 32 bits.
TransferEnds == Dc!TransferEnds
=============================================================================
