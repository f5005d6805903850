--------------------------------- MODULE Dcc ----------------------------------
(***************************************************************************)
(* A DCC transfer: a file the module dcc sends ("send") or receives        *)
(* ("get"), or one that bouncedcc passes on between two sockets ("bounce").*)
(*                                                                         *)
(* Bytes are counted in units.  The receiver answers what it reads with    *)
(* the number of units it has, in a word of Word values (uint32_t); the    *)
(* sender goes on as long as that is within Window of what it sent.        *)
(***************************************************************************)
EXTENDS Naturals, Sequences

CONSTANTS Word,     \* 2^32
          Window,   \* 65536
          Packet,   \* 4096, what SendPacket reads, and a socket at a time
          MaxFile,  \* the largest file: OpenFile takes 2^32 - 1
          MaxWriteBuffer,               \* 1 MiB, when SendPacket waits
          MaxDCCBuffer, MinDCCBuffer    \* when a bounced socket is paused and goes on

VARIABLES t,      \* the transfer: the sockets with their buffers, and both ends
          broken  \* an end hung up, or what an end does not read timed out

vars == <<t, broken>>

\* st: "listen", "connect", "up" or "closed"; file: of dcc.  sofar: m_uBytesSoFar;
\* flight, acks: on the way to the receiver and back; got: the receiver's units.
\* For a bounce: sent and acked of the sender, what the sockets read but their peers
\* did not write yet (flight, acks), and which socket is paused.
Init ==
  /\ broken = FALSE
  /\ \E k \in {"send", "get", "bounce"}, s \in 0..MaxFile :
       /\ k = "get" => s > 0     \* an empty file that is received waits for the timeout
       /\ t = [kind |-> k, size |-> s, st |-> "idle", file |-> "none", from |-> 0, sofar |-> 0,
               flight |-> 0, acks |-> <<>>, got |-> 0, sent |-> 0, acked |-> 0,
               paused |-> FALSE]
-----------------------------------------------------------------------------
\* OpenFile: a file that is sent may be no file, unreadable or too large, one that is
\* received may exist or be refused.
OpenFile(st, ok) ==
  /\ t' = IF ok THEN [t EXCEPT !.st = st, !.file = "open"] ELSE [t EXCEPT !.st = "closed"]
  /\ broken' = ~ok

\* SendFile listens for 120 seconds.
SendFile(ok) == t.kind = "send" /\ t.st = "idle" /\ OpenFile("listen", ok)

\* The commands Send and Get: the path must be below the module's directory.
SendCommand == \E legal, ok \in BOOLEAN : legal /\ SendFile(ok)

\* GetFile connects to the sender.
GetFile(ok) == t.kind = "get" /\ t.st = "idle" /\ OpenFile("connect", ok)

\* DCC SEND to the module; a path it may not write to is an empty one and not opened.
OnModCTCP == \E legal, ok \in BOOLEAN : GetFile(legal /\ ok)

\* DCC RESUME: the socket on that port seeks, and so the transfer starts there.
Resume == \E p \in 1..t.size :
  /\ t.kind = "send" /\ t.st = "listen" /\ t.from = 0
  /\ t' = [t EXCEPT !.from = p, !.sofar = p, !.got = p]
  /\ UNCHANGED broken

\* Mutant: what is left of a file is not sent when it is less than a packet.
SendPacketFull(x) == IF x.size - x.sofar < Packet THEN x
                     ELSE [x EXCEPT !.sofar = @ + Packet, !.flight = @ + Packet]
\* Read and Write of SendPacket, unless the write buffer is full.
SendPacket(x) == LET left == x.size - x.sofar
                     n == IF left < Packet THEN left ELSE Packet
                 IN  IF x.flight > MaxWriteBuffer THEN x
                     ELSE [x EXCEPT !.sofar = @ + n, !.flight = @ + n]

\* Mutant: the listener's destructor closes the file it handed over.
HandOverClosed(x) == [x EXCEPT !.file = "closed"]
\* GetSockObj: the new socket has the file, the offset, and m_bNoDelFile is set.
HandOver(x) == x

\* The receiver connects to the listener; Connected sends the first packet.
Accept == /\ t.kind = "send" /\ t.st = "listen"
          /\ t' = SendPacket([HandOver(t) EXCEPT !.st = "up"])
          /\ UNCHANGED broken

Connected == /\ t.kind = "get" /\ t.st = "connect" /\ t' = [t EXCEPT !.st = "up"]
             /\ UNCHANGED broken

\* ~CDCCSock closes the file.
Close(x) == [x EXCEPT !.st = "closed", !.file = IF @ = "open" THEN "closed" ELSE @,
                      !.flight = 0, !.acks = <<>>, !.paused = FALSE]

\* The receiver of a file reads what came and answers.
PeerReads == /\ t.kind = "send" /\ t.st = "up" /\ t.flight > 0
             /\ \E n \in 1..t.flight :
                  t' = [t EXCEPT !.flight = @ - n, !.got = @ + n,
                                 !.acks = Append(@, (t.got + n) % Word)]
             /\ UNCHANGED broken

\* ReadData of a send: an answer.
ReadAck(x) == IF (Head(x.acks) + Window) % Word >= x.sofar
              THEN SendPacket([x EXCEPT !.acks = Tail(@)]) ELSE [x EXCEPT !.acks = Tail(@)]
ReadData == /\ t.kind = "send" /\ t.st = "up" /\ t.acks # <<>> /\ t' = ReadAck(t)
            /\ UNCHANGED broken

\* ReadData of a get: the file is written, answered, and closed when it is complete.
Written(x, n) == LET y == [x EXCEPT !.sofar = @ + n]
                 IN  IF y.sofar >= y.size THEN Close(y) ELSE y
ReadFile == /\ t.kind = "get" /\ t.st = "up"
            /\ \E n \in 1..Packet : t' = Written(t, n)
            /\ UNCHANGED broken

\* The receiver has it all and hangs up.
PeerDone == /\ t.kind = "send" /\ t.st = "up" /\ t.got = t.size /\ t' = Close(t)
            /\ UNCHANGED broken
-----------------------------------------------------------------------------
\* OnPrivCTCP and OnUserCTCP of bouncedcc: DCCRequest listens for the offer (CHAT or
\* SEND) and passes it on with the port; RESUME and ACCEPT are passed on with the
\* port of the other side as long as the listener is there.
DCCRequest == /\ t.kind = "bounce" /\ t.st = "idle" /\ t' = [t EXCEPT !.st = "listen"]
              /\ UNCHANGED broken

BounceResume == \E p \in 1..t.size :
  /\ t.kind = "bounce" /\ t.st = "listen" /\ t.from = 0
  /\ t' = [t EXCEPT !.from = p, !.sent = p, !.got = p, !.acked = p]
  /\ UNCHANGED broken

\* GetSockObj: the listener is closed, a socket connects to the one who offered, both
\* are peers of each other.  The chat flag is passed in the place of the timeout:
\* also the sockets of a chat pass on data rather than lines.
GetSockObj == /\ t.kind = "bounce" /\ t.st = "listen"
              /\ t' = [t EXCEPT !.st = "connect"]
              /\ UNCHANGED broken
BounceConnected == /\ t.kind = "bounce" /\ t.st = "connect" /\ t' = [t EXCEPT !.st = "up"]
                   /\ UNCHANGED broken

\* ReadData: what was read is written whole, then the peer's write buffer is tested.
Throttled(x) == [x EXCEPT !.paused = @ \/ x.flight >= MaxDCCBuffer]
BounceRead == /\ t.kind = "bounce" /\ t.st = "up" /\ ~t.paused
              /\ \E n \in 1..Packet : /\ t.sent + n <= t.size
                                     /\ t' = Throttled([t EXCEPT !.sent = @ + n, !.flight = @ + n])
              /\ UNCHANGED broken

\* ReadPaused, which the socket manager calls for a paused socket.
ReadPaused == /\ t.kind = "bounce" /\ t.st = "up" /\ t.paused /\ t.flight <= MinDCCBuffer
              /\ t' = [t EXCEPT !.paused = FALSE]
              /\ UNCHANGED broken

\* The peer writes, the receiver reads and answers; the answer goes the other way.
BounceWritten == /\ t.kind = "bounce" /\ t.st = "up" /\ t.flight > 0
                 /\ t' = [t EXCEPT !.flight = @ - 1, !.got = @ + 1, !.acks = <<t.got + 1>>]
                 /\ UNCHANGED broken
BounceAcked == /\ t.kind = "bounce" /\ t.st = "up" /\ t.acks # <<>>
               /\ t' = [t EXCEPT !.acks = <<>>, !.acked = Head(t.acks)]
               /\ UNCHANGED broken

\* The sender has all answers and hangs up; ~CDCCBounce shuts the peer down at once,
\* whatever is in its write buffer.
SenderDone == /\ t.kind = "bounce" /\ t.st = "up" /\ t.acked = t.size /\ t' = Close(t)
              /\ UNCHANGED broken
-----------------------------------------------------------------------------
\* An end hangs up, a connection is refused or breaks, or nobody comes in time.
HangUp == /\ t.kind # "bounce" /\ t.st \notin {"idle", "closed"}
          /\ t' = Close(t) /\ broken' = TRUE
BounceHangUp == /\ t.kind = "bounce" /\ t.st \notin {"idle", "closed"}
                /\ t' = Close(t) /\ broken' = TRUE

\* 120 seconds without traffic on a socket of dcc.
Timeout == /\ t.kind = "send" /\ t.st = "up" /\ t.flight = 0 /\ t.acks = <<>> /\ t.got # t.size
           /\ t' = Close(t) /\ UNCHANGED broken

Moves == \/ PeerReads \/ ReadData \/ ReadFile \/ PeerDone \/ BounceRead \/ ReadPaused
         \/ BounceWritten \/ BounceAcked \/ SenderDone \/ Timeout

Next == \/ SendCommand \/ OnModCTCP \/ Resume \/ Accept \/ Connected \/ PeerReads \/ ReadData
        \/ ReadFile \/ PeerDone \/ DCCRequest \/ BounceResume \/ GetSockObj
        \/ BounceConnected \/ BounceRead \/ ReadPaused \/ BounceWritten \/ BounceAcked
        \/ SenderDone \/ HangUp \/ BounceHangUp \/ Timeout

Spec == Init /\ [][Next]_vars

\* The sockets are polled, and the other ends read and answer as the protocol asks.
Fairness == WF_vars(Moves)
FairSpec == Spec /\ Fairness
-----------------------------------------------------------------------------
TypeOK == /\ t.kind \in {"send", "get", "bounce"} /\ t.size \in 0..MaxFile
          /\ t.st \in {"idle", "listen", "connect", "up", "closed"}
          /\ t.file \in {"none", "open", "closed"} /\ broken \in BOOLEAN

\* Handed from the listener to its socket, a file stays open until the transfer is
\* over and is closed then; what was read is written or still buffered; a bounced
\* socket is over its limit by less than one read, although the sides are not in step.
TransferSafe ==
  /\ t.kind # "bounce" /\ t.st \in {"listen", "connect", "up"} => t.file = "open"
  /\ t.st = "closed" => t.file # "open"
  /\ t.kind = "send" /\ t.st = "up" => t.sofar = t.got + t.flight /\ t.sofar <= t.size
  /\ t.kind = "bounce" /\ t.st = "up" => t.sent = t.got + t.flight
  /\ t.kind = "bounce" => t.flight < MaxDCCBuffer + Packet

\* The position the receiver acknowledges plus the window does not wrap (ReadAck).
Fits == t.kind = "send" => t.size + Window <= Word

\* A transfer that is connected and whose ends go on is completed: the acknowledgement
\* lets the sender go on (ReadData), and a paused side goes on (ReadPaused).  Of a file
\* that is sent this holds up to 2^32 - 65536 bytes: a larger one, which OpenFile takes,
\* may stall near its end, and the timeout closes it.
TransferEnds ==
  t.st = "up" ~>
    broken \/ (t.st = "closed" /\ (Fits => (IF t.kind = "get" THEN t.sofar ELSE t.got) >= t.size))
=============================================================================
