------------------------------ MODULE SendQueue -------------------------------
(***************************************************************************)
(* The queue of lines to the server and flood protection:                  *)
(* src/src/IRCSock.cpp, PutIRC, PutIRCQuick, TrySend, CIRCFloodTimer.      *)
(*                                                                         *)
(* m_iSendsAllowed is a short and m_uFloodBurst an unsigned short: a short *)
(* has the values -Half..Half-1.                                           *)
(***************************************************************************)
EXTENDS Integers, Sequences

CONSTANTS Half,         \* 2^15
          Bursts,       \* values of FloodBurst
          MaxLines      \* bound: lines that are put

VARIABLES burst, protected,   \* m_uFloodBurst, m_bFloodProtection
          allowed,            \* m_iSendsAllowed
          queue,              \* m_vSendQueue
          sent,               \* lines written to the socket
          put                 \* number of lines put so far

vars == <<burst, protected, allowed, queue, sent, put>>

Short(i) == ((i + Half) % (2 * Half)) - Half

\* CIRCSock: a rate over FLOOD_MINIMAL_RATE protects and starts the timer.
Init == /\ burst \in Bursts /\ protected \in BOOLEAN /\ allowed = Short(burst)
        /\ queue = <<>> /\ sent = <<>> /\ put = 0

\* Mutant: the last line that is allowed is kept back.
MaySendLess(a) == ~protected \/ a > 1
MaySend(a) == ~protected \/ a > 0

\* A turn of TrySend's loop; modules may drop the line, but it has been counted.
\* The loop goes on as long as it may.
TrySend(q, a) ==
  LET n == CHOOSE k \in 0..Len(q) :
             /\ \A i \in 0..k - 1 : MaySend(Short(a - i))
             /\ k = Len(q) \/ ~MaySend(Short(a - k))
  IN  /\ queue' = SubSeq(q, n + 1, Len(q))
      /\ allowed' = Short(a - n)
      /\ sent' = sent \o SubSeq(q, 1, n)

Line(quick) == [n |-> put + 1, quick |-> quick]
\* A full queue is only warned about.
PutIRC == /\ put < MaxLines /\ put' = put + 1 /\ UNCHANGED <<burst, protected>>
          /\ TrySend(Append(queue, Line(FALSE)), allowed)
\* To the front: answers to PING.
PutIRCQuick == /\ put < MaxLines /\ put' = put + 1 /\ UNCHANGED <<burst, protected>>
               /\ TrySend(<<Line(TRUE)>> \o queue, allowed)

\* CIRCFloodTimer
RunJob == /\ protected /\ UNCHANGED <<burst, protected, put>>
          /\ TrySend(queue, IF allowed < burst THEN Short(allowed + 1) ELSE allowed)

Next == PutIRC \/ PutIRCQuick \/ RunJob

Spec == Init /\ [][Next]_vars
\* The timer runs.
FairSpec == Spec /\ WF_vars(RunJob)
-----------------------------------------------------------------------------
TypeOK == /\ allowed \in -Half..Half - 1 /\ burst \in Bursts /\ put \in 0..MaxLines
          /\ Len(queue) + Len(sent) = put

Increasing(s) == \A i, j \in DOMAIN s : i < j /\ ~s[i].quick /\ ~s[j].quick => s[i].n < s[j].n
Numbers(s) == {s[i].n : i \in DOMAIN s}
\* Lines are neither lost nor doubled, the ordinary ones leave in the order they were put
\* however quick ones jump the queue; no line waits while one may be sent, and with
\* protection a burst is never more than FloodBurst lines, for one that fits the counter.
SendsInOrder ==
  /\ Increasing(sent \o queue) /\ Numbers(sent \o queue) = 1..put
  /\ protected /\ burst < Half => 0 <= allowed /\ allowed <= burst
  /\ queue # <<>> => protected /\ allowed <= 0

\* Every line that is put is sent, if FloodBurst is not 0, with which the timer never allows
\* one.  Over 32767 the number of allowed lines starts below zero and wraps at the top: lines
\* wait for as many as 32768 turns of the timer, but are sent.
AllSent == queue # <<>> ~> queue = <<>>
=============================================================================
