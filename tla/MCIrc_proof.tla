------------------------------ MODULE MCIrc_proof -----------------------------
(***************************************************************************)
(* Proofs about what answers the server: the negotiation of capabilities   *)
(* (ServerCap), for any capabilities, any number of mechanisms, changes and *)
(* connections, and any width of m_uCapPaused; and the channel (Channels),  *)
(* for any three nicks, any number of lines on the way and of events.       *)
(***************************************************************************)
EXTENDS MCIrc, FiniteSetTheorems, SequenceTheorems, TLAPS

-----------------------------------------------------------------------------
(* Capabilities.                                                           *)
(* What is said of the lines under way is said with sets of lines, so that  *)
(* it needs three operators only (Any, Once, Followed) and, for each, one   *)
(* fact about a line that is sent and one about a line that is received.    *)

(* Lines under way *)

Any(q, M) == \E i \in DOMAIN q : q[i] \in M
Once(q, M) == \A i, j \in DOMAIN q : q[i] \in M /\ q[j] \in M => i = j

\* Every line of M is followed by one of N.
Followed(q, M, N) == \A i \in DOMAIN q : q[i] \in M => \E j \in DOMAIN q : j > i /\ q[j] \in N

LEMMA EmptyLine == ASSUME NEW M, NEW N PROVE ~Any(<<>>, M) /\ Once(<<>>, M) /\ Followed(<<>>, M, N)
  BY DEF Any, Once, Followed

LEMMA AppendDomain ==
  ASSUME NEW S, NEW q \in Seq(S), NEW x \in S
  PROVE  /\ Append(q, x) \in Seq(S) /\ Len(q) \in Nat /\ DOMAIN q = 1..Len(q)
         /\ DOMAIN Append(q, x) = 1..(Len(q) + 1)
         /\ \A i \in 1..Len(q) : Append(q, x)[i] = q[i]
         /\ Append(q, x)[Len(q) + 1] = x
<1>1. /\ Append(q, x) \in Seq(S) /\ Len(Append(q, x)) = Len(q) + 1
      /\ \A i \in 1..Len(q) : Append(q, x)[i] = q[i]
      /\ Append(q, x)[Len(q) + 1] = x
  BY AppendProperties
<1> QED  BY <1>1

LEMMA TailDomain ==
  ASSUME NEW S, NEW q \in Seq(S), q # <<>>
  PROVE  /\ Head(q) \in S /\ Head(q) = q[1] /\ Tail(q) \in Seq(S)
         /\ Len(q) \in Nat \ {0} /\ DOMAIN q = 1..Len(q) /\ DOMAIN Tail(q) = 1..(Len(q) - 1)
         /\ \A i \in 1..(Len(q) - 1) : Tail(q)[i] = q[i + 1]
<1>1. /\ Head(q) \in S /\ Tail(q) \in Seq(S) /\ Len(Tail(q)) = Len(q) - 1
      /\ \A i \in 1..Len(Tail(q)) : Tail(q)[i] = q[i + 1]
  BY HeadTailProperties
<1> QED  BY <1>1

LEMMA AnyAppend ==
  ASSUME NEW S, NEW q \in Seq(S), NEW x \in S, NEW M
  PROVE  Any(Append(q, x), M) <=> x \in M \/ Any(q, M)
  BY AppendDomain DEF Any

LEMMA AnyTail ==
  ASSUME NEW S, NEW q \in Seq(S), q # <<>>, NEW M
  PROVE  Any(q, M) <=> Head(q) \in M \/ Any(Tail(q), M)
<1>1. ASSUME NEW i \in DOMAIN q, q[i] \in M PROVE Head(q) \in M \/ Any(Tail(q), M)
  <2>1. CASE i = 1  BY <1>1, <2>1, TailDomain
  <2>2. CASE i # 1
    <3>1. i - 1 \in DOMAIN Tail(q) /\ Tail(q)[i - 1] = q[i]  BY <2>2, TailDomain
    <3> QED  BY <3>1, <1>1 DEF Any
  <2> QED  BY <2>1, <2>2
<1>2. ASSUME NEW i \in DOMAIN Tail(q), Tail(q)[i] \in M PROVE Any(q, M)
  <2>1. i + 1 \in DOMAIN q /\ q[i + 1] = Tail(q)[i]  BY TailDomain
  <2> QED  BY <2>1, <1>2 DEF Any
<1>3. Head(q) \in M => Any(q, M)  BY TailDomain DEF Any
<1> QED  BY <1>1, <1>2, <1>3 DEF Any

LEMMA OnceAppend ==
  ASSUME NEW S, NEW q \in Seq(S), NEW x \in S, NEW M, Once(q, M), x \notin M \/ ~Any(q, M)
  PROVE  Once(Append(q, x), M)
  BY AppendDomain DEF Any, Once

LEMMA OnceTail ==
  ASSUME NEW S, NEW q \in Seq(S), q # <<>>, NEW M, Once(q, M)
  PROVE  Once(Tail(q), M) /\ (Head(q) \in M => ~Any(Tail(q), M))
<1>1. Once(Tail(q), M)
  <2> SUFFICES ASSUME NEW i \in DOMAIN Tail(q), NEW j \in DOMAIN Tail(q),
                      Tail(q)[i] \in M, Tail(q)[j] \in M
               PROVE  i = j
    BY DEF Once
  <2>1. i + 1 \in DOMAIN q /\ q[i + 1] \in M /\ j + 1 \in DOMAIN q /\ q[j + 1] \in M  BY TailDomain
  <2>2. i + 1 = j + 1  BY <2>1 DEF Once
  <2> QED  BY <2>2, TailDomain
<1>2. ASSUME Head(q) \in M, NEW i \in DOMAIN Tail(q), Tail(q)[i] \in M PROVE FALSE
  <2>1. i + 1 \in DOMAIN q /\ q[i + 1] \in M /\ 1 \in DOMAIN q /\ q[1] \in M  BY <1>2, TailDomain
  <2>2. i + 1 = 1  BY <2>1 DEF Once
  <2> QED  BY <2>2, TailDomain
<1> QED  BY <1>1, <1>2 DEF Any

LEMMA FollowedAppend ==
  ASSUME NEW S, NEW q \in Seq(S), NEW x \in S, NEW M, NEW N,
         x \notin M, Followed(q, M, N) \/ x \in N
  PROVE  Followed(Append(q, x), M, N)
  BY AppendDomain DEF Followed

LEMMA FollowedTail ==
  ASSUME NEW S, NEW q \in Seq(S), q # <<>>, NEW M, NEW N, Followed(q, M, N)
  PROVE  Followed(Tail(q), M, N) /\ (Head(q) \in M => Any(Tail(q), N))
<1>1. Followed(Tail(q), M, N)
  <2> SUFFICES ASSUME NEW i \in DOMAIN Tail(q), Tail(q)[i] \in M
               PROVE  \E j \in DOMAIN Tail(q) : j > i /\ Tail(q)[j] \in N
    BY DEF Followed
  <2>1. i + 1 \in DOMAIN q /\ q[i + 1] \in M  BY TailDomain
  <2>2. PICK j \in DOMAIN q : j > i + 1 /\ q[j] \in N  BY <2>1 DEF Followed
  <2>3. j - 1 \in DOMAIN Tail(q) /\ j - 1 > i /\ Tail(q)[j - 1] = q[j]  BY <2>2, TailDomain
  <2> QED  BY <2>2, <2>3
<1>2. ASSUME Head(q) \in M PROVE Any(Tail(q), N)
  <2>1. PICK j \in DOMAIN q : j > 1 /\ q[j] \in N  BY <1>2, TailDomain DEF Followed
  <2>2. j - 1 \in DOMAIN Tail(q) /\ Tail(q)[j - 1] = q[j]  BY <2>1, TailDomain
  <2> QED  BY <2>1, <2>2 DEF Any
<1> QED  BY <1>1, <1>2

LEMMA ConcatTwo ==
  ASSUME NEW S, NEW q \in Seq(S), NEW x \in S, NEW y \in S
  PROVE  q \o <<x, y>> = Append(Append(q, x), y)
<1>1. <<x, y>> = Append(<<x>>, y) /\ <<x>> \in Seq(S) /\ <<y>> \in Seq(S)  OBVIOUS
<1>2. Append(<<x>>, y) = <<x>> \o <<y>>  BY <1>1, AppendIsConcat
<1>3. Append(q, x) = q \o <<x>> /\ Append(q, x) \in Seq(S)  BY AppendIsConcat, AppendProperties
<1>4. Append(Append(q, x), y) = Append(q, x) \o <<y>>  BY <1>3, AppendIsConcat
<1>5. (q \o <<x>>) \o <<y>> = q \o (<<x>> \o <<y>>)  BY <1>1, ConcatAssociative
<1> QED  BY <1>1, <1>2, <1>3, <1>4, <1>5
-----------------------------------------------------------------------------
(* The lines that there are *)

Of(cmds) == {m \in Lines : m.cmd \in cmds}
Naming(cmds, c) == {m \in Lines : m.cmd \in cmds /\ c \in m.caps}

ServerLines == {Line(cmd, {}) : cmd \in {"LS", "END", "MECH", "DATA"}}
                 \cup {Line("REQ", S) : S \in {S \in SUBSET Wanted : S # {}}}
ZncLines == {m \in Lines : /\ m.cmd \in {"LS", "LS*", "NEW", "DEL", "ACK", "NAK", "AUTHENTICATE", "903",
                                        "904", "906", "907", "001"}
                           /\ m.cmd \in {"ACK", "NAK"} => m.caps \subseteq Wanted /\ m.caps # {}}

LEMMA LineFacts ==
  ASSUME NEW cmd, NEW S
  PROVE  Line(cmd, S).cmd = cmd /\ Line(cmd, S).caps = S
  BY DEF Line

LEMMA ServerLineFacts ==
  /\ ServerLines \subseteq Lines
  /\ \A cmd \in {"LS", "END", "MECH", "DATA"} : Line(cmd, {}) \in ServerLines
  /\ \A S \in SUBSET Wanted : S # {} => Line("REQ", S) \in ServerLines
  /\ \A m \in ServerLines : /\ m.cmd = "END" => m = Line("END", {})
                            /\ m.cmd = "REQ" => m.caps \subseteq Wanted /\ m.caps # {}
<1>1. \A S \in SUBSET Wanted : Line("REQ", S) \in Lines
  BY CapsAssumption DEF Line, Lines
<1>2. \A cmd \in {"LS", "END", "MECH", "DATA"} : Line(cmd, {}) \in Lines
  BY DEF Line, Lines
<1>3. ASSUME NEW m \in ServerLines
      PROVE  /\ m \in Lines
             /\ m.cmd = "END" => m = Line("END", {})
             /\ m.cmd = "REQ" => m.caps \subseteq Wanted /\ m.caps # {}
  <2>1. CASE \E cmd \in {"LS", "END", "MECH", "DATA"} : m = Line(cmd, {})
    BY <2>1, <1>2, LineFacts
  <2>2. CASE \E S \in SUBSET Wanted : S # {} /\ m = Line("REQ", S)
    BY <2>2, <1>1, LineFacts
  <2> QED  BY <2>1, <2>2 DEF ServerLines
<1>4. \A cmd \in {"LS", "END", "MECH", "DATA"} : Line(cmd, {}) \in ServerLines
  BY DEF ServerLines
<1>5. \A S \in SUBSET Wanted : S # {} => Line("REQ", S) \in ServerLines
  BY DEF ServerLines
<1> QED  BY <1>3, <1>4, <1>5

LEMMA ZncLineFacts ==
  /\ ZncLines \subseteq Lines
  /\ \A S \in SUBSET Caps : \A cmd \in {"LS", "LS*", "NEW", "DEL"} : Line(cmd, S) \in ZncLines
  /\ \A S \in SUBSET Wanted : \A cmd \in {"ACK", "NAK"} : S # {} => Line(cmd, S) \in ZncLines
  /\ \A cmd \in {"AUTHENTICATE", "903", "904", "906", "907", "001"} : Line(cmd, {}) \in ZncLines
  BY CapsAssumption DEF Line, Lines, ZncLines

\* What SendNextCap may do with its arguments.
Silent(pend, ph2, pause, lines) ==
  /\ toServer' = lines /\ pending' = pend /\ phase2' = ph2
  /\ pause # 0 \/ (pend = {} /\ ph2 = {})
Ends(pend, ph2, pause, lines) ==
  /\ toServer' = Append(lines, Line("END", {})) /\ pending' = {} /\ phase2' = {}
  /\ pause = 0 /\ pend = {} /\ ph2 = {}
Requests(pend, ph2, pause, lines, S) ==
  /\ toServer' = Append(lines, Line("REQ", S)) /\ pause = 0 /\ S # {}
  /\ \/ S \subseteq pend /\ pending' = pend \ S /\ phase2' = ph2
     \/ S \subseteq ph2 /\ pending' = pend /\ phase2' = ph2 \ S

LEMMA SendCases ==
  ASSUME NEW pend \in SUBSET Wanted, NEW ph2 \in SUBSET Wanted, NEW pause, NEW lines,
         SendNextCap(pend, ph2, pause, lines)
  PROVE  \/ Silent(pend, ph2, pause, lines)
         \/ Ends(pend, ph2, pause, lines)
         \/ \E S \in SUBSET Wanted : Requests(pend, ph2, pause, lines, S)
<1>1. CASE pause # 0 /\ pending' = pend /\ phase2' = ph2 /\ toServer' = lines
  BY <1>1 DEF Silent
<1>2. CASE /\ pause = 0 /\ phase2' = ph2
           /\ \E S \in (SUBSET pend) \ {{}} : pending' = pend \ S /\ toServer' = Append(lines, Line("REQ", S))
  <2>1. PICK S \in (SUBSET pend) \ {{}} : pending' = pend \ S /\ toServer' = Append(lines, Line("REQ", S))
    BY <1>2
  <2>2. S # {} /\ S \subseteq pend /\ S \in SUBSET Wanted
    BY <2>1
  <2>3. Requests(pend, ph2, pause, lines, S)  BY <1>2, <2>1, <2>2 DEF Requests
  <2> QED  BY <2>2, <2>3
<1>3. CASE /\ pause = 0 /\ pend = {} /\ pending' = pend
           /\ \E c \in ph2 : phase2' = ph2 \ {c} /\ toServer' = Append(lines, Line("REQ", {c}))
  <2>1. PICK c \in ph2 : phase2' = ph2 \ {c} /\ toServer' = Append(lines, Line("REQ", {c}))
    BY <1>3
  <2>2. {c} # {} /\ {c} \subseteq ph2 /\ {c} \in SUBSET Wanted  BY <2>1
  <2>3. Requests(pend, ph2, pause, lines, {c})  BY <1>3, <2>1, <2>2 DEF Requests
  <2> QED  BY <2>2, <2>3
<1>4. CASE /\ pause = 0 /\ pend = {} /\ ph2 = {} /\ pending' = pend /\ phase2' = ph2
           /\ toServer' = IF authed THEN lines ELSE Append(lines, Line("END", {}))
  BY <1>4 DEF Silent, Ends
<1> QED  BY <1>1, <1>2, <1>3, <1>4 DEF SendNextCap

LEMMA SendType ==
  ASSUME NEW pend \in SUBSET Wanted, NEW ph2 \in SUBSET Wanted, NEW pause,
         NEW lines \in Seq(ServerLines), SendNextCap(pend, ph2, pause, lines)
  PROVE  /\ toServer' \in Seq(ServerLines)
         /\ pending' \subseteq Wanted /\ phase2' \subseteq Wanted
         /\ Any(toServer', Of({"LS"})) => Any(lines, Of({"LS"}))
<1>1. CASE Silent(pend, ph2, pause, lines)  BY <1>1 DEF Silent
<1>2. CASE Ends(pend, ph2, pause, lines)
  BY <1>2, ServerLineFacts, AppendDomain, AnyAppend, LineFacts DEF Ends, Of
<1>3. ASSUME NEW S \in SUBSET Wanted, Requests(pend, ph2, pause, lines, S)
      PROVE  /\ toServer' \in Seq(ServerLines)
             /\ pending' \subseteq Wanted /\ phase2' \subseteq Wanted
             /\ Any(toServer', Of({"LS"})) => Any(lines, Of({"LS"}))
  BY <1>3, ServerLineFacts, AppendDomain, AnyAppend, LineFacts DEF Requests, Of
<1> QED  BY <1>1, <1>2, <1>3, SendCases
-----------------------------------------------------------------------------
(* The basis: types, the lines that may be under way, and the start of a connection *)

Scalars ==
  /\ pending \subseteq Wanted /\ phase2 \subseteq Wanted /\ accepted \subseteq Wanted
  /\ paused \in 0..UIntMod - 1 /\ authed \in BOOLEAN /\ closing \in BOOLEAN
  /\ mech \in 0..NumMechs /\ authenticated \in BOOLEAN /\ requireAuth \in BOOLEAN
  /\ offers \subseteq Caps /\ enabled \subseteq Wanted /\ enabled \subseteq offers
  /\ stage \in {"new", "negotiating", "registered"}
  /\ exchange \in BOOLEAN /\ loggedIn \in BOOLEAN
  /\ saslStable \in BOOLEAN /\ changes \in 0..MaxChanges /\ conns \in 0..MaxConns

\* Until the server has read the first line, nothing happens.
StartOnly ==
  /\ stage = "new" => /\ toServer = <<Line("LS", {})>> /\ toZnc = <<>>
                      /\ enabled = {} /\ accepted = {} /\ pending = {} /\ phase2 = {} /\ paused = 0
  /\ stage # "new" => ~Any(toServer, Of({"LS"}))

Base == /\ toServer \in Seq(ServerLines) /\ toZnc \in Seq(ZncLines)
        /\ Scalars /\ StartOnly

LEMMA BaseType == Base => TypeOK
<1>1. ASSUME NEW q \in Seq(ServerLines) PROVE q \in Seq(Lines)  BY ServerLineFacts
<1>2. ASSUME NEW q \in Seq(ZncLines) PROVE q \in Seq(Lines)  BY ZncLineFacts
<1> QED  BY <1>1, <1>2 DEF Base, Scalars, TypeOK

LEMMA InitBase == Init => Base
<1> SUFFICES ASSUME Init PROVE Base
  OBVIOUS
<1>1. <<Line("LS", {})>> \in Seq(ServerLines) /\ <<>> \in Seq(ZncLines)
  BY ServerLineFacts
<1>2. Scalars
  <2>1. 0 \in 0..UIntMod - 1 /\ 0 \in 0..NumMechs /\ 0 \in 0..MaxChanges /\ 1 \in 0..MaxConns
    BY CountsAssumption
  <2> QED  BY <2>1 DEF Init, Scalars
<1>3. StartOnly  BY DEF Init, StartOnly
<1> QED  BY <1>1, <1>2, <1>3 DEF Init, Base

\* What is known of a line that ZNC receives, and of one that the server reads.
LEMMA ReceiveFacts ==
  ASSUME Base, NEW cmd, Receives(cmd)
  PROVE  /\ ~closing /\ stage # "new"
         /\ toZnc # <<>> /\ toZnc' = Tail(toZnc) /\ toZnc' \in Seq(ZncLines)
         /\ Head(toZnc) \in ZncLines /\ Head(toZnc) \in Lines /\ Head(toZnc).cmd = cmd
         /\ Head(toZnc).caps \subseteq Caps
         /\ cmd \in {"ACK", "NAK"} => Head(toZnc).caps \subseteq Wanted /\ Head(toZnc).caps # {}
<1>1. ~closing /\ toZnc # <<>> /\ toZnc' = Tail(toZnc) /\ Head(toZnc).cmd = cmd
  BY DEF Receives
<1>2. Head(toZnc) \in ZncLines /\ Tail(toZnc) \in Seq(ZncLines)
  BY <1>1, TailDomain DEF Base
<1>3. stage # "new"  BY <1>1 DEF Base, StartOnly
<1> QED  BY <1>1, <1>2, <1>3, ZncLineFacts DEF ZncLines, Lines

LEMMA AnswerFacts ==
  ASSUME Base, NEW cmd, NEW lines, Answers(cmd, lines)
  PROVE  /\ toServer # <<>> /\ toServer' = Tail(toServer) /\ toServer' \in Seq(ServerLines)
         /\ toZnc' = toZnc \o lines
         /\ Head(toServer) \in ServerLines /\ Head(toServer) \in Lines /\ Head(toServer).cmd = cmd
         /\ cmd = "LS" <=> stage = "new"
         /\ cmd = "LS" => toServer' = <<>> /\ toZnc = <<>>
         /\ ~Any(toServer', Of({"LS"}))
         /\ cmd = "REQ" => Head(toServer).caps \subseteq Wanted /\ Head(toServer).caps # {}
<1>1. /\ toServer # <<>> /\ toServer' = Tail(toServer) /\ toZnc' = toZnc \o lines
      /\ Head(toServer).cmd = cmd
  BY DEF Answers
<1>2. Head(toServer) \in ServerLines /\ Tail(toServer) \in Seq(ServerLines)
  BY <1>1, TailDomain DEF Base
<1>3. Head(toServer) \in Lines  BY <1>2, ServerLineFacts
<1>4. CASE stage = "new"
  <2>1. toServer = <<Line("LS", {})>> /\ toZnc = <<>>  BY <1>4 DEF Base, StartOnly
  <2>2. cmd = "LS" /\ Tail(toServer) = <<>>  BY <2>1, <1>1, LineFacts
  <2> QED  BY <1>1, <1>2, <1>3, <1>4, <2>1, <2>2, EmptyLine
<1>5. CASE stage # "new"
  <2>1. ~Any(toServer, Of({"LS"})) /\ toServer \in Seq(ServerLines)  BY <1>5 DEF Base, StartOnly
  <2>2. Head(toServer) \notin Of({"LS"}) /\ ~Any(Tail(toServer), Of({"LS"}))
    BY <2>1, <1>1, AnyTail
  <2>3. cmd # "LS"  BY <2>2, <1>1, <1>3 DEF Of
  <2> QED  BY <1>1, <1>2, <1>3, <1>5, <2>2, <2>3, ServerLineFacts
<1> QED  BY <1>4, <1>5

LEMMA ZncBase ==
  ASSUME Base, stage # "new", toServer' \in Seq(ServerLines), toZnc' \in Seq(ZncLines),
         Any(toServer', Of({"LS"})) => Any(toServer, Of({"LS"})),
         pending' \subseteq Wanted, phase2' \subseteq Wanted, accepted' \subseteq Wanted,
         paused' \in 0..UIntMod - 1, authed' \in BOOLEAN, closing' \in BOOLEAN,
         mech' \in 0..NumMechs, authenticated' \in BOOLEAN,
         UNCHANGED <<serverVars, conns, requireAuth>>
  PROVE  Base'
<1>1. Scalars'  BY DEF Base, Scalars, serverVars
<1>2. StartOnly'  BY DEF Base, StartOnly, serverVars
<1> QED  BY <1>1, <1>2 DEF Base

LEMMA OnAvailableBase ==
  ASSUME Base, NEW cmd \in {"LS", "LS*", "NEW"}, OnAvailable(cmd)
  PROVE  Base'
<1> DEFINE new == Requestable(Head(toZnc).caps)
<1>1. Receives(cmd)  BY DEF OnAvailable
<1>2. stage # "new" /\ toZnc' \in Seq(ZncLines)  BY <1>1, ReceiveFacts
<1>3. new \subseteq Wanted /\ pending \cup new \in SUBSET Wanted /\ phase2 \in SUBSET Wanted
  BY DEF Requestable, Base, Scalars
<1>4. /\ toServer' \in Seq(ServerLines) /\ pending' \subseteq Wanted /\ phase2' \subseteq Wanted
      /\ Any(toServer', Of({"LS"})) => Any(toServer, Of({"LS"}))
  <2>1. CASE cmd = "LS*"  BY <1>3, <2>1 DEF OnAvailable, Base
  <2>2. CASE cmd # "LS*"
    <3>1. SendNextCap(pending \cup new, phase2, paused, toServer)  BY <2>2 DEF OnAvailable
    <3> HIDE DEF new
    <3> QED  BY <1>3, <3>1, SendType DEF Base
  <2> QED  BY <2>1, <2>2
<1> QED  BY <1>2, <1>4, ZncBase DEF OnAvailable, Base, Scalars, saslVars

\* The counter m_uCapPaused stays within its width.
LEMMA PausedType ==
  ASSUME Base
  PROVE  (paused + 1) % UIntMod \in 0..UIntMod - 1 /\ (paused - 1) % UIntMod \in 0..UIntMod - 1
<1>1. paused + 1 \in Int /\ paused - 1 \in Int /\ UIntMod \in Nat /\ UIntMod > 0
  BY CountsAssumption DEF Base, Scalars
<1> QED  BY <1>1

LEMMA AckResultType ==
  ASSUME Base, NEW S
  PROVE  /\ AckResult(S).paused \in 0..UIntMod - 1 /\ AckResult(S).mech \in 0..NumMechs
         /\ AckResult(S).out \in Seq(ServerLines)
         /\ Any(AckResult(S).out, Of({"LS"})) <=> Any(toServer, Of({"LS"}))
<1>0. toServer \in Seq(ServerLines) /\ 1 \in 0..NumMechs /\ mech \in 0..NumMechs /\ paused \in 0..UIntMod - 1
  BY CountsAssumption DEF Base, Scalars
<1>1. Line("MECH", {}) \in ServerLines /\ Line("MECH", {}) \notin Of({"LS"})
  BY ServerLineFacts, LineFacts DEF Of
<1>2. /\ Append(toServer, Line("MECH", {})) \in Seq(ServerLines)
      /\ Any(Append(toServer, Line("MECH", {})), Of({"LS"})) <=> Any(toServer, Of({"LS"}))
  BY <1>0, <1>1, AppendDomain, AnyAppend
<1> QED  BY <1>0, <1>2, PausedType DEF AckResult

LEMMA OnAckBase == ASSUME Base, OnAck PROVE Base'
<1> DEFINE S == Head(toZnc).caps
           after == AckResult(S)
<1>1. Receives("ACK")  BY DEF OnAck
<1>2. stage # "new" /\ toZnc' \in Seq(ZncLines) /\ S \subseteq Wanted  BY <1>1, ReceiveFacts
<1>3. /\ accepted' = accepted \cup S /\ paused' = after.paused /\ mech' = after.mech
      /\ SendNextCap(pending, phase2, after.paused, after.out)
      /\ UNCHANGED <<authed, closing, authenticated, serverVars, conns, requireAuth>>
  BY DEF OnAck
<1>4. /\ after.paused \in 0..UIntMod - 1 /\ after.mech \in 0..NumMechs /\ after.out \in Seq(ServerLines)
      /\ Any(after.out, Of({"LS"})) <=> Any(toServer, Of({"LS"}))
  BY AckResultType
<1> HIDE DEF S, after
<1>5. pending \in SUBSET Wanted /\ phase2 \in SUBSET Wanted  BY DEF Base, Scalars
<1>6. /\ toServer' \in Seq(ServerLines) /\ pending' \subseteq Wanted /\ phase2' \subseteq Wanted
      /\ Any(toServer', Of({"LS"})) => Any(toServer, Of({"LS"}))
  BY <1>3, <1>4, <1>5, SendType
<1> QED  BY <1>2, <1>3, <1>4, <1>6, ZncBase DEF Base, Scalars

LEMMA CheckedType == ASSUME Base, NEW x \in BOOLEAN PROVE Checked(x) \in BOOLEAN
  BY DEF Checked

LEMMA RemoveCapsBase ==
  ASSUME Base, NEW cmd, Receives(cmd), NEW S, RemoveCaps(S)
  PROVE  Base'
<1>1. stage # "new" /\ toZnc' \in Seq(ZncLines)  BY ReceiveFacts
<1>2. pending \ S \in SUBSET Wanted /\ phase2 \in SUBSET Wanted  BY DEF Base, Scalars
<1>3. /\ toServer' \in Seq(ServerLines) /\ pending' \subseteq Wanted /\ phase2' \subseteq Wanted
      /\ Any(toServer', Of({"LS"})) => Any(toServer, Of({"LS"}))
  BY <1>2, SendType DEF RemoveCaps, Base
<1>4. closing' \in BOOLEAN  BY CheckedType DEF RemoveCaps, Base, Scalars
<1> QED  BY <1>1, <1>3, <1>4, ZncBase DEF RemoveCaps, Base, Scalars, saslVars

LEMMA OnNakBase == ASSUME Base, OnNak PROVE Base'
<1> DEFINE S == Head(toZnc).caps
<1>1. Receives("NAK")  BY DEF OnNak
<1>2. stage # "new" /\ toZnc' \in Seq(ZncLines) /\ S \subseteq Wanted  BY <1>1, ReceiveFacts
<1>3. CASE RemoveCaps(S)  BY <1>1, <1>3, RemoveCapsBase
<1>4. CASE /\ SendNextCap(pending, phase2 \cup S, paused, toServer)
           /\ UNCHANGED <<accepted, paused, authed, closing, saslVars, serverVars, conns, requireAuth>>
  <2>1. pending \in SUBSET Wanted /\ phase2 \cup S \in SUBSET Wanted  BY <1>2 DEF Base, Scalars
  <2> HIDE DEF S
  <2>2. /\ toServer' \in Seq(ServerLines) /\ pending' \subseteq Wanted /\ phase2' \subseteq Wanted
        /\ Any(toServer', Of({"LS"})) => Any(toServer, Of({"LS"}))
    BY <1>4, <2>1, SendType DEF Base
  <2> QED  BY <1>2, <1>4, <2>2, ZncBase DEF Base, Scalars, saslVars
<1> QED  BY <1>3, <1>4 DEF OnNak

LEMMA OnAuthenticateBase == ASSUME Base, OnAuthenticate PROVE Base'
<1>1. stage # "new" /\ toZnc' \in Seq(ZncLines)  BY ReceiveFacts DEF OnAuthenticate
<1>2. Line("DATA", {}) \in ServerLines /\ Line("DATA", {}) \notin Of({"LS"})
  BY ServerLineFacts, LineFacts DEF Of
<1>3. toServer' \in Seq(ServerLines) /\ (Any(toServer', Of({"LS"})) => Any(toServer, Of({"LS"})))
  BY <1>2, AppendDomain, AnyAppend DEF OnAuthenticate, Base
<1> QED  BY <1>1, <1>3, ZncBase DEF OnAuthenticate, Base, Scalars, zncVars, capVars, saslVars

LEMMA ResumeType ==
  ASSUME Base, ResumeCap
  PROVE  /\ toServer' \in Seq(ServerLines) /\ pending' \subseteq Wanted /\ phase2' \subseteq Wanted
         /\ Any(toServer', Of({"LS"})) => Any(toServer, Of({"LS"}))
         /\ paused' \in 0..UIntMod - 1
  BY PausedType, SendType DEF ResumeCap, Base, Scalars

LEMMA OnSaslSuccessBase == ASSUME Base, NEW cmd, OnSaslSuccess(cmd) PROVE Base'
<1>1. stage # "new" /\ toZnc' \in Seq(ZncLines)  BY ReceiveFacts DEF OnSaslSuccess
<1>2. CASE mech = 0
  BY <1>1, <1>2, ZncBase DEF OnSaslSuccess, Base, Scalars
<1>3. CASE mech # 0
  BY <1>1, <1>3, ResumeType, ZncBase DEF OnSaslSuccess, Base, Scalars
<1> QED  BY <1>2, <1>3

LEMMA OnSaslFailureBase == ASSUME Base, OnSaslFailure PROVE Base'
<1>1. stage # "new" /\ toZnc' \in Seq(ZncLines)  BY ReceiveFacts DEF OnSaslFailure
<1>2. CASE mech = 0
  BY <1>1, <1>2, ZncBase DEF OnSaslFailure, Base, Scalars
<1>3. CASE mech # 0 /\ mech < NumMechs
  <2>1. mech' \in 0..NumMechs  BY <1>3, CountsAssumption DEF OnSaslFailure, Base, Scalars
  <2>2. Line("MECH", {}) \in ServerLines /\ Line("MECH", {}) \notin Of({"LS"})
    BY ServerLineFacts, LineFacts DEF Of
  <2>3. toServer' = Append(toServer, Line("MECH", {})) /\ toServer \in Seq(ServerLines)
    BY <1>3 DEF OnSaslFailure, Base
  <2>4. toServer' \in Seq(ServerLines) /\ (Any(toServer', Of({"LS"})) => Any(toServer, Of({"LS"})))
    BY <2>2, <2>3, AppendDomain, AnyAppend
  <2> QED  BY <1>1, <1>3, <2>1, <2>4, ZncBase DEF OnSaslFailure, Base, Scalars
<1>4. CASE mech # 0 /\ ~(mech < NumMechs)
  <2>1. closing' \in BOOLEAN  BY <1>4, CheckedType DEF OnSaslFailure, Base, Scalars
  <2> QED  BY <1>1, <1>4, <2>1, ResumeType, ZncBase DEF OnSaslFailure, Base, Scalars
<1> QED  BY <1>2, <1>3, <1>4

LEMMA OnSaslAbortedBase == ASSUME Base, OnSaslAborted PROVE Base'
<1>1. stage # "new" /\ toZnc' \in Seq(ZncLines)  BY ReceiveFacts DEF OnSaslAborted
<1>2. closing' \in BOOLEAN  BY CheckedType DEF OnSaslAborted, Base, Scalars
<1> QED  BY <1>1, <1>2, ZncBase DEF OnSaslAborted, Base, Scalars, capVars, saslVars

LEMMA OnWelcomeBase == ASSUME Base, OnWelcome PROVE Base'
<1>1. stage # "new" /\ toZnc' \in Seq(ZncLines)  BY ReceiveFacts DEF OnWelcome
<1>2. closing' \in BOOLEAN  BY CheckedType DEF OnWelcome, Base, Scalars
<1> QED  BY <1>1, <1>2, ZncBase DEF OnWelcome, Base, Scalars, capVars, saslVars
-----------------------------------------------------------------------------
(* What the server's actions send, one line after the other *)

LEMMA SendOne ==
  ASSUME Base, NEW x \in ZncLines
  PROVE  toZnc \o <<x>> = Append(toZnc, x) /\ Append(toZnc, x) \in Seq(ZncLines)
  BY AppendIsConcat, AppendProperties DEF Base

LEMMA SendTwo ==
  ASSUME Base, NEW x \in ZncLines, NEW y \in ZncLines
  PROVE  /\ toZnc \o <<x, y>> = Append(Append(toZnc, x), y)
         /\ Append(toZnc, x) \in Seq(ZncLines) /\ Append(Append(toZnc, x), y) \in Seq(ZncLines)
<1>1. Append(toZnc, x) \in Seq(ZncLines)  BY AppendProperties DEF Base
<1>2. Append(Append(toZnc, x), y) \in Seq(ZncLines)  BY <1>1, AppendProperties
<1> QED  BY <1>1, <1>2, ConcatTwo DEF Base

\* CAP LS: the list in one line or in two.
LsSent(S) == \/ S = offers /\ toZnc' = Append(toZnc, Line("LS", S))
             \/ toZnc' = Append(Append(toZnc, Line("LS*", S)), Line("LS", offers \ S))

LEMMA LsStep ==
  ASSUME Base, ServerLs
  PROVE  /\ stage = "new" /\ stage' = "negotiating" /\ toZnc = <<>> /\ toServer' = <<>>
         /\ toZnc' \in Seq(ZncLines) /\ \E S \in SUBSET offers : LsSent(S)
         /\ UNCHANGED <<zncVars, offers, enabled, exchange, loggedIn, saslStable, changes, conns, requireAuth>>
<1>1. PICK S \in SUBSET offers :
        Answers("LS", IF S = offers THEN <<Line("LS", S)>> ELSE <<Line("LS*", S), Line("LS", offers \ S)>>)
  BY DEF ServerLs
<1>2. Line("LS", S) \in ZncLines /\ Line("LS*", S) \in ZncLines /\ Line("LS", offers \ S) \in ZncLines
  BY <1>1, ZncLineFacts DEF Base, Scalars
<1>3. stage = "new" /\ toZnc = <<>> /\ toServer' = <<>>
  BY <1>1, AnswerFacts
<1>4. CASE S = offers
  <2>1. toZnc' = toZnc \o <<Line("LS", S)>>  BY <1>1, <1>4 DEF Answers
  <2>2. toZnc' = Append(toZnc, Line("LS", S)) /\ toZnc' \in Seq(ZncLines)  BY <2>1, <1>2, SendOne
  <2> QED  BY <1>1, <1>3, <1>4, <2>2 DEF ServerLs, LsSent
<1>5. CASE S # offers
  <2>1. toZnc' = toZnc \o <<Line("LS*", S), Line("LS", offers \ S)>>  BY <1>1, <1>5 DEF Answers
  <2>2. /\ toZnc' = Append(Append(toZnc, Line("LS*", S)), Line("LS", offers \ S))
        /\ toZnc' \in Seq(ZncLines)
    BY <2>1, <1>2, SendTwo
  <2> QED  BY <1>1, <1>3, <2>2 DEF ServerLs, LsSent
<1> QED  BY <1>4, <1>5

LEMMA WithoutCapStep ==
  ASSUME Base, ServerWithoutCap
  PROVE  /\ stage = "new" /\ stage' = "registered" /\ toZnc = <<>> /\ toServer' = <<>>
         /\ toZnc' \in Seq(ZncLines) /\ toZnc' = Append(toZnc, Line("001", {}))
         /\ offers' = {} /\ changes' = MaxChanges
         /\ UNCHANGED <<zncVars, enabled, exchange, loggedIn, saslStable, conns, requireAuth>>
<1>1. Answers("LS", <<Line("001", {})>>)  BY DEF ServerWithoutCap
<1>2. stage = "new" /\ toZnc = <<>> /\ toServer' = <<>> /\ toZnc' = toZnc \o <<Line("001", {})>>
  BY <1>1, AnswerFacts
<1>3. Line("001", {}) \in ZncLines  BY ZncLineFacts
<1> QED  BY <1>2, <1>3, SendOne DEF ServerWithoutCap

\* CAP REQ: the answer to the request for S.
ReqAnswer(S) == Line(IF S \subseteq offers THEN "ACK" ELSE "NAK", S)

LEMMA ReqStep ==
  ASSUME Base, ServerReq
  PROVE  LET S == Head(toServer).caps IN
         /\ stage # "new" /\ S \subseteq Wanted /\ S # {}
         /\ Head(toServer).cmd = "REQ" /\ Head(toServer) \in Lines
         /\ ReqAnswer(S) \in ZncLines
         /\ toZnc' \in Seq(ZncLines) /\ toZnc' = Append(toZnc, ReqAnswer(S))
         /\ enabled' = IF S \subseteq offers THEN enabled \cup S ELSE enabled
         /\ UNCHANGED <<zncVars, offers, stage, exchange, loggedIn, saslStable, changes, conns, requireAuth>>
<1> DEFINE S == Head(toServer).caps
<1>1. /\ Answers("REQ", <<ReqAnswer(S)>>)
      /\ enabled' = IF S \subseteq offers THEN enabled \cup S ELSE enabled
      /\ UNCHANGED <<zncVars, offers, stage, exchange, loggedIn, saslStable, changes, conns, requireAuth>>
  BY DEF ServerReq, ReqAnswer
<1>2. /\ stage # "new" /\ S \subseteq Wanted /\ S # {} /\ Head(toServer).cmd = "REQ"
      /\ Head(toServer) \in Lines /\ toZnc' = toZnc \o <<ReqAnswer(S)>>
  <2> DEFINE lines == <<ReqAnswer(S)>>
  <2>1. Answers("REQ", lines)  BY <1>1
  <2> HIDE DEF lines
  <2>2. /\ stage # "new" /\ S \subseteq Wanted /\ S # {} /\ Head(toServer).cmd = "REQ"
        /\ Head(toServer) \in Lines /\ toZnc' = toZnc \o lines
    BY <2>1, AnswerFacts
  <2> QED  BY <2>2 DEF lines
<1> HIDE DEF S
<1>3. ReqAnswer(S) \in ZncLines  BY <1>2, ZncLineFacts DEF ReqAnswer
<1>4. toZnc' \in Seq(ZncLines) /\ toZnc' = Append(toZnc, ReqAnswer(S))  BY <1>2, <1>3, SendOne
<1> QED  BY <1>1, <1>2, <1>3, <1>4 DEF S

LEMMA EndStep ==
  ASSUME Base, ServerEnd
  PROVE  /\ stage # "new" /\ stage' = "registered" /\ exchange' \in BOOLEAN
         /\ Head(toServer).cmd = "END" /\ Head(toServer) \in Lines
         /\ toZnc' \in Seq(ZncLines)
         /\ \/ toZnc' = toZnc
            \/ toZnc' = Append(toZnc, Line("001", {}))
            \/ toZnc' = Append(Append(toZnc, Line("906", {})), Line("001", {}))
         /\ UNCHANGED <<zncVars, offers, enabled, loggedIn, saslStable, changes, conns, requireAuth>>
<1> DEFINE lines == IF stage = "registered" THEN <<>>
                    ELSE IF exchange THEN <<Line("906", {}), Line("001", {})>>
                    ELSE <<Line("001", {})>>
<1>1. Answers("END", lines)  BY DEF ServerEnd
<1>2. /\ stage # "new" /\ Head(toServer).cmd = "END" /\ Head(toServer) \in Lines
      /\ toZnc' = toZnc \o lines
  <2> HIDE DEF lines
  <2> QED  BY <1>1, AnswerFacts
<1>3. Line("906", {}) \in ZncLines /\ Line("001", {}) \in ZncLines  BY ZncLineFacts
<1>4. CASE lines = <<>>  BY <1>2, <1>4, ConcatEmptySeq DEF ServerEnd, Base
<1>5. CASE lines = <<Line("001", {})>>  BY <1>2, <1>3, <1>5, SendOne DEF ServerEnd
<1>6. CASE lines = <<Line("906", {}), Line("001", {})>>
  BY <1>2, <1>3, <1>6, SendTwo DEF ServerEnd
<1> QED  BY <1>4, <1>5, <1>6

LEMMA AuthenticateStep ==
  ASSUME Base, NEW cmd \in {"MECH", "DATA"}, ServerAuthenticate(cmd)
  PROVE  /\ stage # "new" /\ Head(toServer).cmd = cmd /\ Head(toServer) \in Lines
         /\ toZnc' \in Seq(ZncLines)
         /\ \E r \in {"AUTHENTICATE", "903", "904", "907"} :
              /\ toZnc' = Append(toZnc, Line(r, {}))
              /\ r \in {"903", "907"} => loggedIn'
         /\ exchange' \in BOOLEAN /\ loggedIn' \in BOOLEAN /\ (loggedIn => loggedIn')
         /\ UNCHANGED <<zncVars, offers, enabled, stage, saslStable, changes, conns, requireAuth>>
<1>1. PICK r \in {"AUTHENTICATE", "903", "904", "907"} :
        /\ Answers(cmd, <<Line(r, {})>>) /\ (r \in {"903", "907"} => loggedIn')
        /\ exchange' \in BOOLEAN /\ loggedIn' \in BOOLEAN /\ (loggedIn => loggedIn')
  BY DEF ServerAuthenticate, Success, Failure, Base, Scalars
<1>2. Line(r, {}) \in ZncLines  BY <1>1, ZncLineFacts
<1>3. /\ stage # "new" /\ Head(toServer).cmd = cmd /\ Head(toServer) \in Lines
      /\ toZnc' = toZnc \o <<Line(r, {})>>
  BY <1>1, AnswerFacts
<1>4. toZnc' = Append(toZnc, Line(r, {})) /\ toZnc' \in Seq(ZncLines)  BY <1>2, <1>3, SendOne
<1> QED  BY <1>1, <1>3, <1>4 DEF ServerAuthenticate

LEMMA NewStep ==
  ASSUME Base, NEW c \in Caps, ServerNew(c)
  PROVE  /\ Line("NEW", {c}) \in ZncLines
         /\ toZnc' \in Seq(ZncLines) /\ toZnc' = Append(toZnc, Line("NEW", {c}))
<1>1. Line("NEW", {c}) \in ZncLines  BY ZncLineFacts
<1> QED  BY <1>1, SendOne DEF ServerNew

LEMMA DelStep ==
  ASSUME Base, NEW c \in Caps, ServerDel(c)
  PROVE  /\ Line("DEL", {c}) \in ZncLines /\ Line("904", {}) \in ZncLines
         /\ toZnc' \in Seq(ZncLines) /\ exchange' \in BOOLEAN
         /\ \/ toZnc' = Append(toZnc, Line("DEL", {c}))
            \/ c = Sasl /\ toZnc' = Append(Append(toZnc, Line("904", {})), Line("DEL", {c}))
<1>1. Line("DEL", {c}) \in ZncLines /\ Line("904", {}) \in ZncLines  BY ZncLineFacts
<1>2. CASE c = Sasl /\ exchange
  <2>1. toZnc' = toZnc \o <<Line("904", {}), Line("DEL", {c})>>  BY <1>2 DEF ServerDel
  <2> QED  BY <1>1, <1>2, <2>1, SendTwo DEF ServerDel, Base, Scalars
<1>3. CASE ~(c = Sasl /\ exchange)
  <2>1. toZnc' = toZnc \o <<Line("DEL", {c})>>  BY <1>3 DEF ServerDel
  <2> QED  BY <1>1, <2>1, SendOne DEF ServerDel, Base, Scalars
<1> QED  BY <1>2, <1>3

\* A step of the server takes a line other than the first, or none, and sends some.
LEMMA ServerBase ==
  ASSUME Base, toServer' \in Seq(ServerLines), toZnc' \in Seq(ZncLines),
         ~Any(toServer', Of({"LS"})), stage' \in {"negotiating", "registered"},
         offers' \subseteq Caps, enabled' \subseteq Wanted, enabled' \subseteq offers',
         exchange' \in BOOLEAN, loggedIn' \in BOOLEAN, saslStable' \in BOOLEAN,
         changes' \in 0..MaxChanges, UNCHANGED <<zncVars, conns, requireAuth>>
  PROVE  Base'
<1>1. Scalars'  BY DEF Base, Scalars, zncVars, capVars, saslVars
<1>2. StartOnly'  BY DEF StartOnly
<1> QED  BY <1>1, <1>2 DEF Base

LEMMA ServerReplyBase == ASSUME Base, ServerReply PROVE Base'
<1>0. ASSUME NEW cmd, NEW lines, Answers(cmd, lines)
      PROVE  toServer' \in Seq(ServerLines) /\ ~Any(toServer', Of({"LS"}))
  BY <1>0, AnswerFacts
<1>1. CASE ServerLs
  <2>1. toServer' \in Seq(ServerLines) /\ ~Any(toServer', Of({"LS"}))  BY <1>0, <1>1 DEF ServerLs
  <2> QED  BY <1>1, <2>1, LsStep, ServerBase DEF Base, Scalars
<1>2. CASE ServerWithoutCap
  <2>1. toServer' \in Seq(ServerLines) /\ ~Any(toServer', Of({"LS"}))
    BY <1>0, <1>2 DEF ServerWithoutCap
  <2>2. MaxChanges \in 0..MaxChanges  BY CountsAssumption
  <2>3. enabled = {}  BY <1>2, WithoutCapStep DEF Base, StartOnly
  <2> QED  BY <1>2, <2>1, <2>2, <2>3, WithoutCapStep, ServerBase DEF Base, Scalars
<1>3. CASE ServerReq
  <2>1. toServer' \in Seq(ServerLines) /\ ~Any(toServer', Of({"LS"}))  BY <1>0, <1>3 DEF ServerReq
  <2> QED  BY <1>3, <2>1, ReqStep, ServerBase DEF Base, Scalars
<1>4. CASE ServerEnd
  <2>1. toServer' \in Seq(ServerLines) /\ ~Any(toServer', Of({"LS"}))  BY <1>0, <1>4 DEF ServerEnd
  <2> QED  BY <1>4, <2>1, EndStep, ServerBase DEF Base, Scalars
<1>5. ASSUME NEW cmd \in {"MECH", "DATA"}, ServerAuthenticate(cmd) PROVE Base'
  <2>1. toServer' \in Seq(ServerLines) /\ ~Any(toServer', Of({"LS"}))
    BY <1>0, <1>5 DEF ServerAuthenticate
  <2> QED  BY <1>5, <2>1, AuthenticateStep, ServerBase DEF Base, Scalars
<1> QED  BY <1>1, <1>2, <1>3, <1>4, <1>5 DEF ServerReply

LEMMA ServerChangeBase ==
  ASSUME Base, NEW c \in Caps, ServerNew(c) \/ ServerDel(c)
  PROVE  Base'
<1>0. changes + 1 \in 0..MaxChanges \/ ~(changes < MaxChanges)
  BY CountsAssumption DEF Base, Scalars
<1>1. ~Any(toServer, Of({"LS"})) /\ stage \in {"negotiating", "registered"}
  BY DEF ServerNew, ServerDel, Base, Scalars, StartOnly
<1>2. CASE ServerNew(c)
  BY <1>0, <1>1, <1>2, NewStep, ServerBase DEF ServerNew, Base, Scalars
<1>3. CASE ServerDel(c)
  BY <1>0, <1>1, <1>3, DelStep, ServerBase DEF ServerDel, Base, Scalars
<1> QED  BY <1>2, <1>3

LEMMA ReconnectBase == ASSUME Base, Reconnect PROVE Base'
<1>1. <<Line("LS", {})>> \in Seq(ServerLines) /\ <<>> \in Seq(ZncLines)
  BY ServerLineFacts
<1>2. 0 \in 0..UIntMod - 1 /\ 0 \in 0..MaxChanges /\ conns' \in 0..MaxConns
  BY CountsAssumption DEF Reconnect, Base, Scalars
<1>3. PICK S \in SUBSET Caps : NewServer(S)  BY DEF Reconnect
<1>4. Scalars'
  BY <1>2, <1>3 DEF Reconnect, NewServer, AuthenticatedReset, Base, Scalars
<1>5. StartOnly'  BY <1>3 DEF Reconnect, NewServer, StartOnly
<1> QED  BY <1>1, <1>4, <1>5 DEF Reconnect, Base

LEMMA StutterBase == ASSUME Base, UNCHANGED vars PROVE Base'
  BY DEF Base, Scalars, StartOnly, vars, zncVars, capVars, saslVars, serverVars

LEMMA NextBase == ASSUME Base, [Next]_vars PROVE Base'
<1>1. CASE ZncStep
  <2>1. CASE OnDel  BY <2>1, RemoveCapsBase DEF OnDel
  <2> QED
    BY <1>1, <2>1, OnAvailableBase, OnAckBase, OnNakBase, OnAuthenticateBase, OnSaslSuccessBase,
       OnSaslFailureBase, OnSaslAbortedBase, OnWelcomeBase DEF ZncStep
<1>2. CASE \E c \in Caps : ServerNew(c) \/ ServerDel(c)  BY <1>2, ServerChangeBase
<1> QED  BY <1>1, <1>2, ServerReplyBase, ReconnectBase, StutterBase DEF Next

\* Whatever the server offers, refuses and withdraws, the lists, the counter of
\* pauses and the lines under way keep their types (CIRCSock, CSASLMod).
THEOREM CapTypeCorrect == Spec => []TypeOK
<1>1. Init => Base  BY InitBase
<1>2. Base /\ [Next]_vars => Base'  BY NextBase
<1> QED  BY <1>1, <1>2, BaseType, PTL DEF Spec
-----------------------------------------------------------------------------
(* Lines received, read and sent *)

LEMMA Received ==
  ASSUME Base, NEW cmd, Receives(cmd), NEW M, NEW N
  PROVE  /\ Any(toZnc, M) <=> Head(toZnc) \in M \/ Any(toZnc', M)
         /\ Once(toZnc, M) => Once(toZnc', M) /\ (Head(toZnc) \in M => ~Any(toZnc', M))
         /\ Followed(toZnc, M, N) => Followed(toZnc', M, N) /\ (Head(toZnc) \in M => Any(toZnc', N))
<1>1. toZnc \in Seq(ZncLines) /\ toZnc # <<>> /\ toZnc' = Tail(toZnc)  BY ReceiveFacts DEF Base
<1> QED  BY <1>1, AnyTail, OnceTail, FollowedTail

LEMMA Read ==
  ASSUME Base, NEW cmd, NEW lines, Answers(cmd, lines), NEW M
  PROVE  /\ Any(toServer, M) <=> Head(toServer) \in M \/ Any(toServer', M)
         /\ Once(toServer, M) => Once(toServer', M) /\ (Head(toServer) \in M => ~Any(toServer', M))
<1>1. toServer \in Seq(ServerLines) /\ toServer # <<>> /\ toServer' = Tail(toServer)
  BY AnswerFacts DEF Base
<1> QED  BY <1>1, AnyTail, OnceTail

LEMMA Kinds ==
  ASSUME NEW m \in Lines, NEW cmds, NEW c
  PROVE  (m \in Of(cmds) <=> m.cmd \in cmds) /\ (m \in Naming(cmds, c) <=> m.cmd \in cmds /\ c \in m.caps)
  BY DEF Of, Naming

\* r is q with at most two lines more, lines of X.
Longer(q, r, X) == \/ r = q
                   \/ \E x \in X : r = Append(q, x)
                   \/ \E x, y \in X : r = Append(Append(q, x), y)

LEMMA LongerNeutral ==
  ASSUME NEW q \in Seq(ZncLines), NEW X \in SUBSET ZncLines, NEW r, Longer(q, r, X),
         NEW M, \A x \in X : x \notin M
  PROVE  /\ Any(r, M) <=> Any(q, M)
         /\ Once(q, M) => Once(r, M)
         /\ \A N : Followed(q, M, N) => Followed(r, M, N)
<1>1. ASSUME NEW s \in Seq(ZncLines), NEW x \in X
      PROVE  /\ Append(s, x) \in Seq(ZncLines) /\ (Any(Append(s, x), M) <=> Any(s, M))
             /\ Once(s, M) => Once(Append(s, x), M)
             /\ \A N : Followed(s, M, N) => Followed(Append(s, x), M, N)
  BY AppendDomain, AnyAppend, OnceAppend, FollowedAppend
<1>2. CASE r = q  BY <1>2
<1>3. ASSUME NEW x \in X, r = Append(q, x)
      PROVE  /\ Any(r, M) <=> Any(q, M)
             /\ Once(q, M) => Once(r, M)
             /\ \A N : Followed(q, M, N) => Followed(r, M, N)
  BY <1>1, <1>3
<1>4. ASSUME NEW x \in X, NEW y \in X, r = Append(Append(q, x), y)
      PROVE  /\ Any(r, M) <=> Any(q, M)
             /\ Once(q, M) => Once(r, M)
             /\ \A N : Followed(q, M, N) => Followed(r, M, N)
  <2> DEFINE s == Append(q, x)
  <2>1. /\ s \in Seq(ZncLines) /\ (Any(s, M) <=> Any(q, M)) /\ (Once(q, M) => Once(s, M))
        /\ \A N : Followed(q, M, N) => Followed(s, M, N)
    BY <1>1
  <2>2. r = Append(s, y)  BY <1>4
  <2> HIDE DEF s
  <2> QED  BY <1>1, <2>1, <2>2
<1> QED  BY <1>2, <1>3, <1>4 DEF Longer

LEMMA LongerAny ==
  ASSUME NEW q \in Seq(ZncLines), NEW X \in SUBSET ZncLines, NEW r, Longer(q, r, X), NEW M
  PROVE  Any(q, M) => Any(r, M)
<1>1. ASSUME NEW s \in Seq(ZncLines), NEW x \in X
      PROVE  Append(s, x) \in Seq(ZncLines) /\ (Any(s, M) => Any(Append(s, x), M))
  BY AppendDomain, AnyAppend
<1>2. ASSUME NEW x \in X, NEW y \in X, r = Append(Append(q, x), y)
      PROVE  Any(q, M) => Any(r, M)
  <2> DEFINE s == Append(q, x)
  <2>1. s \in Seq(ZncLines) /\ (Any(q, M) => Any(s, M))  BY <1>1
  <2>2. r = Append(s, y)  BY <1>2
  <2> HIDE DEF s
  <2> QED  BY <1>1, <2>1, <2>2
<1> QED  BY <1>1, <1>2 DEF Longer

\* The lines with a command of cmds that ZNC may get.
Sent(cmds) == Of(cmds) \cap ZncLines

LEMMA SentFacts ==
  ASSUME NEW cmds
  PROVE  /\ Sent(cmds) \in SUBSET ZncLines
         /\ \A x \in Sent(cmds) : x \in Lines /\ x.cmd \in cmds
         /\ \A S : \A cmd \in cmds : Line(cmd, S) \in ZncLines => Line(cmd, S) \in Sent(cmds)
<1>1. ASSUME NEW cmd \in cmds, NEW S, Line(cmd, S) \in ZncLines PROVE Line(cmd, S) \in Sent(cmds)
  BY <1>1, LineFacts DEF Sent, Of, ZncLines
<1> QED  BY <1>1 DEF Sent, Of

\* What each action of the server sends.
LEMMA ServerSends ==
  ASSUME Base
  PROVE  /\ ServerLs => Longer(toZnc, toZnc', Sent({"LS", "LS*"}))
         /\ ServerWithoutCap => Longer(toZnc, toZnc', Sent({"001"}))
         /\ ServerReq => Longer(toZnc, toZnc', Sent({"ACK", "NAK"}))
         /\ ServerEnd => Longer(toZnc, toZnc', Sent({"906", "001"}))
         /\ \A cmd \in {"MECH", "DATA"} : ServerAuthenticate(cmd) =>
              Longer(toZnc, toZnc', Sent({"AUTHENTICATE", "903", "904", "907"}))
         /\ \A c \in Caps : ServerNew(c) => Longer(toZnc, toZnc', Sent({"NEW"}))
         /\ \A c \in Caps : ServerDel(c) => Longer(toZnc, toZnc', Sent({"904", "DEL"}))
<1>1. ASSUME ServerLs PROVE Longer(toZnc, toZnc', Sent({"LS", "LS*"}))
  <2>1. PICK S \in SUBSET offers : LsSent(S)  BY <1>1, LsStep
  <2>2. Line("LS", S) \in ZncLines /\ Line("LS*", S) \in ZncLines /\ Line("LS", offers \ S) \in ZncLines
    BY <2>1, ZncLineFacts DEF Base, Scalars
  <2>3. /\ Line("LS", S) \in Sent({"LS", "LS*"}) /\ Line("LS*", S) \in Sent({"LS", "LS*"})
        /\ Line("LS", offers \ S) \in Sent({"LS", "LS*"})
    BY <2>2, SentFacts
  <2> QED  BY <2>1, <2>3 DEF LsSent, Longer
<1>2. ASSUME ServerWithoutCap PROVE Longer(toZnc, toZnc', Sent({"001"}))
  <2>1. Line("001", {}) \in Sent({"001"})  BY ZncLineFacts, SentFacts
  <2> QED  BY <1>2, <2>1, WithoutCapStep DEF Longer
<1>3. ASSUME ServerReq PROVE Longer(toZnc, toZnc', Sent({"ACK", "NAK"}))
  <2> DEFINE S == Head(toServer).caps
  <2>1. ReqAnswer(S) \in ZncLines /\ toZnc' = Append(toZnc, ReqAnswer(S))  BY <1>3, ReqStep
  <2> HIDE DEF S
  <2>2. ReqAnswer(S) \in Sent({"ACK", "NAK"})  BY <2>1, SentFacts DEF ReqAnswer
  <2> QED  BY <2>1, <2>2 DEF Longer
<1>4. ASSUME ServerEnd PROVE Longer(toZnc, toZnc', Sent({"906", "001"}))
  <2>1. Line("906", {}) \in Sent({"906", "001"}) /\ Line("001", {}) \in Sent({"906", "001"})
    BY ZncLineFacts, SentFacts
  <2> QED  BY <1>4, <2>1, EndStep DEF Longer
<1>5. ASSUME NEW cmd \in {"MECH", "DATA"}, ServerAuthenticate(cmd)
      PROVE  Longer(toZnc, toZnc', Sent({"AUTHENTICATE", "903", "904", "907"}))
  <2>1. PICK r \in {"AUTHENTICATE", "903", "904", "907"} : toZnc' = Append(toZnc, Line(r, {}))
    BY <1>5, AuthenticateStep
  <2>2. Line(r, {}) \in Sent({"AUTHENTICATE", "903", "904", "907"})  BY ZncLineFacts, SentFacts
  <2> QED  BY <2>1, <2>2 DEF Longer
<1>6. ASSUME NEW c \in Caps, ServerNew(c) PROVE Longer(toZnc, toZnc', Sent({"NEW"}))
  <2>1. Line("NEW", {c}) \in Sent({"NEW"})  BY <1>6, NewStep, SentFacts
  <2> QED  BY <1>6, <2>1, NewStep DEF Longer
<1>7. ASSUME NEW c \in Caps, ServerDel(c) PROVE Longer(toZnc, toZnc', Sent({"904", "DEL"}))
  <2>1. Line("DEL", {c}) \in Sent({"904", "DEL"}) /\ Line("904", {}) \in Sent({"904", "DEL"})
    BY <1>7, DelStep, SentFacts
  <2> QED  BY <1>7, <2>1, DelStep DEF Longer
<1> QED  BY <1>1, <1>2, <1>3, <1>4, <1>5, <1>6, <1>7

\* Lines of other kinds than M's, sent by the server, do not matter for M.
LEMMA SentNeutral ==
  ASSUME Base, NEW cmds, Longer(toZnc, toZnc', Sent(cmds)), NEW M, \A x \in M : x.cmd \notin cmds
  PROVE  /\ Any(toZnc', M) <=> Any(toZnc, M)
         /\ Once(toZnc, M) => Once(toZnc', M)
         /\ \A N : Followed(toZnc, M, N) => Followed(toZnc', M, N)
<1>1. \A x \in Sent(cmds) : x \notin M  BY SentFacts
<1>2. toZnc \in Seq(ZncLines) /\ Sent(cmds) \in SUBSET ZncLines  BY SentFacts DEF Base
<1> QED  BY <1>1, <1>2, LongerNeutral
-----------------------------------------------------------------------------
(* require_auth *)

AuthInv == /\ Any(toZnc, Of({"903", "907"})) => loggedIn
           /\ authenticated => loggedIn
           /\ authed /\ requireAuth => authenticated \/ closing

LEMMA ZncAuth == ASSUME Base, AuthInv, ZncStep PROVE AuthInv'
<1> USE DEF AuthInv, serverVars, capVars, saslVars, zncVars
<1>0. ASSUME NEW cmd, Receives(cmd)
      PROVE  /\ ~closing /\ (Any(toZnc', Of({"903", "907"})) => loggedIn)
             /\ cmd \in {"903", "907"} => loggedIn
  <2>1. Any(toZnc, Of({"903", "907"})) <=> Head(toZnc) \in Of({"903", "907"}) \/ Any(toZnc', Of({"903", "907"}))
    BY <1>0, Received
  <2>2. ~closing /\ Head(toZnc) \in Lines /\ Head(toZnc).cmd = cmd  BY <1>0, ReceiveFacts
  <2> QED  BY <2>1, <2>2, Kinds
<1>1. ASSUME NEW cmd \in {"LS", "LS*", "NEW"}, OnAvailable(cmd) PROVE AuthInv'
  BY <1>0, <1>1 DEF OnAvailable
<1>2. CASE OnAck  BY <1>0, <1>2 DEF OnAck
<1>3. CASE OnNak  BY <1>0, <1>3 DEF OnNak, RemoveCaps
<1>4. CASE OnDel  BY <1>0, <1>4 DEF OnDel, RemoveCaps
<1>5. CASE OnAuthenticate  BY <1>0, <1>5 DEF OnAuthenticate
<1>6. ASSUME NEW cmd \in {"903", "907"}, OnSaslSuccess(cmd) PROVE AuthInv'
  BY <1>0, <1>6 DEF OnSaslSuccess
<1>7. CASE OnSaslFailure  BY <1>0, <1>7 DEF OnSaslFailure
<1>8. CASE OnSaslAborted  BY <1>0, <1>8 DEF OnSaslAborted
<1>9. CASE OnWelcome  BY <1>0, <1>9 DEF OnWelcome, Checked
<1> QED  BY <1>1, <1>2, <1>3, <1>4, <1>5, <1>6, <1>7, <1>8, <1>9 DEF ZncStep

LEMMA NextAuth == ASSUME Base, AuthInv, [Next]_vars PROVE AuthInv'
<1> USE DEF AuthInv, capVars, saslVars, zncVars
<1>0. ASSUME NEW cmds, "903" \notin cmds, "907" \notin cmds, Longer(toZnc, toZnc', Sent(cmds))
      PROVE  Any(toZnc', Of({"903", "907"})) <=> Any(toZnc, Of({"903", "907"}))
  <2>1. \A x \in Of({"903", "907"}) : x.cmd \notin cmds  BY <1>0 DEF Of
  <2> QED  BY <1>0, <2>1, SentNeutral
<1>1. CASE ServerLs
  <2>1. Any(toZnc', Of({"903", "907"})) <=> Any(toZnc, Of({"903", "907"}))  BY <1>0, <1>1, ServerSends
  <2> QED  BY <1>1, <2>1 DEF ServerLs
<1>2. CASE ServerWithoutCap
  <2>1. Any(toZnc', Of({"903", "907"})) <=> Any(toZnc, Of({"903", "907"}))  BY <1>0, <1>2, ServerSends
  <2> QED  BY <1>2, <2>1 DEF ServerWithoutCap
<1>3. CASE ServerReq
  <2>1. Any(toZnc', Of({"903", "907"})) <=> Any(toZnc, Of({"903", "907"}))  BY <1>0, <1>3, ServerSends
  <2> QED  BY <1>3, <2>1 DEF ServerReq
<1>4. CASE ServerEnd
  <2>1. Any(toZnc', Of({"903", "907"})) <=> Any(toZnc, Of({"903", "907"}))  BY <1>0, <1>4, ServerSends
  <2> QED  BY <1>4, <2>1 DEF ServerEnd
<1>5. ASSUME NEW cmd \in {"MECH", "DATA"}, ServerAuthenticate(cmd) PROVE AuthInv'
  <2>1. PICK r \in {"AUTHENTICATE", "903", "904", "907"} :
          toZnc' = Append(toZnc, Line(r, {})) /\ (r \in {"903", "907"} => loggedIn')
    BY <1>5, AuthenticateStep
  <2>2. Line(r, {}) \in ZncLines /\ toZnc \in Seq(ZncLines)  BY ZncLineFacts DEF Base
  <2>3. Line(r, {}) \in Of({"903", "907"}) => r \in {"903", "907"}  BY LineFacts DEF Of
  <2>4. Any(toZnc', Of({"903", "907"})) => r \in {"903", "907"} \/ Any(toZnc, Of({"903", "907"}))
    BY <2>1, <2>2, <2>3, AnyAppend
  <2> QED  BY <1>5, <2>1, <2>4, AuthenticateStep
<1>6. ASSUME NEW c \in Caps, ServerNew(c) PROVE AuthInv'
  <2>1. Any(toZnc', Of({"903", "907"})) <=> Any(toZnc, Of({"903", "907"}))  BY <1>0, <1>6, ServerSends
  <2> QED  BY <1>6, <2>1 DEF ServerNew
<1>7. ASSUME NEW c \in Caps, ServerDel(c) PROVE AuthInv'
  <2>1. Any(toZnc', Of({"903", "907"})) <=> Any(toZnc, Of({"903", "907"}))  BY <1>0, <1>7, ServerSends
  <2> QED  BY <1>7, <2>1 DEF ServerDel
<1>8. CASE Reconnect
  BY <1>8, EmptyLine DEF Reconnect, NewServer, AuthenticatedReset
<1>9. CASE UNCHANGED vars  BY <1>9 DEF vars, serverVars
<1> QED  BY <1>1, <1>2, <1>3, <1>4, <1>5, <1>6, <1>7, <1>8, <1>9, ZncAuth DEF Next, ServerReply

\* require_auth holds for every list of mechanisms and every order of events: a
\* connection that is up and not being closed is authenticated with the server it
\* is a connection to (CSASLMod::CheckRequireAuth, OnIRCDisconnected).
THEOREM CapAuthRequired == Spec => []AuthRequired
<1>1. Init => Base /\ AuthInv  BY InitBase, EmptyLine DEF Init, AuthInv
<1>2. Base /\ AuthInv /\ [Next]_vars => (Base /\ AuthInv)'  BY NextBase, NextAuth
<1>3. AuthInv => AuthRequired  BY DEF AuthInv, AuthRequired
<1> QED  BY <1>1, <1>2, <1>3, PTL DEF Spec
-----------------------------------------------------------------------------
(* ZNC and the server agree about what is enabled *)

\* The lines that put c into m_ssAcceptedCaps, and those that take it out.
Acks(c) == Naming({"ACK"}, c)
Removals(c) == {m \in Lines : \/ m.cmd = "DEL" /\ c \in m.caps
                              \/ m.cmd = "NAK" /\ m.caps = {c}}

\* The last line about c in q, or acc when there is none, says that c is enabled
\* or that it is not.
SaysOn(q, acc, c) == Followed(q, Removals(c), Acks(c)) /\ (c \in acc \/ Any(q, Acks(c)))
SaysOff(q, acc, c) == Followed(q, Acks(c), Removals(c)) /\ (c \notin acc \/ Any(q, Removals(c)))

Synced == \A c \in Caps : /\ c \in enabled => SaysOn(toZnc, accepted, c)
                          /\ c \notin enabled => SaysOff(toZnc, accepted, c)

LEMMA SyncNeutral ==
  ASSUME NEW q \in Seq(ZncLines), NEW x \in ZncLines, NEW c, NEW acc,
         x \notin Acks(c), x \notin Removals(c)
  PROVE  /\ SaysOn(q, acc, c) => SaysOn(Append(q, x), acc, c)
         /\ SaysOff(q, acc, c) => SaysOff(Append(q, x), acc, c)
<1>1. \A M, N : x \notin M /\ Followed(q, M, N) => Followed(Append(q, x), M, N)  BY FollowedAppend
<1>2. \A M : Any(q, M) => Any(Append(q, x), M)  BY AnyAppend
<1> QED  BY <1>1, <1>2 DEF SaysOn, SaysOff

LEMMA SyncAck ==
  ASSUME NEW q \in Seq(ZncLines), NEW x \in ZncLines, NEW c, NEW acc, x \in Acks(c)
  PROVE  SaysOn(Append(q, x), acc, c)
<1>1. x \notin Removals(c)  BY DEF Acks, Naming, Removals
<1> QED  BY <1>1, FollowedAppend, AnyAppend DEF SaysOn

LEMMA SyncRemoval ==
  ASSUME NEW q \in Seq(ZncLines), NEW x \in ZncLines, NEW c, NEW acc, x \in Removals(c)
  PROVE  SaysOff(Append(q, x), acc, c)
<1>1. x \notin Acks(c)  BY DEF Acks, Naming, Removals
<1> QED  BY <1>1, FollowedAppend, AnyAppend DEF SaysOff

\* A line that ZNC receives, with what it must do to the list.
LEMMA ReceivedSynced ==
  ASSUME Base, Synced, NEW cmd, Receives(cmd), enabled' = enabled,
         \A c \in Caps : /\ Head(toZnc) \in Acks(c) => c \in accepted'
                         /\ Head(toZnc) \in Removals(c) => c \notin accepted'
                         /\ Head(toZnc) \notin Acks(c) /\ Head(toZnc) \notin Removals(c)
                              => (c \in accepted' <=> c \in accepted)
  PROVE  Synced'
<1> SUFFICES ASSUME NEW c \in Caps
             PROVE  /\ c \in enabled => SaysOn(toZnc', accepted', c)
                    /\ c \notin enabled => SaysOff(toZnc', accepted', c)
  BY DEF Synced
<1>1. ~(Head(toZnc) \in Acks(c) /\ Head(toZnc) \in Removals(c))  BY DEF Acks, Naming, Removals
<1>2. /\ Any(toZnc, Acks(c)) <=> Head(toZnc) \in Acks(c) \/ Any(toZnc', Acks(c))
      /\ Any(toZnc, Removals(c)) <=> Head(toZnc) \in Removals(c) \/ Any(toZnc', Removals(c))
  BY Received
<1>3. CASE c \in enabled
  <2>1. Followed(toZnc, Removals(c), Acks(c)) /\ (c \in accepted \/ Any(toZnc, Acks(c)))
    BY <1>3 DEF Synced, SaysOn
  <2>2. /\ Followed(toZnc', Removals(c), Acks(c))
        /\ Head(toZnc) \in Removals(c) => Any(toZnc', Acks(c))
    BY <2>1, Received
  <2> QED  BY <1>1, <1>2, <1>3, <2>1, <2>2 DEF SaysOn
<1>4. CASE c \notin enabled
  <2>1. Followed(toZnc, Acks(c), Removals(c)) /\ (c \notin accepted \/ Any(toZnc, Removals(c)))
    BY <1>4 DEF Synced, SaysOff
  <2>2. /\ Followed(toZnc', Acks(c), Removals(c))
        /\ Head(toZnc) \in Acks(c) => Any(toZnc', Removals(c))
    BY <2>1, Received
  <2> QED  BY <1>1, <1>2, <1>4, <2>1, <2>2 DEF SaysOff
<1> QED  BY <1>3, <1>4

\* The caps of a request that is refused on its own.
LEMMA SingleNak ==
  ASSUME NEW S \in SUBSET Wanted, S # {}
  PROVE  /\ Cardinality(S) = 1 => \A c \in S : S = {c}
         /\ Cardinality(S) > 1 => \A c : S # {c}
         /\ Cardinality(S) = 1 \/ Cardinality(S) > 1
<1>1. IsFiniteSet(S)  BY CapsAssumption, FS_Subset
<1>2. Cardinality(S) \in Nat /\ Cardinality(S) # 0  BY <1>1, FS_CardinalityType, FS_EmptySet
<1>3. Cardinality(S) = 1 => \A c \in S : S = {c}
  <2>1. Cardinality(S) = 1 => \E x : S = {x}  BY <1>1, FS_Singleton
  <2> QED  BY <2>1
<1>4. ASSUME NEW c, S = {c} PROVE ~(Cardinality(S) > 1)
  <2>1. Cardinality(S) = 1  BY <1>4, FS_Singleton
  <2> QED  BY <2>1
<1>5. Cardinality(S) = 1 \/ Cardinality(S) > 1  BY <1>2
<1>6. Cardinality(S) > 1 => \A c : S # {c}  BY <1>4
<1> QED  BY <1>3, <1>5, <1>6

LEMMA ZncSynced == ASSUME Base, Synced, ZncStep PROVE Synced'
<1>0. ASSUME NEW cmd, Receives(cmd), cmd \notin {"ACK", "NAK", "DEL"},
             UNCHANGED <<accepted, enabled>>
      PROVE  Synced'
  <2>1. Head(toZnc).cmd = cmd  BY <1>0, ReceiveFacts
  <2>2. \A c \in Caps : Head(toZnc) \notin Acks(c) /\ Head(toZnc) \notin Removals(c)
    BY <1>0, <2>1 DEF Acks, Naming, Removals
  <2> QED  BY <1>0, <2>2, ReceivedSynced
<1>1. ASSUME NEW cmd \in {"LS", "LS*", "NEW"}, OnAvailable(cmd) PROVE Synced'
  BY <1>0, <1>1 DEF OnAvailable, serverVars
<1>2. CASE OnAck
  <2>1. Receives("ACK") /\ accepted' = accepted \cup Head(toZnc).caps /\ enabled' = enabled
    BY <1>2 DEF OnAck, serverVars
  <2>2. Head(toZnc) \in Lines /\ Head(toZnc).cmd = "ACK"  BY <2>1, ReceiveFacts
  <2>3. \A c \in Caps : /\ Head(toZnc) \in Acks(c) <=> c \in Head(toZnc).caps
                        /\ Head(toZnc) \notin Removals(c)
    BY <2>2 DEF Acks, Naming, Removals
  <2> QED  BY <2>1, <2>3, ReceivedSynced
<1>3. CASE OnNak
  <2> DEFINE S == Head(toZnc).caps
  <2>1. Receives("NAK") /\ enabled' = enabled  BY <1>3 DEF OnNak, RemoveCaps, serverVars
  <2>2. /\ Head(toZnc) \in Lines /\ Head(toZnc).cmd = "NAK" /\ S \in SUBSET Wanted /\ S # {}
    BY <2>1, ReceiveFacts
  <2>3. \A c \in Caps : /\ Head(toZnc) \in Removals(c) <=> S = {c}
                        /\ Head(toZnc) \notin Acks(c)
    BY <2>2 DEF Acks, Naming, Removals
  <2>4. /\ Cardinality(S) = 1 => \A c \in S : S = {c}
        /\ Cardinality(S) > 1 => \A c : S # {c}
    BY <2>2, SingleNak
  <2>5. CASE Cardinality(S) = 1 /\ accepted' = accepted \ S
    BY <2>1, <2>3, <2>4, <2>5, ReceivedSynced
  <2>6. CASE Cardinality(S) > 1 /\ accepted' = accepted
    BY <2>1, <2>3, <2>4, <2>6, ReceivedSynced
  <2> QED  BY <1>3, <2>5, <2>6 DEF OnNak, RemoveCaps
<1>4. CASE OnDel
  <2>1. Receives("DEL") /\ accepted' = accepted \ Head(toZnc).caps /\ enabled' = enabled
    BY <1>4 DEF OnDel, RemoveCaps, serverVars
  <2>2. Head(toZnc) \in Lines /\ Head(toZnc).cmd = "DEL"  BY <2>1, ReceiveFacts
  <2>3. ASSUME NEW c \in Caps
        PROVE  /\ Head(toZnc) \in Removals(c) <=> c \in Head(toZnc).caps
               /\ Head(toZnc) \notin Acks(c)
    BY <2>2 DEF Acks, Naming, Removals
  <2> QED  BY <2>1, <2>3, ReceivedSynced
<1>5. CASE OnAuthenticate  BY <1>0, <1>5 DEF OnAuthenticate, zncVars, capVars, serverVars
<1>6. ASSUME NEW cmd \in {"903", "907"}, OnSaslSuccess(cmd) PROVE Synced'
  BY <1>0, <1>6 DEF OnSaslSuccess, serverVars
<1>7. CASE OnSaslFailure  BY <1>0, <1>7 DEF OnSaslFailure, serverVars
<1>8. CASE OnSaslAborted  BY <1>0, <1>8 DEF OnSaslAborted, capVars, serverVars
<1>9. CASE OnWelcome  BY <1>0, <1>9 DEF OnWelcome, capVars, serverVars
<1> QED  BY <1>1, <1>2, <1>3, <1>4, <1>5, <1>6, <1>7, <1>8, <1>9 DEF ZncStep

\* Lines of the server that say nothing about what is enabled.
LEMMA SentSynced ==
  ASSUME Base, Synced, NEW cmds, cmds \cap {"ACK", "NAK", "DEL"} = {},
         Longer(toZnc, toZnc', Sent(cmds)), UNCHANGED <<enabled, accepted>>
  PROVE  Synced'
<1> SUFFICES ASSUME NEW c \in Caps
             PROVE  /\ c \in enabled => SaysOn(toZnc', accepted, c)
                    /\ c \notin enabled => SaysOff(toZnc', accepted, c)
  BY DEF Synced
<1>1. \A x \in Acks(c) : x.cmd \notin cmds  BY DEF Acks, Naming
<1>2. \A x \in Removals(c) : x.cmd \notin cmds  BY DEF Removals
<1>3. /\ Any(toZnc', Acks(c)) <=> Any(toZnc, Acks(c))
      /\ Followed(toZnc, Acks(c), Removals(c)) => Followed(toZnc', Acks(c), Removals(c))
  BY <1>1, SentNeutral
<1>4. /\ Any(toZnc', Removals(c)) <=> Any(toZnc, Removals(c))
      /\ Followed(toZnc, Removals(c), Acks(c)) => Followed(toZnc', Removals(c), Acks(c))
  BY <1>2, SentNeutral
<1> QED  BY <1>3, <1>4 DEF Synced, SaysOn, SaysOff

LEMMA ReqSynced == ASSUME Base, Synced, ServerReq PROVE Synced'
<1> DEFINE S == Head(toServer).caps
           x == ReqAnswer(S)
<1>1. /\ S \subseteq Wanted /\ S # {} /\ x \in ZncLines /\ toZnc' = Append(toZnc, x)
      /\ accepted' = accepted /\ offers' = offers
      /\ enabled' = IF S \subseteq offers THEN enabled \cup S ELSE enabled
  BY ReqStep DEF zncVars, capVars
<1>2. x \in Lines /\ toZnc \in Seq(ZncLines)  BY <1>1, ZncLineFacts DEF Base
<1>3. x.caps = S /\ x.cmd = IF S \subseteq offers THEN "ACK" ELSE "NAK"  BY LineFacts DEF ReqAnswer
<1> HIDE DEF S, x
<1> SUFFICES ASSUME NEW c \in Caps
             PROVE  /\ c \in enabled' => SaysOn(toZnc', accepted, c)
                    /\ c \notin enabled' => SaysOff(toZnc', accepted, c)
  BY <1>1 DEF Synced
<1>4. /\ c \in enabled => SaysOn(toZnc, accepted, c)
      /\ c \notin enabled => SaysOff(toZnc, accepted, c)
  BY DEF Synced
<1>5. CASE c \in S /\ S \subseteq offers
  <2>1. x \in Acks(c)  BY <1>2, <1>3, <1>5 DEF Acks, Naming
  <2> QED  BY <1>1, <1>2, <1>5, <2>1, SyncAck
<1>6. CASE S = {c} /\ ~(S \subseteq offers)
  <2>1. x \in Removals(c)  BY <1>2, <1>3, <1>6 DEF Removals
  <2>2. c \notin enabled  BY <1>6 DEF Base, Scalars
  <2> QED  BY <1>1, <1>2, <1>6, <2>1, <2>2, SyncRemoval
<1>7. CASE (c \notin S /\ S \subseteq offers) \/ (S # {c} /\ ~(S \subseteq offers))
  <2>1. x \notin Acks(c) /\ x \notin Removals(c)  BY <1>3, <1>7 DEF Acks, Naming, Removals
  <2> QED  BY <1>1, <1>2, <1>4, <1>7, <2>1, SyncNeutral
<1> QED  BY <1>5, <1>6, <1>7

LEMMA DelSynced == ASSUME Base, Synced, NEW d \in Caps, ServerDel(d) PROVE Synced'
<1> DEFINE x == Line("DEL", {d})
           y == Line("904", {})
<1>1. /\ x \in ZncLines /\ y \in ZncLines /\ toZnc \in Seq(ZncLines)
      /\ toZnc' = Append(toZnc, x) \/ toZnc' = Append(Append(toZnc, y), x)
  BY DelStep DEF Base
<1>2. /\ x \in Lines /\ x.cmd = "DEL" /\ x.caps = {d} /\ y \in Lines /\ y.cmd = "904"
  BY <1>1, ZncLineFacts, LineFacts
<1>3. Append(toZnc, y) \in Seq(ZncLines)  BY <1>1, AppendDomain
<1>4. accepted' = accepted /\ enabled' = enabled \ {d}  BY DEF ServerDel, zncVars, capVars
<1> HIDE DEF x, y
<1> SUFFICES ASSUME NEW c \in Caps
             PROVE  /\ c \in enabled' => SaysOn(toZnc', accepted, c)
                    /\ c \notin enabled' => SaysOff(toZnc', accepted, c)
  BY <1>4 DEF Synced
<1>5. CASE c = d
  <2>1. x \in Removals(c)  BY <1>2, <1>5 DEF Removals
  <2> QED  BY <1>1, <1>3, <1>4, <1>5, <2>1, SyncRemoval
<1>6. CASE c # d
  <2>1. /\ x \notin Acks(c) /\ x \notin Removals(c) /\ y \notin Acks(c) /\ y \notin Removals(c)
    BY <1>2, <1>6 DEF Acks, Naming, Removals
  <2>2. /\ c \in enabled => SaysOn(toZnc, accepted, c)
        /\ c \notin enabled => SaysOff(toZnc, accepted, c)
    BY DEF Synced
  <2>3. /\ c \in enabled => SaysOn(Append(toZnc, x), accepted, c) /\ SaysOn(Append(toZnc, y), accepted, c)
        /\ c \notin enabled => SaysOff(Append(toZnc, x), accepted, c) /\ SaysOff(Append(toZnc, y), accepted, c)
    BY <1>1, <2>1, <2>2, SyncNeutral
  <2>4. /\ c \in enabled => SaysOn(Append(Append(toZnc, y), x), accepted, c)
        /\ c \notin enabled => SaysOff(Append(Append(toZnc, y), x), accepted, c)
    BY <1>1, <1>3, <2>1, <2>3, SyncNeutral
  <2> QED  BY <1>1, <1>4, <1>6, <2>3, <2>4
<1> QED  BY <1>5, <1>6

LEMMA NextSynced == ASSUME Base, Synced, [Next]_vars PROVE Synced'
<1> USE DEF zncVars, capVars
<1>1. CASE ServerLs  BY <1>1, ServerSends, SentSynced DEF ServerLs
<1>2. CASE ServerWithoutCap  BY <1>2, ServerSends, SentSynced DEF ServerWithoutCap
<1>3. CASE ServerEnd  BY <1>3, ServerSends, SentSynced DEF ServerEnd
<1>4. ASSUME NEW cmd \in {"MECH", "DATA"}, ServerAuthenticate(cmd) PROVE Synced'
  BY <1>4, ServerSends, SentSynced DEF ServerAuthenticate
<1>5. ASSUME NEW c \in Caps, ServerNew(c) PROVE Synced'
  BY <1>5, ServerSends, SentSynced DEF ServerNew
<1>6. CASE Reconnect
  BY <1>6, EmptyLine DEF Reconnect, NewServer, Synced, SaysOff
<1>7. CASE UNCHANGED vars  BY <1>7 DEF vars, serverVars, Synced, SaysOn, SaysOff
<1> QED  BY <1>1, <1>2, <1>3, <1>4, <1>5, <1>6, <1>7, ZncSynced, ReqSynced, DelSynced DEF Next, ServerReply

\* Whatever was refused, withdrawn or announced anew while requests were under
\* way, ZNC and the server agree about the capabilities once nothing is on its
\* way (m_ssAcceptedCaps, CIRCSock::OnCapabilityMessage).
THEOREM CapAgreement == Spec => []Agreement
<1>1. Init => Base /\ Synced  BY InitBase, EmptyLine DEF Init, Synced, SaysOff
<1>2. Base /\ Synced /\ [Next]_vars => (Base /\ Synced)'  BY NextBase, NextSynced
<1>3. Base /\ Synced => Agreement
  <2> SUFFICES ASSUME Base, Synced, Quiet PROVE accepted = enabled
    BY DEF Agreement
  <2>1. accepted \subseteq Caps /\ enabled \subseteq Caps  BY CapsAssumption DEF Base, Scalars
  <2>2. \A c \in Caps : ~Any(toZnc, Acks(c)) /\ ~Any(toZnc, Removals(c))  BY EmptyLine DEF Quiet
  <2> QED  BY <2>1, <2>2 DEF Synced, SaysOn, SaysOff
<1> QED  BY <1>1, <1>2, <1>3, PTL DEF Spec
-----------------------------------------------------------------------------
(* PauseCap and ResumeCap *)

\* The lines of an authentication, and those that may lead to one.
AuthZ == Of({"AUTHENTICATE", "903", "904", "907"})
AuthS == Of({"MECH", "DATA"})
TokZ == AuthZ \cup Naming({"LS", "LS*", "ACK", "NAK"}, Sasl)
TokS == AuthS \cup Naming({"REQ"}, Sasl) \cup Of({"LS"})

\* As long as the server announces no change of Sasl there is one token, that sasl
\* may be asked for: it is in a line, or Sasl waits in one of the lists.
OneToken(zl, sl, pend, ph2) ==
  /\ Once(zl, TokZ) /\ Once(sl, TokS) /\ ~(Any(zl, TokZ) /\ Any(sl, TokS))
  /\ Sasl \in pend \/ Sasl \in ph2 => ~Any(zl, TokZ) /\ ~Any(sl, TokS)
  /\ ~(Sasl \in pend /\ Sasl \in ph2)
  /\ ~Any(zl, Naming({"NEW"}, Sasl))

UnderWay(zl, sl) == Any(zl, AuthZ) \/ Any(sl, AuthS)

Token == saslStable => /\ OneToken(toZnc, toServer, pending, phase2)
                       /\ UnderWay(toZnc, toServer) => paused = 1 /\ mech # 0
                       /\ ~UnderWay(toZnc, toServer) => paused = 0

LEMMA AuthIsToken == ASSUME NEW q PROVE /\ Any(q, AuthZ) => Any(q, TokZ)
                                        /\ Any(q, AuthS) => Any(q, TokS)
  BY DEF Any, TokZ, TokS

\* Who has the token.
Granted(zl, sl, pend, ph2) ==
  ~Any(zl, TokZ) /\ ~Any(sl, TokS) /\ Sasl \notin pend /\ Sasl \notin ph2

LEMMA GrantFacts ==
  ASSUME NEW zl, NEW sl \in Seq(ServerLines), NEW pend, NEW ph2,
         OneToken(zl, sl, pend, ph2), Granted(zl, sl, pend, ph2)
  PROVE  /\ \A x \in ServerLines : OneToken(zl, Append(sl, x), pend, ph2)
         /\ \A S : OneToken(zl, sl, pend \cup S, ph2)
         /\ \A S : OneToken(zl, sl, pend, ph2 \cup S)
<1>1. ASSUME NEW x \in ServerLines PROVE OneToken(zl, Append(sl, x), pend, ph2)
  <2>1. Once(Append(sl, x), TokS)  BY OnceAppend DEF OneToken, Granted
  <2> QED  BY <2>1 DEF OneToken, Granted
<1> QED  BY <1>1 DEF OneToken, Granted

LEMMA SendToken ==
  ASSUME NEW zl, NEW lines \in Seq(ServerLines), NEW pend \in SUBSET Wanted, NEW ph2 \in SUBSET Wanted,
         NEW pause, OneToken(zl, lines, pend, ph2), SendNextCap(pend, ph2, pause, lines)
  PROVE  /\ OneToken(zl, toServer', pending', phase2')
         /\ UnderWay(zl, toServer') <=> UnderWay(zl, lines)
<1>1. CASE Silent(pend, ph2, pause, lines)  BY <1>1 DEF Silent
<1>2. CASE Ends(pend, ph2, pause, lines)
  <2> DEFINE x == Line("END", {})
  <2>1. x \in ServerLines /\ x.cmd = "END"  BY ServerLineFacts, LineFacts
  <2>2. toServer' = Append(lines, x) /\ pending' = {} /\ phase2' = {}  BY <1>2 DEF Ends
  <2> HIDE DEF x
  <2>3. x \notin TokS /\ x \notin AuthS  BY <2>1 DEF TokS, AuthS, Of, Naming
  <2>4. /\ Any(toServer', TokS) <=> Any(lines, TokS)
        /\ Any(toServer', AuthS) <=> Any(lines, AuthS)
    BY <2>1, <2>2, <2>3, AnyAppend
  <2>5. Once(toServer', TokS)  BY <2>1, <2>2, <2>3, OnceAppend DEF OneToken
  <2> QED  BY <2>2, <2>4, <2>5 DEF OneToken, UnderWay
<1>3. ASSUME NEW S \in SUBSET Wanted, Requests(pend, ph2, pause, lines, S)
      PROVE  /\ OneToken(zl, toServer', pending', phase2')
             /\ UnderWay(zl, toServer') <=> UnderWay(zl, lines)
  <2> DEFINE x == Line("REQ", S)
  <2>1. x \in ServerLines /\ x \in Lines /\ x.cmd = "REQ" /\ x.caps = S
    BY <1>3, ServerLineFacts, LineFacts DEF Requests
  <2>2. /\ toServer' = Append(lines, x)
        /\ \/ S \subseteq pend /\ pending' = pend \ S /\ phase2' = ph2
           \/ S \subseteq ph2 /\ pending' = pend /\ phase2' = ph2 \ S
    BY <1>3 DEF Requests
  <2> HIDE DEF x
  <2>3. (x \in TokS <=> Sasl \in S) /\ x \notin AuthS  BY <2>1 DEF TokS, AuthS, Of, Naming
  <2>4. /\ Any(toServer', TokS) <=> Sasl \in S \/ Any(lines, TokS)
        /\ Any(toServer', AuthS) <=> Any(lines, AuthS)
    BY <2>1, <2>2, <2>3, AnyAppend
  <2>5. Sasl \in S => Sasl \in pend \/ Sasl \in ph2  BY <2>2
  <2>6. Once(toServer', TokS)  BY <2>1, <2>2, <2>3, <2>5, OnceAppend DEF OneToken
  <2>7. ~Any(zl, TokZ) \/ ~Any(toServer', TokS)  BY <2>4, <2>5 DEF OneToken
  <2>8. Sasl \in pending' \/ Sasl \in phase2' => ~Any(zl, TokZ) /\ ~Any(toServer', TokS)
    <3>1. Sasl \in pending' \/ Sasl \in phase2' => (Sasl \in pend \/ Sasl \in ph2) /\ Sasl \notin S
      BY <2>2 DEF OneToken
    <3> QED  BY <2>4, <3>1 DEF OneToken
  <2>9. ~(Sasl \in pending' /\ Sasl \in phase2')  BY <2>2 DEF OneToken
  <2> QED  BY <2>4, <2>6, <2>7, <2>8, <2>9 DEF OneToken, UnderWay
<1> QED  BY <1>1, <1>2, <1>3, SendCases

LEMMA ReceiveToken ==
  ASSUME Base, NEW cmd, Receives(cmd), OneToken(toZnc, toServer, pending, phase2)
  PROVE  /\ OneToken(toZnc', toServer, pending, phase2)
         /\ Head(toZnc) \in TokZ => Granted(toZnc', toServer, pending, phase2)
         /\ Head(toZnc) \in AuthZ => UnderWay(toZnc, toServer)
         /\ Head(toZnc) \notin AuthZ => (UnderWay(toZnc', toServer) <=> UnderWay(toZnc, toServer))
         /\ Head(toZnc) \in TokZ => ~UnderWay(toZnc', toServer)
         /\ Head(toZnc) \notin Naming({"NEW"}, Sasl)
<1>1. /\ Any(toZnc, TokZ) <=> Head(toZnc) \in TokZ \/ Any(toZnc', TokZ)
      /\ Once(toZnc', TokZ) /\ (Head(toZnc) \in TokZ => ~Any(toZnc', TokZ))
  BY Received DEF OneToken
<1>2. Any(toZnc, AuthZ) <=> Head(toZnc) \in AuthZ \/ Any(toZnc', AuthZ)  BY Received
<1>3. ~Any(toZnc', Naming({"NEW"}, Sasl)) /\ Head(toZnc) \notin Naming({"NEW"}, Sasl)
  BY Received DEF OneToken
<1>4. OneToken(toZnc', toServer, pending, phase2)  BY <1>1, <1>3 DEF OneToken
<1>5. Head(toZnc) \in TokZ => Granted(toZnc', toServer, pending, phase2)
  BY <1>1 DEF OneToken, Granted
<1>6. Head(toZnc) \in TokZ => ~UnderWay(toZnc', toServer)
  BY <1>5, AuthIsToken DEF Granted, UnderWay
<1> QED  BY <1>2, <1>3, <1>4, <1>5, <1>6 DEF UnderWay

\* m_uCapPaused counts one pause, and none again, whatever its width.
LEMMA PauseArithmetic == (0 + 1) % UIntMod = 1 /\ (1 - 1) % UIntMod = 0
  BY CountsAssumption

\* A handler that goes on with the negotiation as it is.
LEMMA SendKeepsToken ==
  ASSUME Base, Token, saslStable, NEW cmd, Receives(cmd), Head(toZnc) \notin AuthZ,
         NEW pend \in SUBSET Wanted, NEW ph2 \in SUBSET Wanted,
         OneToken(toZnc', toServer, pend, ph2), SendNextCap(pend, ph2, paused, toServer),
         UNCHANGED <<paused, mech, saslStable>>
  PROVE  Token'
<1>1. toServer \in Seq(ServerLines)  BY DEF Base
<1>2. /\ OneToken(toZnc', toServer', pending', phase2')
      /\ UnderWay(toZnc', toServer') <=> UnderWay(toZnc', toServer)
  BY <1>1, SendToken
<1>3. UnderWay(toZnc', toServer) <=> UnderWay(toZnc, toServer)  BY ReceiveToken DEF Token
<1>4. (OneToken(toZnc, toServer, pending, phase2))' = OneToken(toZnc', toServer', pending', phase2')
  BY DEF OneToken
<1>5. (UnderWay(toZnc, toServer))' = UnderWay(toZnc', toServer')  BY DEF UnderWay
<1> QED  BY <1>2, <1>3, <1>4, <1>5 DEF Token

\* A handler that does nothing but take the line.
LEMMA TakeKeepsToken ==
  ASSUME Base, Token, saslStable, NEW cmd, Receives(cmd), Head(toZnc) \notin AuthZ,
         UNCHANGED <<toServer, pending, phase2, paused, mech, saslStable>>
  PROVE  Token'
<1>1. /\ OneToken(toZnc', toServer, pending, phase2)
      /\ UnderWay(toZnc', toServer) <=> UnderWay(toZnc, toServer)
  BY ReceiveToken DEF Token
<1>2. OneToken(toZnc', toServer', pending', phase2') /\ (UnderWay(toZnc', toServer') <=> UnderWay(toZnc, toServer))
  BY <1>1
<1> QED  BY <1>2 DEF Token

\* The command of the line says whether it belongs to an authentication.
LEMMA HeadKinds ==
  ASSUME Base, NEW cmd, Receives(cmd)
  PROVE  /\ Head(toZnc) \in AuthZ <=> cmd \in {"AUTHENTICATE", "903", "904", "907"}
         /\ Head(toZnc) \in AuthZ => Head(toZnc) \in TokZ
         /\ cmd \in {"LS", "LS*", "ACK", "NAK"} /\ Sasl \in Head(toZnc).caps => Head(toZnc) \in TokZ
         /\ cmd = "NEW" /\ Sasl \in Head(toZnc).caps => Head(toZnc) \in Naming({"NEW"}, Sasl)
<1>1. Head(toZnc) \in Lines /\ Head(toZnc).cmd = cmd  BY ReceiveFacts
<1> QED  BY <1>1 DEF AuthZ, TokZ, Of, Naming

LEMMA OnAvailableToken ==
  ASSUME Base, Token, saslStable, NEW cmd \in {"LS", "LS*", "NEW"}, OnAvailable(cmd)
  PROVE  Token'
<1> DEFINE new == Requestable(Head(toZnc).caps)
<1>1. Receives(cmd) /\ UNCHANGED <<paused, mech, saslStable>>  BY DEF OnAvailable, saslVars, serverVars
<1>2. Head(toZnc) \notin AuthZ  BY <1>1, HeadKinds
<1>3. /\ OneToken(toZnc', toServer, pending, phase2)
      /\ Head(toZnc) \in TokZ => Granted(toZnc', toServer, pending, phase2)
      /\ Head(toZnc) \notin Naming({"NEW"}, Sasl)
  BY <1>1, ReceiveToken DEF Token
<1>4. Sasl \in new => Head(toZnc) \in TokZ  BY <1>1, <1>3, HeadKinds DEF Requestable
<1>5. /\ new \subseteq Wanted /\ pending \cup new \in SUBSET Wanted /\ phase2 \in SUBSET Wanted
      /\ toServer \in Seq(ServerLines)
  BY DEF Requestable, Base, Scalars
<1>6. CASE cmd = "LS*"
  <2>1. pending' = pending \cup new /\ phase2' = phase2 /\ toServer' = toServer
    BY <1>6 DEF OnAvailable
  <2> HIDE DEF new
  <2>2. OneToken(toZnc', toServer, pending \cup new, phase2)
    <3>1. CASE Sasl \in new  BY <1>3, <1>4, <1>5, <3>1, GrantFacts
    <3>2. CASE Sasl \notin new  BY <1>3, <3>2 DEF OneToken
    <3> QED  BY <3>1, <3>2
  <2>3. UnderWay(toZnc', toServer) <=> UnderWay(toZnc, toServer)
    BY <1>1, <1>2, ReceiveToken DEF Token
  <2>4. /\ OneToken(toZnc', toServer', pending', phase2')
        /\ UnderWay(toZnc', toServer') <=> UnderWay(toZnc, toServer)
    BY <2>1, <2>2, <2>3
  <2> QED  BY <1>1, <2>4 DEF Token
<1>7. CASE cmd # "LS*"
  <2>1. SendNextCap(pending \cup new, phase2, paused, toServer)  BY <1>7 DEF OnAvailable
  <2> HIDE DEF new
  <2>2. OneToken(toZnc', toServer, pending \cup new, phase2)
    <3>1. CASE Sasl \in new  BY <1>3, <1>4, <1>5, <3>1, GrantFacts
    <3>2. CASE Sasl \notin new  BY <1>3, <3>2 DEF OneToken
    <3> QED  BY <3>1, <3>2
  <2> QED  BY <1>1, <1>2, <1>5, <2>1, <2>2, SendKeepsToken
<1> QED  BY <1>6, <1>7

LEMMA OnAckToken == ASSUME Base, Token, saslStable, OnAck PROVE Token'
<1> DEFINE S == Head(toZnc).caps
<1>0. Receives("ACK") /\ saslStable' = saslStable  BY DEF OnAck, serverVars
<1>1. /\ OneToken(toZnc', toServer, pending, phase2) /\ Head(toZnc) \notin AuthZ
      /\ Head(toZnc) \in TokZ => Granted(toZnc', toServer, pending, phase2)
      /\ UnderWay(toZnc', toServer) <=> UnderWay(toZnc, toServer)
      /\ Head(toZnc) \in TokZ => ~UnderWay(toZnc', toServer)
      /\ Sasl \in S => Head(toZnc) \in TokZ
  BY <1>0, ReceiveToken, HeadKinds DEF Token
<1>2. pending \in SUBSET Wanted /\ phase2 \in SUBSET Wanted /\ toServer \in Seq(ServerLines)
  BY DEF Base, Scalars
<1>3. CASE Sasl \in S
  <2> DEFINE x == Line("MECH", {})
             sentOn == Append(toServer, x)
  <2>1. x \in ServerLines /\ x \in Lines /\ x.cmd = "MECH"  BY ServerLineFacts, LineFacts
  <2>2. paused = 0  BY <1>1, <1>3 DEF Token
  <2>3. paused' = 1 /\ mech' = 1 /\ SendNextCap(pending, phase2, 1, sentOn)
    BY <1>3, <2>2, PauseArithmetic DEF OnAck, AckResult
  <2> HIDE DEF x
  <2>4. OneToken(toZnc', sentOn, pending, phase2) /\ sentOn \in Seq(ServerLines)
    BY <1>1, <1>2, <1>3, <2>1, GrantFacts, AppendDomain
  <2>5. UnderWay(toZnc', sentOn)
    <3>1. x \in AuthS  BY <2>1 DEF AuthS, Of
    <3> QED  BY <1>2, <2>1, <3>1, AnyAppend DEF UnderWay
  <2> HIDE DEF sentOn
  <2>6. OneToken(toZnc', toServer', pending', phase2') /\ UnderWay(toZnc', toServer')
    BY <1>2, <2>3, <2>4, <2>5, SendToken
  <2> QED  BY <1>0, <2>3, <2>6 DEF Token
<1>4. CASE Sasl \notin S
  <2>1. paused' = paused /\ mech' = mech /\ SendNextCap(pending, phase2, paused, toServer)
    BY <1>4 DEF OnAck, AckResult
  <2> QED  BY <1>0, <1>1, <1>2, <2>1, SendKeepsToken
<1> QED  BY <1>3, <1>4

LEMMA RemoveCapsToken ==
  ASSUME Base, Token, saslStable, NEW cmd \in {"NAK", "DEL"}, Receives(cmd), NEW S, RemoveCaps(S)
  PROVE  Token'
<1>1. OneToken(toZnc', toServer, pending, phase2)  BY ReceiveToken DEF Token
<1>2. OneToken(toZnc', toServer, pending \ S, phase2)  BY <1>1 DEF OneToken
<1>3. pending \ S \in SUBSET Wanted /\ phase2 \in SUBSET Wanted  BY DEF Base, Scalars
<1>4. Head(toZnc) \notin AuthZ  BY HeadKinds
<1> QED  BY <1>2, <1>3, <1>4, SendKeepsToken DEF RemoveCaps, saslVars, serverVars

LEMMA OnNakToken == ASSUME Base, Token, saslStable, OnNak PROVE Token'
<1> DEFINE S == Head(toZnc).caps
<1>1. Receives("NAK")  BY DEF OnNak
<1>2. CASE RemoveCaps(S)  BY <1>1, <1>2, RemoveCapsToken
<1>3. CASE /\ SendNextCap(pending, phase2 \cup S, paused, toServer)
           /\ UNCHANGED <<accepted, paused, authed, closing, saslVars, serverVars, conns, requireAuth>>
  <2>1. /\ OneToken(toZnc', toServer, pending, phase2) /\ Head(toZnc) \notin AuthZ
        /\ Sasl \in S => Granted(toZnc', toServer, pending, phase2)
    BY <1>1, ReceiveToken, HeadKinds DEF Token
  <2>2. /\ pending \in SUBSET Wanted /\ phase2 \cup S \in SUBSET Wanted /\ toServer \in Seq(ServerLines)
    BY <1>1, ReceiveFacts DEF Base, Scalars
  <2> HIDE DEF S
  <2>3. OneToken(toZnc', toServer, pending, phase2 \cup S)
    <3>1. CASE Sasl \in S  BY <2>1, <2>2, <3>1, GrantFacts
    <3>2. CASE Sasl \notin S  BY <2>1, <3>2 DEF OneToken
    <3> QED  BY <3>1, <3>2
  <2> QED  BY <1>1, <1>3, <2>1, <2>2, <2>3, SendKeepsToken DEF saslVars, serverVars
<1> QED  BY <1>2, <1>3 DEF OnNak

\* When an answer to an authentication arrives, the negotiation is paused for it.
LEMMA AnswerToken ==
  ASSUME Base, Token, saslStable, NEW cmd \in {"AUTHENTICATE", "903", "904", "907"}, Receives(cmd)
  PROVE  /\ OneToken(toZnc', toServer, pending, phase2)
         /\ Granted(toZnc', toServer, pending, phase2)
         /\ ~UnderWay(toZnc', toServer) /\ paused = 1 /\ mech # 0
  BY ReceiveToken, HeadKinds DEF Token

\* The next line of the authentication is sent.
LEMMA GoOnToken ==
  ASSUME Base, Token, saslStable, NEW cmd \in {"AUTHENTICATE", "904"}, Receives(cmd),
         NEW s \in {"MECH", "DATA"}, toServer' = Append(toServer, Line(s, {})),
         UNCHANGED <<pending, phase2, paused, saslStable>>, mech' # 0
  PROVE  Token'
<1> DEFINE x == Line(s, {})
<1>1. x \in ServerLines /\ x \in Lines /\ x.cmd = s  BY ServerLineFacts, LineFacts
<1>2. toServer' = Append(toServer, x) /\ toServer \in Seq(ServerLines)  BY DEF Base
<1> HIDE DEF x
<1>3. OneToken(toZnc', toServer', pending, phase2)
  <2>1. OneToken(toZnc', toServer, pending, phase2) /\ Granted(toZnc', toServer, pending, phase2)
    BY AnswerToken
  <2>2. OneToken(toZnc', Append(toServer, x), pending, phase2)  BY <1>1, <1>2, <2>1, GrantFacts
  <2> QED  BY <1>2, <2>2
<1>4. x \in AuthS  BY <1>1 DEF AuthS, Of
<1>5. UnderWay(toZnc', toServer')  BY <1>1, <1>2, <1>4, AnyAppend DEF UnderWay
<1>6. OneToken(toZnc', toServer', pending', phase2') /\ paused' = 1  BY <1>3, AnswerToken
<1> QED  BY <1>5, <1>6 DEF Token

LEMMA ResumeToken ==
  ASSUME Base, Token, saslStable, NEW cmd \in {"903", "904", "907"}, Receives(cmd), ResumeCap,
         UNCHANGED <<mech, saslStable>>
  PROVE  Token'
<1>1. paused' = 0 /\ SendNextCap(pending, phase2, 0, toServer)
  BY AnswerToken, PauseArithmetic DEF ResumeCap
<1>2. pending \in SUBSET Wanted /\ phase2 \in SUBSET Wanted /\ toServer \in Seq(ServerLines)
  BY DEF Base, Scalars
<1>3. OneToken(toZnc', toServer, pending, phase2) /\ ~UnderWay(toZnc', toServer)  BY AnswerToken
<1>4. OneToken(toZnc', toServer', pending', phase2') /\ ~UnderWay(toZnc', toServer')
  BY <1>1, <1>2, <1>3, SendToken
<1> QED  BY <1>1, <1>4 DEF Token

LEMMA ZncToken == ASSUME Base, Token, ZncStep PROVE Token'
<1>0. CASE ~saslStable
  <2>1. saslStable' = saslStable
    BY DEF ZncStep, OnAvailable, OnAck, OnNak, OnDel, RemoveCaps, OnAuthenticate, OnSaslSuccess,
           OnSaslFailure, OnSaslAborted, OnWelcome, serverVars
  <2> QED  BY <1>0, <2>1 DEF Token
<1> SUFFICES ASSUME saslStable PROVE Token'
  BY <1>0
<1>1. CASE OnDel  BY <1>1, RemoveCapsToken DEF OnDel
<1>2. CASE OnAuthenticate
  <2>1. Receives("AUTHENTICATE") /\ UNCHANGED <<zncVars, saslStable>>  BY <1>2 DEF OnAuthenticate, serverVars
  <2>2. mech # 0  BY <2>1, AnswerToken
  <2>3. toServer' = Append(toServer, Line("DATA", {}))  BY <1>2, <2>2 DEF OnAuthenticate
  <2> QED  BY <2>1, <2>2, <2>3, GoOnToken DEF zncVars, capVars, saslVars
<1>3. ASSUME NEW cmd \in {"903", "907"}, OnSaslSuccess(cmd) PROVE Token'
  <2>1. Receives(cmd) /\ UNCHANGED <<mech, saslStable>>  BY <1>3 DEF OnSaslSuccess, serverVars
  <2>2. mech # 0  BY <2>1, AnswerToken
  <2>3. ResumeCap  BY <1>3, <2>2 DEF OnSaslSuccess
  <2> QED  BY <2>1, <2>3, ResumeToken
<1>4. CASE OnSaslFailure
  <2>1. Receives("904") /\ saslStable' = saslStable  BY <1>4 DEF OnSaslFailure, serverVars
  <2>2. mech # 0  BY <2>1, AnswerToken
  <2>3. CASE mech < NumMechs
    <3>1. /\ mech' = mech + 1 /\ toServer' = Append(toServer, Line("MECH", {}))
          /\ UNCHANGED <<pending, phase2, paused>>
      BY <1>4, <2>2, <2>3 DEF OnSaslFailure
    <3>2. mech' # 0  BY <3>1, CountsAssumption DEF Base, Scalars
    <3> QED  BY <2>1, <3>1, <3>2, GoOnToken
  <2>4. CASE ~(mech < NumMechs)
    <3>1. ResumeCap /\ mech' = mech  BY <1>4, <2>2, <2>4 DEF OnSaslFailure
    <3> QED  BY <2>1, <3>1, ResumeToken
  <2> QED  BY <2>3, <2>4
<1>5. CASE OnSaslAborted
  <2>1. Receives("906") /\ UNCHANGED <<toServer, capVars, saslVars, saslStable>>
    BY <1>5 DEF OnSaslAborted, serverVars
  <2> QED  BY <2>1, HeadKinds, TakeKeepsToken DEF capVars, saslVars
<1>6. CASE OnWelcome
  <2>1. Receives("001") /\ UNCHANGED <<toServer, capVars, saslVars, saslStable>>
    BY <1>6 DEF OnWelcome, serverVars
  <2> QED  BY <2>1, HeadKinds, TakeKeepsToken DEF capVars, saslVars
<1> QED  BY <1>1, <1>2, <1>3, <1>4, <1>5, <1>6, OnAvailableToken, OnAckToken, OnNakToken DEF ZncStep

\* The server reads a line.
LEMMA ReadToken ==
  ASSUME Base, NEW cmd, NEW lines, Answers(cmd, lines), OneToken(toZnc, toServer, pending, phase2)
  PROVE  /\ OneToken(toZnc, toServer', pending, phase2)
         /\ Head(toServer) \in TokS => Granted(toZnc, toServer', pending, phase2)
         /\ Head(toServer) \in TokS => ~UnderWay(toZnc, toServer')
         /\ Head(toServer) \in AuthS => UnderWay(toZnc, toServer)
         /\ Head(toServer) \notin AuthS => (UnderWay(toZnc, toServer') <=> UnderWay(toZnc, toServer))
<1>1. /\ Any(toServer, TokS) <=> Head(toServer) \in TokS \/ Any(toServer', TokS)
      /\ Once(toServer', TokS) /\ (Head(toServer) \in TokS => ~Any(toServer', TokS))
  BY Read DEF OneToken
<1>2. Any(toServer, AuthS) <=> Head(toServer) \in AuthS \/ Any(toServer', AuthS)  BY Read
<1>3. OneToken(toZnc, toServer', pending, phase2)  BY <1>1 DEF OneToken
<1>4. Head(toServer) \in TokS => Granted(toZnc, toServer', pending, phase2)
  BY <1>1 DEF OneToken, Granted
<1>5. Head(toServer) \in TokS => ~UnderWay(toZnc, toServer')
  BY <1>4, AuthIsToken DEF Granted, UnderWay
<1> QED  BY <1>2, <1>3, <1>4, <1>5 DEF UnderWay

\* The server sends a line: one that needs the token, if it has it, or another.
LEMMA PutToken ==
  ASSUME NEW q \in Seq(ZncLines), NEW sl, NEW pend, NEW ph2, OneToken(q, sl, pend, ph2),
         NEW x \in ZncLines, x \notin Naming({"NEW"}, Sasl),
         x \in TokZ => Granted(q, sl, pend, ph2)
  PROVE  /\ OneToken(Append(q, x), sl, pend, ph2)
         /\ UnderWay(Append(q, x), sl) <=> x \in AuthZ \/ UnderWay(q, sl)
<1>1. /\ Any(Append(q, x), TokZ) <=> x \in TokZ \/ Any(q, TokZ)
      /\ Any(Append(q, x), AuthZ) <=> x \in AuthZ \/ Any(q, AuthZ)
      /\ ~Any(Append(q, x), Naming({"NEW"}, Sasl))
  BY AnyAppend DEF OneToken
<1>2. Once(Append(q, x), TokZ)  BY OnceAppend DEF OneToken, Granted
<1> QED  BY <1>1, <1>2 DEF OneToken, Granted, UnderWay

LEMMA LsToken == ASSUME Base, Token, saslStable, ServerLs PROVE Token'
<1>1. /\ stage = "new" /\ toZnc = <<>> /\ toServer' = <<>> /\ saslStable' = saslStable
      /\ UNCHANGED zncVars
  BY LsStep
<1>2. pending = {} /\ phase2 = {} /\ paused = 0 /\ toZnc \in Seq(ZncLines)  BY <1>1 DEF Base, StartOnly
<1>3. /\ OneToken(toZnc, toServer', pending, phase2) /\ Granted(toZnc, toServer', pending, phase2)
      /\ ~UnderWay(toZnc, toServer')
  BY <1>1, <1>2, EmptyLine DEF OneToken, Granted, UnderWay
<1>4. PICK S \in SUBSET offers : LsSent(S)  BY LsStep
<1> DEFINE x == Line("LS*", S)
           y == Line("LS", offers \ S)
           z == Line("LS", S)
<1>5. x \in ZncLines /\ y \in ZncLines /\ z \in ZncLines
  BY <1>4, ZncLineFacts DEF Base, Scalars
<1>6. /\ x \in Lines /\ x.cmd = "LS*" /\ x.caps = S
      /\ y \in Lines /\ y.cmd = "LS" /\ y.caps = offers \ S
      /\ z \in Lines /\ z.cmd = "LS" /\ z.caps = S
  BY <1>5, ZncLineFacts, LineFacts
<1>7. toZnc' = Append(toZnc, z) \/ toZnc' = Append(Append(toZnc, x), y)  BY <1>4 DEF LsSent
<1> HIDE DEF x, y, z
<1>8. /\ x \notin AuthZ /\ y \notin AuthZ /\ z \notin AuthZ
      /\ x \notin Naming({"NEW"}, Sasl) /\ y \notin Naming({"NEW"}, Sasl) /\ z \notin Naming({"NEW"}, Sasl)
      /\ x \in TokZ <=> Sasl \in S
      /\ y \in TokZ <=> Sasl \in offers \ S
  BY <1>6 DEF AuthZ, TokZ, Of, Naming
<1>9. CASE toZnc' = Append(toZnc, z)
  <2>1. OneToken(toZnc', toServer', pending, phase2) /\ ~UnderWay(toZnc', toServer')
    BY <1>2, <1>3, <1>5, <1>8, <1>9, PutToken
  <2>2. OneToken(toZnc', toServer', pending', phase2') /\ paused' = 0
    BY <1>1, <1>2, <2>1 DEF zncVars, capVars
  <2> QED  BY <2>1, <2>2 DEF Token
<1>10. CASE toZnc' = Append(Append(toZnc, x), y)
  <2> DEFINE q == Append(toZnc, x)
  <2>1. q \in Seq(ZncLines) /\ OneToken(q, toServer', pending, phase2) /\ ~UnderWay(q, toServer')
    BY <1>2, <1>3, <1>5, <1>8, PutToken, AppendDomain
  <2>2. Any(q, TokZ) <=> x \in TokZ  BY <1>2, <1>3, <1>5, AnyAppend DEF Granted
  <2>3. toZnc' = Append(q, y)  BY <1>10
  <2> HIDE DEF q
  <2>4. y \in TokZ => Granted(q, toServer', pending, phase2)  BY <1>3, <1>8, <2>2 DEF Granted
  <2>5. OneToken(toZnc', toServer', pending, phase2) /\ ~UnderWay(toZnc', toServer')
    BY <1>5, <1>8, <2>1, <2>3, <2>4, PutToken
  <2>6. OneToken(toZnc', toServer', pending', phase2') /\ paused' = 0
    BY <1>1, <1>2, <2>5 DEF zncVars, capVars
  <2> QED  BY <2>5, <2>6 DEF Token
<1> QED  BY <1>7, <1>9, <1>10

LEMMA ReqToken == ASSUME Base, Token, saslStable, ServerReq PROVE Token'
<1> DEFINE m == Head(toServer)
           S == m.caps
           x == ReqAnswer(S)
<1>1. /\ m.cmd = "REQ" /\ m \in Lines /\ x \in ZncLines /\ toZnc' = Append(toZnc, x)
      /\ UNCHANGED <<zncVars, saslStable>>
  BY ReqStep
<1>2. x \in Lines /\ x.caps = S /\ x.cmd \in {"ACK", "NAK"} /\ toZnc \in Seq(ZncLines)
  BY <1>1, ZncLineFacts, LineFacts DEF ReqAnswer, Base
<1>3. PICK lines : Answers("REQ", lines)  BY DEF ServerReq
<1> HIDE DEF x
<1>4. /\ m \notin AuthS /\ (m \in TokS <=> Sasl \in S)
      /\ x \notin AuthZ /\ (x \in TokZ <=> Sasl \in S) /\ x \notin Naming({"NEW"}, Sasl)
  BY <1>1, <1>2 DEF AuthS, TokS, AuthZ, TokZ, Of, Naming
<1>5. /\ OneToken(toZnc, toServer', pending, phase2)
      /\ m \in TokS => Granted(toZnc, toServer', pending, phase2)
      /\ UnderWay(toZnc, toServer') <=> UnderWay(toZnc, toServer)
  BY <1>3, <1>4, ReadToken DEF Token
<1>6. /\ OneToken(toZnc', toServer', pending, phase2)
      /\ UnderWay(toZnc', toServer') <=> UnderWay(toZnc, toServer)
  BY <1>1, <1>2, <1>4, <1>5, PutToken
<1>7. OneToken(toZnc', toServer', pending', phase2') /\ UNCHANGED <<paused, mech, saslStable>>
  BY <1>1, <1>6 DEF zncVars, capVars, saslVars
<1> QED  BY <1>6, <1>7 DEF Token

LEMMA AuthenticateToken ==
  ASSUME Base, Token, saslStable, NEW cmd \in {"MECH", "DATA"}, ServerAuthenticate(cmd)
  PROVE  Token'
<1> DEFINE m == Head(toServer)
<1>1. m.cmd = cmd /\ m \in Lines /\ UNCHANGED <<zncVars, saslStable>>  BY AuthenticateStep
<1>2. PICK r \in {"AUTHENTICATE", "903", "904", "907"} : toZnc' = Append(toZnc, Line(r, {}))
  BY AuthenticateStep
<1> DEFINE x == Line(r, {})
<1>3. x \in ZncLines /\ x \in Lines /\ x.cmd = r /\ toZnc \in Seq(ZncLines)
  BY ZncLineFacts, LineFacts DEF Base
<1>4. PICK lines : Answers(cmd, lines)  BY DEF ServerAuthenticate
<1>5. toZnc' = Append(toZnc, x)  BY <1>2
<1> HIDE DEF x
<1>6. m \in AuthS /\ m \in TokS /\ x \in AuthZ /\ x \notin Naming({"NEW"}, Sasl)
  BY <1>1, <1>3 DEF AuthS, TokS, AuthZ, Of, Naming
<1>7. /\ OneToken(toZnc, toServer', pending, phase2) /\ Granted(toZnc, toServer', pending, phase2)
      /\ UnderWay(toZnc, toServer)
  BY <1>4, <1>6, ReadToken DEF Token
<1>8. OneToken(toZnc', toServer', pending, phase2) /\ UnderWay(toZnc', toServer')
  BY <1>3, <1>5, <1>6, <1>7, PutToken
<1>9. OneToken(toZnc', toServer', pending', phase2') /\ paused' = 1 /\ mech' # 0
  BY <1>1, <1>7, <1>8 DEF zncVars, capVars, saslVars, Token
<1> QED  BY <1>8, <1>9 DEF Token

\* CAP END, and the start of a registration without capabilities.
LEMMA PlainToken ==
  ASSUME Base, Token, saslStable, NEW cmd \in {"END", "LS"}, NEW lines, Answers(cmd, lines),
         \/ toZnc' = toZnc
         \/ toZnc' = Append(toZnc, Line("001", {}))
         \/ toZnc' = Append(Append(toZnc, Line("906", {})), Line("001", {})),
         UNCHANGED <<zncVars, saslStable>>
  PROVE  Token'
<1> DEFINE x == Line("906", {})
           y == Line("001", {})
<1>1. /\ x \in ZncLines /\ x.cmd = "906" /\ y \in ZncLines /\ y.cmd = "001"
      /\ toZnc \in Seq(ZncLines)
  BY ZncLineFacts, LineFacts DEF Base
<1>2. toZnc' \in {toZnc, Append(toZnc, y), Append(Append(toZnc, x), y)}  OBVIOUS
<1> HIDE DEF x, y
<1>3. /\ x \notin AuthZ /\ x \notin TokZ /\ x \notin Naming({"NEW"}, Sasl)
      /\ y \notin AuthZ /\ y \notin TokZ /\ y \notin Naming({"NEW"}, Sasl)
  BY <1>1 DEF AuthZ, TokZ, Of, Naming
<1>4. Head(toServer) \notin AuthS  BY AnswerFacts DEF AuthS, Of
<1>5. /\ OneToken(toZnc, toServer', pending, phase2)
      /\ UnderWay(toZnc, toServer') <=> UnderWay(toZnc, toServer)
  BY <1>4, ReadToken DEF Token
<1>6. \A q \in Seq(ZncLines) : OneToken(q, toServer', pending, phase2)
        => /\ OneToken(Append(q, x), toServer', pending, phase2)
           /\ OneToken(Append(q, y), toServer', pending, phase2)
           /\ UnderWay(Append(q, x), toServer') <=> UnderWay(q, toServer')
           /\ UnderWay(Append(q, y), toServer') <=> UnderWay(q, toServer')
  BY <1>1, <1>3, PutToken
<1>7. Append(toZnc, x) \in Seq(ZncLines)  BY <1>1, AppendDomain
<1>8. /\ OneToken(toZnc', toServer', pending, phase2)
      /\ UnderWay(toZnc', toServer') <=> UnderWay(toZnc, toServer)
  <2>1. CASE toZnc' = toZnc  BY <1>5, <2>1
  <2>2. CASE toZnc' = Append(toZnc, y)  BY <1>1, <1>5, <1>6, <2>2
  <2>3. CASE toZnc' = Append(Append(toZnc, x), y)
    <3>1. /\ OneToken(Append(toZnc, x), toServer', pending, phase2)
          /\ UnderWay(Append(toZnc, x), toServer') <=> UnderWay(toZnc, toServer)
      BY <1>1, <1>5, <1>6
    <3> QED  BY <1>6, <1>7, <2>3, <3>1
  <2> QED  BY <1>2, <2>1, <2>2, <2>3
<1>9. OneToken(toZnc', toServer', pending', phase2') /\ UNCHANGED <<paused, mech, saslStable>>
  BY <1>8 DEF zncVars, capVars, saslVars
<1> QED  BY <1>8, <1>9 DEF Token

\* CAP NEW and CAP DEL of another capability.
LEMMA ChangeToken ==
  ASSUME Base, Token, saslStable, NEW c \in Caps, ServerNew(c) \/ ServerDel(c)
  PROVE  Token'
<1>1. CASE c = Sasl  BY <1>1 DEF Token, ServerNew, ServerDel
<1>2. CASE c # Sasl
  <2>1. PICK cmd \in {"NEW", "DEL"} : toZnc' = Append(toZnc, Line(cmd, {c}))
    BY <1>2, NewStep, DelStep
  <2> DEFINE x == Line(cmd, {c})
  <2>2. x \in ZncLines /\ x.cmd = cmd /\ x.caps = {c} /\ toZnc \in Seq(ZncLines)
    BY ZncLineFacts, LineFacts DEF Base
  <2>3. toZnc' = Append(toZnc, x)  BY <2>1
  <2> HIDE DEF x
  <2>4. x \notin AuthZ /\ x \notin TokZ /\ x \notin Naming({"NEW"}, Sasl)
    BY <1>2, <2>2 DEF AuthZ, TokZ, Of, Naming
  <2>5. /\ OneToken(toZnc', toServer, pending, phase2)
        /\ UnderWay(toZnc', toServer) <=> UnderWay(toZnc, toServer)
    BY <2>2, <2>3, <2>4, PutToken DEF Token
  <2>6. UNCHANGED <<toServer, pending, phase2, paused, mech>>
    BY DEF ServerNew, ServerDel, zncVars, capVars, saslVars
  <2>7. /\ OneToken(toZnc', toServer', pending', phase2')
        /\ UnderWay(toZnc', toServer') <=> UnderWay(toZnc, toServer)
    BY <2>5, <2>6
  <2> QED  BY <2>6, <2>7 DEF Token
<1> QED  BY <1>1, <1>2

LEMMA NextToken == ASSUME Base, Token, [Next]_vars PROVE Token'
<1>1. CASE Reconnect
  <2>1. /\ toServer' = <<Line("LS", {})>> /\ toZnc' = <<>> /\ pending' = {} /\ phase2' = {} /\ paused' = 0
    BY <1>1 DEF Reconnect
  <2>2. OneToken(<<>>, <<Line("LS", {})>>, {}, {}) /\ ~UnderWay(<<>>, <<Line("LS", {})>>)
    <3>1. Line("LS", {}).cmd = "LS"  BY LineFacts
    <3> QED  BY <3>1, EmptyLine DEF OneToken, UnderWay, Any, Once, AuthS, Of
  <2> QED  BY <2>1, <2>2 DEF Token
<1>2. CASE UNCHANGED vars
  BY <1>2 DEF Token, OneToken, UnderWay, vars, zncVars, capVars, saslVars, serverVars
<1>3. CASE ~saslStable /\ ~Reconnect /\ Next
  <2>1. saslStable' => saslStable
    BY <1>3 DEF Next, ZncStep, ServerReply, OnAvailable, OnAck, OnNak, OnDel, RemoveCaps, OnAuthenticate,
       OnSaslSuccess, OnSaslFailure, OnSaslAborted, OnWelcome, ServerLs, ServerWithoutCap, ServerReq,
       ServerEnd, ServerAuthenticate, ServerNew, ServerDel, serverVars
  <2> QED  BY <1>3, <2>1 DEF Token
<1>4. CASE saslStable /\ ServerWithoutCap
  <2>1. PICK lines : Answers("LS", lines)  BY <1>4 DEF ServerWithoutCap
  <2> QED  BY <1>4, <2>1, WithoutCapStep, PlainToken
<1>5. CASE saslStable /\ ServerEnd
  <2>1. PICK lines : Answers("END", lines)  BY <1>5 DEF ServerEnd
  <2> QED  BY <1>5, <2>1, EndStep, PlainToken
<1> QED
  BY <1>1, <1>2, <1>3, <1>4, <1>5, ZncToken, LsToken, ReqToken, AuthenticateToken, ChangeToken
  DEF Next, ServerReply

\* The token makes the counter exact.
LEMMA TokenPauses == ASSUME Base, Token PROVE PausesBalanced
<1>1. AuthUnderWay <=> UnderWay(toZnc, toServer)
  <2>1. /\ toServer \in Seq(Lines) /\ toZnc \in Seq(Lines)  BY BaseType DEF TypeOK
  <2>2. /\ \A i \in DOMAIN toServer : toServer[i] \in Lines
        /\ \A i \in DOMAIN toZnc : toZnc[i] \in Lines
    BY <2>1
  <2>3. Has(toServer, {"MECH", "DATA"}) <=> Any(toServer, AuthS)  BY <2>2 DEF Has, Any, AuthS, Of
  <2>4. Has(toZnc, {"AUTHENTICATE", "903", "904", "907"}) <=> Any(toZnc, AuthZ)
    BY <2>2 DEF Has, Any, AuthZ, Of
  <2> QED  BY <2>3, <2>4 DEF AuthUnderWay, UnderWay
<1> QED  BY <1>1 DEF Token, PausesBalanced

LEMMA InitToken == Init => Token
<1> SUFFICES ASSUME Init PROVE Token
  OBVIOUS
<1>1. Line("LS", {}).cmd = "LS"  BY LineFacts
<1>2. OneToken(<<>>, <<Line("LS", {})>>, {}, {}) /\ ~UnderWay(<<>>, <<Line("LS", {})>>)
  BY <1>1, EmptyLine DEF OneToken, UnderWay, Any, Once, AuthS, Of
<1> QED  BY <1>2 DEF Init, Token

\* "Each call to PauseCap should be balanced with a call to ResumeCap", for every
\* number of mechanisms and every width of m_uCapPaused: the negotiation is paused
\* exactly while an authentication is under way, if the server leaves sasl alone.
THEOREM CapPausesBalanced == Spec => []PausesBalanced
<1>1. Init => Base /\ Token  BY InitBase, InitToken
<1>2. Base /\ Token /\ [Next]_vars => (Base /\ Token)'  BY NextBase, NextToken
<1>3. Base /\ Token => PausesBalanced  BY TokenPauses
<1> QED  BY <1>1, <1>2, <1>3, PTL DEF Spec
-----------------------------------------------------------------------------
(* CAP END *)

\* At most one line, or two of which the first asks for no answer.
Lone(q) == q = <<>> \/ Tail(q) = <<>>
Short(q) == Lone(q) \/ (Head(q).cmd \in {"LS*", "906"} /\ Tail(Tail(q)) = <<>>)

\* Until the server announces a change, the two take turns.
Turns == Lone(toServer) /\ Short(toZnc) /\ (toServer = <<>> \/ toZnc = <<>>)
Lock == changes = 0 => saslStable /\ Turns

LEMMA FirstLine ==
  ASSUME NEW x, NEW y
  PROVE  /\ Lone(<<>>) /\ Short(<<>>) /\ Lone(Append(<<>>, x)) /\ Short(Append(<<>>, x))
         /\ x.cmd \in {"LS*", "906"} => Short(Append(Append(<<>>, x), y))
<1>1. Append(<<>>, x) = <<x>> /\ Tail(<<x>>) = <<>>  OBVIOUS
<1>2. <<x>> \in Seq({x, y}) /\ <<x>> # <<>> /\ Head(<<x>>) = x  OBVIOUS
<1>3. Head(Append(<<x>>, y)) = x /\ Tail(Append(<<x>>, y)) = Append(<<>>, y)
  BY <1>1, <1>2, HeadTailAppend
<1>4. Tail(Append(<<>>, y)) = <<>>  OBVIOUS
<1> QED  BY <1>1, <1>3, <1>4 DEF Lone, Short

\* A line from the server arrives: it is ZNC's turn, and it was the only line
\* unless another one belongs to it.
LEMMA ReceiveLock ==
  ASSUME Base, Lock, changes = 0, NEW cmd, Receives(cmd)
  PROVE  /\ saslStable /\ toServer = <<>> /\ Lone(toZnc') /\ Short(toZnc')
         /\ cmd \notin {"LS*", "906"} => toZnc' = <<>>
<1>1. toZnc # <<>> /\ toZnc' = Tail(toZnc) /\ Head(toZnc).cmd = cmd  BY ReceiveFacts
<1> QED  BY <1>1 DEF Lock, Turns, Lone, Short

\* ZNC's answer is one line, or none.
LEMMA SendLock ==
  ASSUME NEW pend \in SUBSET Wanted, NEW ph2 \in SUBSET Wanted, NEW pause,
         NEW lines \in Seq(ServerLines), SendNextCap(pend, ph2, pause, lines)
  PROVE  /\ lines = <<>> => Lone(toServer')
         /\ pause # 0 => toServer' = lines
<1>1. \A x : lines = <<>> => Lone(Append(lines, x))  BY FirstLine
<1>2. CASE Silent(pend, ph2, pause, lines)  BY <1>2 DEF Silent, Lone
<1>3. CASE Ends(pend, ph2, pause, lines)  BY <1>1, <1>3 DEF Ends
<1>4. CASE \E S \in SUBSET Wanted : Requests(pend, ph2, pause, lines, S)  BY <1>1, <1>4 DEF Requests
<1> QED  BY <1>2, <1>3, <1>4, SendCases

LEMMA ZncLock == ASSUME Base, Lock, Token, ZncStep PROVE Lock'
<1>0. UNCHANGED <<changes, saslStable>>
  BY DEF ZncStep, OnAvailable, OnAck, OnNak, OnDel, RemoveCaps, OnAuthenticate, OnSaslSuccess,
         OnSaslFailure, OnSaslAborted, OnWelcome, serverVars
<1> SUFFICES ASSUME changes = 0 PROVE Turns'
  BY <1>0 DEF Lock
<1>1. ASSUME NEW cmd, Receives(cmd), UNCHANGED toServer PROVE Turns'
  BY <1>1, ReceiveLock DEF Turns, Lone
<1>2. ASSUME NEW cmd, Receives(cmd), cmd \notin {"LS*", "906"}, Lone(toServer') PROVE Turns'
  BY <1>2, ReceiveLock DEF Turns
<1>3. ASSUME NEW cmd, Receives(cmd), cmd \notin {"LS*", "906"},
             NEW pend \in SUBSET Wanted, NEW ph2 \in SUBSET Wanted, NEW pause,
             SendNextCap(pend, ph2, pause, toServer)
      PROVE  Turns'
  <2>1. toServer = <<>> /\ toServer \in Seq(ServerLines)  BY <1>3, ReceiveLock DEF Base
  <2>2. Lone(toServer')  BY <1>3, <2>1, SendLock
  <2> QED  BY <1>2, <1>3, <2>2
<1>4. ASSUME NEW cmd, Receives(cmd), cmd \notin {"LS*", "906"}, NEW x, toServer' = Append(toServer, x)
      PROVE  Turns'
  <2>1. Lone(toServer')  BY <1>4, ReceiveLock, FirstLine
  <2> QED  BY <1>2, <1>4, <2>1
<1>5. pending \in SUBSET Wanted /\ phase2 \in SUBSET Wanted  BY DEF Base, Scalars
<1>6. ASSUME NEW cmd \in {"LS", "LS*", "NEW"}, OnAvailable(cmd) PROVE Turns'
  <2> DEFINE new == Requestable(Head(toZnc).caps)
  <2>1. CASE cmd = "LS*"  BY <1>1, <1>6, <2>1 DEF OnAvailable
  <2>2. CASE cmd # "LS*"
    <3>1. Receives(cmd) /\ SendNextCap(pending \cup new, phase2, paused, toServer)
      BY <1>6, <2>2 DEF OnAvailable
    <3>2. pending \cup new \in SUBSET Wanted  BY <1>5 DEF Requestable
    <3> HIDE DEF new
    <3> QED  BY <1>3, <1>5, <1>6, <2>2, <3>1, <3>2
  <2> QED  BY <2>1, <2>2
<1>7. CASE OnAck
  <2> DEFINE S == Head(toZnc).caps
  <2>1. Receives("ACK")  BY <1>7 DEF OnAck
  <2>2. CASE Sasl \notin S
    <3>1. SendNextCap(pending, phase2, paused, toServer)  BY <1>7, <2>2 DEF OnAck, AckResult
    <3> QED  BY <1>3, <1>5, <2>1, <3>1
  <2>3. CASE Sasl \in S
    <3>1. saslStable /\ toServer \in Seq(ServerLines)  BY <2>1, ReceiveLock DEF Base
    <3>2. paused = 0
      <4>1. /\ Head(toZnc) \notin AuthZ
            /\ Head(toZnc) \in TokZ
        BY <2>1, <2>3, HeadKinds
      <4> QED  BY <2>1, <3>1, <4>1, ReceiveToken DEF Token
    <3> DEFINE sentOn == Append(toServer, Line("MECH", {}))
    <3>3. SendNextCap(pending, phase2, 1, sentOn)
      BY <1>7, <2>3, <3>2, PauseArithmetic DEF OnAck, AckResult
    <3>4. sentOn \in Seq(ServerLines)  BY <3>1, ServerLineFacts, AppendDomain
    <3> HIDE DEF sentOn
    <3>5. toServer' = sentOn  BY <1>5, <3>3, <3>4, SendLock
    <3> QED  BY <1>4, <2>1, <3>5 DEF sentOn
  <2> QED  BY <2>2, <2>3
<1>8. ASSUME NEW cmd \in {"NAK", "DEL"}, Receives(cmd), NEW S, RemoveCaps(S) PROVE Turns'
  <2>1. pending \ S \in SUBSET Wanted  BY <1>5
  <2> QED  BY <1>3, <1>5, <1>8, <2>1 DEF RemoveCaps
<1>9. CASE OnNak
  <2> DEFINE S == Head(toZnc).caps
  <2>1. Receives("NAK") /\ (RemoveCaps(S) \/ SendNextCap(pending, phase2 \cup S, paused, toServer))
    BY <1>9 DEF OnNak
  <2>2. phase2 \cup S \in SUBSET Wanted  BY <1>5, <2>1, ReceiveFacts
  <2> HIDE DEF S
  <2> QED  BY <1>3, <1>5, <1>8, <2>1, <2>2
<1>10. CASE OnDel  BY <1>8, <1>10 DEF OnDel
<1>11. CASE OnAuthenticate  BY <1>1, <1>4, <1>11 DEF OnAuthenticate
<1>12. ASSUME NEW cmd \in {"903", "904", "907"}, Receives(cmd), ResumeCap PROVE Turns'
  BY <1>3, <1>5, <1>12 DEF ResumeCap
<1>13. ASSUME NEW cmd \in {"903", "907"}, OnSaslSuccess(cmd) PROVE Turns'
  BY <1>1, <1>12, <1>13 DEF OnSaslSuccess
<1>14. CASE OnSaslFailure  BY <1>1, <1>4, <1>12, <1>14 DEF OnSaslFailure
<1>15. CASE OnSaslAborted  BY <1>1, <1>15 DEF OnSaslAborted
<1>16. CASE OnWelcome  BY <1>1, <1>16 DEF OnWelcome
<1> QED  BY <1>6, <1>7, <1>9, <1>10, <1>11, <1>13, <1>14, <1>15, <1>16 DEF ZncStep

LEMMA NextLock == ASSUME Base, Lock, Token, [Next]_vars PROVE Lock'
<1>0. ASSUME NEW cmd, NEW lines, Answers(cmd, lines), changes = 0
      PROVE  saslStable /\ toZnc = <<>> /\ toServer' = <<>> /\ Lone(toServer')
  BY <1>0, AnswerFacts DEF Lock, Turns, Lone
<1>1. CASE ServerLs
  <2>1. PICK S \in SUBSET offers : LsSent(S)  BY <1>1, LsStep
  <2>2. toZnc = <<>> /\ toServer' = <<>> /\ UNCHANGED <<saslStable, changes>>  BY <1>1, LsStep
  <2>3. Short(toZnc')
    <3>1. Line("LS*", S).cmd = "LS*"  BY LineFacts
    <3> QED  BY <2>1, <2>2, <3>1, FirstLine DEF LsSent
  <2> QED  BY <2>2, <2>3 DEF Lock, Turns, Lone
<1>2. CASE ServerWithoutCap
  <2>1. /\ toZnc = <<>> /\ toServer' = <<>> /\ saslStable' = saslStable /\ changes' = MaxChanges
        /\ toZnc' = Append(toZnc, Line("001", {}))
    BY <1>2, WithoutCapStep
  <2>2. changes' = 0 => changes = 0  BY <2>1, CountsAssumption DEF Base, Scalars
  <2>3. Short(toZnc')  BY <2>1, FirstLine
  <2> QED  BY <2>1, <2>2, <2>3 DEF Lock, Turns, Lone
<1>3. CASE ServerReq
  <2>1. PICK lines : Answers("REQ", lines)  BY <1>3 DEF ServerReq
  <2>2. (\E x : toZnc' = Append(toZnc, x)) /\ UNCHANGED <<saslStable, changes>>  BY <1>3, ReqStep
  <2> QED  BY <1>0, <2>1, <2>2, FirstLine DEF Lock, Turns
<1>4. CASE ServerEnd
  <2>1. PICK lines : Answers("END", lines)  BY <1>4 DEF ServerEnd
  <2>2. UNCHANGED <<saslStable, changes>>  BY <1>4, EndStep
  <2>3. changes = 0 => Short(toZnc')
    <3>1. Line("906", {}).cmd = "906"  BY LineFacts
    <3> QED  BY <1>0, <1>4, <2>1, <3>1, EndStep, FirstLine
  <2> QED  BY <1>0, <2>1, <2>2, <2>3 DEF Lock, Turns
<1>5. ASSUME NEW cmd \in {"MECH", "DATA"}, ServerAuthenticate(cmd) PROVE Lock'
  <2>1. PICK lines : Answers(cmd, lines)  BY <1>5 DEF ServerAuthenticate
  <2>2. (\E x : toZnc' = Append(toZnc, x)) /\ UNCHANGED <<saslStable, changes>>
    BY <1>5, AuthenticateStep
  <2> QED  BY <1>0, <2>1, <2>2, FirstLine DEF Lock, Turns
<1>6. ASSUME NEW c \in Caps, ServerNew(c) \/ ServerDel(c) PROVE Lock'
  <2>1. changes' = changes + 1  BY <1>6 DEF ServerNew, ServerDel
  <2>2. changes' # 0  BY <2>1, CountsAssumption DEF Base, Scalars
  <2> QED  BY <2>2 DEF Lock, Turns
<1>7. CASE Reconnect
  <2>1. Lone(<<Line("LS", {})>>) /\ Short(<<>>)  BY FirstLine
  <2> QED  BY <1>7, <2>1 DEF Reconnect, NewServer, Lock, Turns
<1>8. CASE UNCHANGED vars  BY <1>8 DEF Lock, Turns, Lone, Short, vars, serverVars
<1> QED  BY <1>1, <1>2, <1>3, <1>4, <1>5, <1>6, <1>7, <1>8, ZncLock DEF Next, ServerReply

LEMMA LockEnd == ASSUME Base, Lock PROVE EndComesLast
<1> SUFFICES ASSUME changes = 0, Has(toServer, {"END"})
             PROVE  toServer = <<Line("END", {})>> /\ toZnc = <<>> /\ ~AuthUnderWay
  BY DEF EndComesLast
<1>1. PICK i \in DOMAIN toServer : toServer[i].cmd = "END"  BY DEF Has
<1>2. toServer \in Seq(ServerLines) /\ toServer # <<>>  BY <1>1 DEF Base
<1>3. Tail(toServer) = <<>> /\ toZnc = <<>>  BY <1>2 DEF Lock, Turns, Lone
<1>4. Len(toServer) = 1 /\ DOMAIN toServer = 1..1
  <2>1. Len(Tail(toServer)) = Len(toServer) - 1 /\ Len(toServer) \in Nat
    BY <1>2, HeadTailProperties
  <2>2. Tail(toServer) \in Seq(ServerLines) /\ Len(Tail(toServer)) = 0
    BY <1>2, <1>3, TailDomain, EmptySeq
  <2>3. Len(toServer) = 1  BY <2>1, <2>2
  <2> QED  BY <1>2, <2>3
<1>5. toServer[1] \in ServerLines /\ toServer[1].cmd = "END"  BY <1>1, <1>2, <1>4
<1>6. toServer[1] = Line("END", {})  BY <1>5, ServerLineFacts
<1>7. toServer = <<Line("END", {})>>
  <2>1. toServer = <<toServer[1]>>  BY <1>2, <1>4
  <2> QED  BY <1>6, <2>1
<1>8. ~Has(toServer, {"MECH", "DATA"})  BY <1>4, <1>5 DEF Has
<1>9. ~Has(toZnc, {"AUTHENTICATE", "903", "904", "907"})  BY <1>3 DEF Has
<1> QED  BY <1>3, <1>7, <1>8, <1>9 DEF AuthUnderWay

\* "We already got all needed ACK/NAK replies": CAP END is sent once, alone and
\* after the end of an authentication, for every number of capabilities, however
\* they are split into requests (CIRCSock::SendNextCap).
THEOREM CapEndComesLast == Spec => []EndComesLast
<1>1. Init => Base /\ Token /\ Lock
  <2>1. Lone(<<Line("LS", {})>>) /\ Short(<<>>)  BY FirstLine
  <2> QED  BY <2>1, InitBase, InitToken DEF Init, Lock, Turns
<1>2. Base /\ Token /\ Lock /\ [Next]_vars => (Base /\ Token /\ Lock)'  BY NextBase, NextToken, NextLock
<1>3. Base /\ Lock => EndComesLast  BY LockEnd
<1> QED  BY <1>1, <1>2, <1>3, PTL DEF Spec
-----------------------------------------------------------------------------
(* Nothing is missed *)

News(c) == Naming({"NEW"}, c)
Offering(c) == Naming({"LS", "LS*", "NEW"}, c)
SplitNaks(c) == {m \in Lines : m.cmd = "NAK" /\ c \in m.caps /\ m.caps # {c}}

\* Capability c is in a list of ZNC's, or a line under way leads to a request for it.
AskedFor(zl, sl, pend, ph2, c) ==
  \/ c \in pend \/ c \in ph2 \/ Any(sl, Naming({"REQ"}, c))
  \/ Any(zl, SplitNaks(c)) \/ Any(zl, Offering(c))

\* A capability that the server offers is enabled or on its way to be, and what is
\* still under way against it is older than the last announcement.
Covered == \A c \in offers \cap Wanted :
             /\ Followed(toZnc, Removals(c), News(c))
             /\ stage = "new" \/ c \in enabled \/ AskedFor(toZnc, toServer, pending, phase2, c)

LEMMA FollowedAny == ASSUME NEW q, NEW M, NEW N, Followed(q, M, N), Any(q, M) PROVE Any(q, N)
  BY DEF Followed, Any

LEMMA NewsOffer == ASSUME NEW q, NEW c, Any(q, News(c)) PROVE Any(q, Offering(c))
  BY DEF Any, News, Offering, Naming

LEMMA SendCovered ==
  ASSUME NEW zl, NEW lines \in Seq(ServerLines), NEW pend \in SUBSET Wanted, NEW ph2 \in SUBSET Wanted,
         NEW pause, SendNextCap(pend, ph2, pause, lines), NEW c, AskedFor(zl, lines, pend, ph2, c)
  PROVE  AskedFor(zl, toServer', pending', phase2', c)
<1>1. CASE Silent(pend, ph2, pause, lines)  BY <1>1 DEF Silent
<1>2. CASE Ends(pend, ph2, pause, lines)
  <2>1. Line("END", {}) \in ServerLines  BY ServerLineFacts
  <2>2. Any(lines, Naming({"REQ"}, c)) => Any(toServer', Naming({"REQ"}, c))
    BY <1>2, <2>1, AnyAppend DEF Ends
  <2>3. c \notin pend /\ c \notin ph2  BY <1>2 DEF Ends
  <2> QED  BY <2>2, <2>3 DEF AskedFor
<1>3. ASSUME NEW S \in SUBSET Wanted, Requests(pend, ph2, pause, lines, S)
      PROVE  AskedFor(zl, toServer', pending', phase2', c)
  <2> DEFINE x == Line("REQ", S)
  <2>1. x \in ServerLines /\ x \in Lines /\ x.cmd = "REQ" /\ x.caps = S
    BY <1>3, ServerLineFacts, LineFacts DEF Requests
  <2>2. /\ toServer' = Append(lines, x)
        /\ \/ S \subseteq pend /\ pending' = pend \ S /\ phase2' = ph2
           \/ S \subseteq ph2 /\ pending' = pend /\ phase2' = ph2 \ S
    BY <1>3 DEF Requests
  <2> HIDE DEF x
  <2>3. c \in S => x \in Naming({"REQ"}, c)  BY <2>1 DEF Naming
  <2>4. Any(toServer', Naming({"REQ"}, c)) <=> x \in Naming({"REQ"}, c) \/ Any(lines, Naming({"REQ"}, c))
    BY <2>1, <2>2, AnyAppend
  <2>5. (c \in pend \/ c \in ph2) /\ c \notin S => c \in pending' \/ c \in phase2'  BY <2>2
  <2> QED  BY <2>3, <2>4, <2>5 DEF AskedFor
<1> QED  BY <1>1, <1>2, <1>3, SendCases

\* A line that ZNC receives takes away only what it says itself.
LEMMA ReceiveCovered ==
  ASSUME Base, Covered, NEW cmd, Receives(cmd), NEW c \in offers \cap Wanted, c \notin enabled
  PROVE  /\ Followed(toZnc', Removals(c), News(c))
         /\ Head(toZnc) \in Removals(c) => Any(toZnc', Offering(c))
         /\ Head(toZnc) \notin SplitNaks(c) /\ Head(toZnc) \notin Offering(c)
              => AskedFor(toZnc', toServer, pending, phase2, c)
<1>1. /\ Followed(toZnc, Removals(c), News(c))
      /\ AskedFor(toZnc, toServer, pending, phase2, c)
  BY ReceiveFacts DEF Covered
<1>2. /\ Followed(toZnc', Removals(c), News(c))
      /\ Head(toZnc) \in Removals(c) => Any(toZnc', News(c))
  BY <1>1, Received
<1>3. /\ Any(toZnc, SplitNaks(c)) <=> Head(toZnc) \in SplitNaks(c) \/ Any(toZnc', SplitNaks(c))
      /\ Any(toZnc, Offering(c)) <=> Head(toZnc) \in Offering(c) \/ Any(toZnc', Offering(c))
  BY Received
<1> QED  BY <1>1, <1>2, <1>3, NewsOffer DEF AskedFor

\* An announcement is lost on ZNC only if a later one is under way.
LEMMA AnnouncedCovered ==
  ASSUME Base, Synced, Covered, NEW cmd \in {"LS", "LS*", "NEW"}, Receives(cmd),
         NEW c \in offers \cap Wanted, c \notin enabled
  PROVE  AskedFor(toZnc', toServer, pending \cup Requestable(Head(toZnc).caps), phase2, c)
<1> DEFINE m == Head(toZnc)
           new == Requestable(m.caps)
<1>1. m \in Lines /\ m.cmd = cmd  BY ReceiveFacts
<1>2. m \notin SplitNaks(c) /\ m \notin Removals(c) /\ (m \in Offering(c) => c \in m.caps)
  BY <1>1 DEF SplitNaks, Removals, Offering, Naming
<1>3. CASE m \notin Offering(c)
  <2>1. AskedFor(toZnc', toServer, pending, phase2, c)  BY <1>2, <1>3, ReceiveCovered
  <2> QED  BY <2>1 DEF AskedFor
<1>4. CASE c \in new  BY <1>4 DEF AskedFor
<1>5. CASE m \in Offering(c) /\ c \notin new
  <2>1. c \in accepted  BY <1>2, <1>5 DEF Requestable
  <2>2. Any(toZnc, Removals(c))  BY <2>1, CapsAssumption DEF Synced, SaysOff
  <2>3. Any(toZnc', Removals(c))  BY <1>2, <2>2, Received
  <2>4. Followed(toZnc', Removals(c), News(c))  BY ReceiveCovered
  <2>5. Any(toZnc', Offering(c))  BY <2>3, <2>4, FollowedAny, NewsOffer
  <2> QED  BY <2>5 DEF AskedFor
<1> QED  BY <1>3, <1>4, <1>5

\* The same of the whole state, once it is shown of each capability.
LEMMA ReceivedCovers ==
  ASSUME Base, Covered, NEW cmd, Receives(cmd), UNCHANGED <<offers, enabled, stage>>,
         \A c \in offers \cap Wanted : c \notin enabled => AskedFor(toZnc', toServer', pending', phase2', c)
  PROVE  Covered'
<1> SUFFICES ASSUME NEW c \in offers \cap Wanted
             PROVE  /\ Followed(toZnc', Removals(c), News(c))
                    /\ c \in enabled \/ AskedFor(toZnc', toServer', pending', phase2', c)
  BY DEF Covered
<1>1. Followed(toZnc, Removals(c), News(c))  BY DEF Covered
<1>2. Followed(toZnc', Removals(c), News(c))  BY <1>1, Received
<1> QED  BY <1>2

LEMMA ZncCovered == ASSUME Base, Synced, Covered, ZncStep PROVE Covered'
<1>0. /\ UNCHANGED <<offers, enabled, stage>> /\ toServer \in Seq(ServerLines)
      /\ pending \in SUBSET Wanted /\ phase2 \in SUBSET Wanted
  BY DEF ZncStep, OnAvailable, OnAck, OnNak, OnDel, RemoveCaps, OnAuthenticate, OnSaslSuccess,
         OnSaslFailure, OnSaslAborted, OnWelcome, serverVars, Base, Scalars
<1>1. ASSUME NEW cmd, Receives(cmd), NEW lines \in Seq(ServerLines), NEW pend \in SUBSET Wanted,
             NEW ph2 \in SUBSET Wanted, NEW pause, SendNextCap(pend, ph2, pause, lines),
             \A c \in offers \cap Wanted : c \notin enabled => AskedFor(toZnc', lines, pend, ph2, c)
      PROVE  Covered'
  <2>1. \A c \in offers \cap Wanted : c \notin enabled => AskedFor(toZnc', toServer', pending', phase2', c)
    BY <1>1, SendCovered
  <2> QED  BY <1>0, <1>1, <2>1, ReceivedCovers
<1>2. ASSUME NEW cmd, Receives(cmd), cmd \notin {"LS", "LS*", "NEW", "NAK"},
             NEW c \in offers \cap Wanted, c \notin enabled
      PROVE  AskedFor(toZnc', toServer, pending, phase2, c)
  <2>1. Head(toZnc).cmd = cmd  BY <1>2, ReceiveFacts
  <2>2. Head(toZnc) \notin SplitNaks(c) /\ Head(toZnc) \notin Offering(c)
    BY <1>2, <2>1 DEF SplitNaks, Offering, Naming
  <2> QED  BY <1>2, <2>2, ReceiveCovered
<1>3. ASSUME NEW x \in ServerLines, NEW zl, NEW pend, NEW ph2, NEW c, AskedFor(zl, toServer, pend, ph2, c)
      PROVE  AskedFor(zl, Append(toServer, x), pend, ph2, c)
  <2>1. Any(toServer, Naming({"REQ"}, c)) => Any(Append(toServer, x), Naming({"REQ"}, c))
    BY <1>0, AnyAppend
  <2> QED  BY <1>3, <2>1 DEF AskedFor
\* Handlers that send no request, but maybe a line of an authentication.
<1>4. ASSUME NEW cmd, Receives(cmd), cmd \notin {"LS", "LS*", "NEW", "NAK"},
             UNCHANGED <<pending, phase2>>,
             toServer' = toServer \/ \E x \in ServerLines : toServer' = Append(toServer, x)
      PROVE  Covered'
  <2>1. \A c \in offers \cap Wanted : c \notin enabled => AskedFor(toZnc', toServer', pending', phase2', c)
    BY <1>2, <1>3, <1>4
  <2> QED  BY <1>0, <1>4, <2>1, ReceivedCovers
<1>5. ASSUME NEW cmd \in {"LS", "LS*", "NEW"}, OnAvailable(cmd) PROVE Covered'
  <2> DEFINE new == Requestable(Head(toZnc).caps)
  <2>1. Receives(cmd)  BY <1>5 DEF OnAvailable
  <2>2. \A c \in offers \cap Wanted : c \notin enabled => AskedFor(toZnc', toServer, pending \cup new, phase2, c)
    BY <1>5, <2>1, AnnouncedCovered
  <2>3. CASE cmd = "LS*"
    <3>1. pending' = pending \cup new /\ phase2' = phase2 /\ toServer' = toServer
      BY <1>5, <2>3 DEF OnAvailable
    <3> HIDE DEF new
    <3> QED  BY <1>0, <2>1, <2>2, <3>1, ReceivedCovers
  <2>4. CASE cmd # "LS*"
    <3>1. SendNextCap(pending \cup new, phase2, paused, toServer)  BY <1>5, <2>4 DEF OnAvailable
    <3>2. pending \cup new \in SUBSET Wanted  BY <1>0 DEF Requestable
    <3> HIDE DEF new
    <3> QED  BY <1>0, <1>1, <2>1, <2>2, <3>1, <3>2
  <2> QED  BY <2>3, <2>4
<1>6. CASE OnAck
  <2> DEFINE after == AckResult(Head(toZnc).caps)
  <2>1. Receives("ACK") /\ SendNextCap(pending, phase2, after.paused, after.out)  BY <1>6 DEF OnAck
  <2>2. after.out \in Seq(ServerLines)  BY AckResultType
  <2>3. after.out = toServer \/ \E x \in ServerLines : after.out = Append(toServer, x)
    BY ServerLineFacts DEF AckResult
  <2> HIDE DEF after
  <2>4. \A c \in offers \cap Wanted : c \notin enabled => AskedFor(toZnc', after.out, pending, phase2, c)
    BY <1>2, <1>3, <2>1, <2>3
  <2> QED  BY <1>0, <1>1, <2>1, <2>2, <2>4
<1>7. ASSUME NEW cmd \in {"NAK", "DEL"}, Receives(cmd), RemoveCaps(Head(toZnc).caps),
             cmd = "NAK" => \A c \in Head(toZnc).caps : Head(toZnc).caps = {c}
      PROVE  Covered'
  <2> DEFINE m == Head(toZnc)
             S == m.caps
  <2>1. m \in Lines /\ m.cmd = cmd  BY <1>7, ReceiveFacts
  <2>2. ASSUME NEW c \in offers \cap Wanted, c \notin enabled
        PROVE  AskedFor(toZnc', toServer, pending \ S, phase2, c)
    <3>1. m \notin SplitNaks(c) /\ m \notin Offering(c)
      BY <1>7, <2>1 DEF SplitNaks, Offering, Naming
    <3>2. AskedFor(toZnc', toServer, pending, phase2, c)  BY <1>7, <2>2, <3>1, ReceiveCovered
    <3>3. c \in S => m \in Removals(c)  BY <1>7, <2>1 DEF Removals
    <3>4. m \in Removals(c) => Any(toZnc', Offering(c))  BY <1>7, <2>2, ReceiveCovered
    <3> HIDE DEF m, S
    <3> QED  BY <3>2, <3>3, <3>4 DEF AskedFor
  <2>3. SendNextCap(pending \ S, phase2, paused, toServer) /\ pending \ S \in SUBSET Wanted
    BY <1>0, <1>7 DEF RemoveCaps
  <2> HIDE DEF S
  <2> QED  BY <1>0, <1>1, <1>7, <2>2, <2>3
<1>8. CASE OnNak
  <2> DEFINE m == Head(toZnc)
             S == m.caps
  <2>1. Receives("NAK")  BY <1>8 DEF OnNak
  <2>2. m \in Lines /\ m.cmd = "NAK" /\ S \in SUBSET Wanted /\ S # {}  BY <2>1, ReceiveFacts
  <2>3. CASE Cardinality(S) = 1 /\ RemoveCaps(S)
    <3>1. \A c \in S : S = {c}  BY <2>2, <2>3, SingleNak
    <3> QED  BY <1>7, <2>1, <2>3, <3>1
  <2>4. CASE SendNextCap(pending, phase2 \cup S, paused, toServer)
    <3>1. ASSUME NEW c \in offers \cap Wanted, c \notin enabled
          PROVE  AskedFor(toZnc', toServer, pending, phase2 \cup S, c)
      <4>1. CASE c \in S  BY <4>1 DEF AskedFor
      <4>2. CASE c \notin S
        <5>1. m \notin SplitNaks(c) /\ m \notin Offering(c)
          BY <2>2, <4>2 DEF SplitNaks, Offering, Naming
        <5>2. AskedFor(toZnc', toServer, pending, phase2, c)  BY <2>1, <3>1, <5>1, ReceiveCovered
        <5> QED  BY <5>2 DEF AskedFor
      <4> QED  BY <4>1, <4>2
    <3>2. phase2 \cup S \in SUBSET Wanted  BY <1>0, <2>2
    <3> HIDE DEF S
    <3> QED  BY <1>0, <1>1, <2>1, <2>4, <3>1, <3>2
  <2> QED  BY <1>8, <2>3, <2>4 DEF OnNak
<1>9. CASE OnDel  BY <1>7, <1>9 DEF OnDel
<1>10. CASE OnAuthenticate
  BY <1>4, <1>10, ServerLineFacts DEF OnAuthenticate, zncVars, capVars
<1>11. ASSUME NEW cmd \in {"903", "904", "907"}, Receives(cmd), ResumeCap PROVE Covered'
  <2>1. \A c \in offers \cap Wanted : c \notin enabled => AskedFor(toZnc', toServer, pending, phase2, c)
    BY <1>2, <1>11
  <2> QED  BY <1>0, <1>1, <1>11, <2>1 DEF ResumeCap
<1>12. ASSUME NEW cmd \in {"903", "907"}, OnSaslSuccess(cmd) PROVE Covered'
  BY <1>4, <1>11, <1>12 DEF OnSaslSuccess
<1>13. CASE OnSaslFailure
  BY <1>4, <1>11, <1>13, ServerLineFacts DEF OnSaslFailure
<1>14. CASE OnSaslAborted  BY <1>4, <1>14 DEF OnSaslAborted, capVars
<1>15. CASE OnWelcome  BY <1>4, <1>15 DEF OnWelcome, capVars
<1> QED  BY <1>5, <1>6, <1>8, <1>9, <1>10, <1>12, <1>13, <1>14, <1>15 DEF ZncStep

\* What the server sends does not make ZNC forget.
LEMMA AskedForGrows ==
  ASSUME Base, NEW cmds, Longer(toZnc, toZnc', Sent(cmds)), NEW sl, NEW c,
         AskedFor(toZnc, sl, pending, phase2, c)
  PROVE  AskedFor(toZnc', sl, pending, phase2, c)
<1>1. toZnc \in Seq(ZncLines) /\ Sent(cmds) \in SUBSET ZncLines  BY SentFacts DEF Base
<1> QED  BY <1>1, LongerAny DEF AskedFor

\* The server reads a line other than a request, and sends nothing against c.
LEMMA OtherCovered ==
  ASSUME Base, Covered, NEW cmd, cmd \notin {"REQ", "LS"}, NEW lines, Answers(cmd, lines),
         NEW cmds, Longer(toZnc, toZnc', Sent(cmds)), cmds \cap {"DEL", "NAK"} = {},
         UNCHANGED <<pending, phase2, offers, enabled>>, stage' # "new"
  PROVE  Covered'
<1> SUFFICES ASSUME NEW c \in offers \cap Wanted
             PROVE  /\ Followed(toZnc', Removals(c), News(c))
                    /\ c \in enabled \/ AskedFor(toZnc', toServer', pending, phase2, c)
  BY DEF Covered
<1>1. Followed(toZnc', Removals(c), News(c))
  <2>1. \A x \in Removals(c) : x.cmd \notin cmds  BY DEF Removals
  <2> QED  BY <2>1, SentNeutral DEF Covered
<1>2. CASE c \notin enabled
  <2>1. AskedFor(toZnc, toServer, pending, phase2, c)  BY <1>2, AnswerFacts DEF Covered
  <2>2. Head(toServer) \notin Naming({"REQ"}, c)  BY AnswerFacts DEF Naming
  <2>3. AskedFor(toZnc, toServer', pending, phase2, c)  BY <2>1, <2>2, Read DEF AskedFor
  <2> QED  BY <1>1, <2>3, AskedForGrows
<1> QED  BY <1>1, <1>2

LEMMA LsCovered == ASSUME Base, ServerLs PROVE Covered'
<1>1. toZnc = <<>> /\ offers' = offers /\ Longer(toZnc, toZnc', Sent({"LS", "LS*"}))
  BY LsStep, ServerSends
<1>2. PICK S \in SUBSET offers : LsSent(S)  BY LsStep
<1> DEFINE x == Line("LS*", S)
           y == Line("LS", offers \ S)
           z == Line("LS", S)
<1>3. /\ x \in ZncLines /\ y \in ZncLines /\ z \in ZncLines /\ toZnc \in Seq(ZncLines)
      /\ x \in Lines /\ y \in Lines /\ z \in Lines
  BY <1>2, ZncLineFacts DEF Base, Scalars
<1>4. /\ x.cmd = "LS*" /\ x.caps = S /\ y.cmd = "LS" /\ y.caps = offers \ S /\ z.cmd = "LS" /\ z.caps = S
  BY LineFacts
<1>5. \/ S = offers /\ toZnc' = Append(toZnc, z)
      \/ toZnc' = Append(Append(toZnc, x), y)
  BY <1>2 DEF LsSent
<1> HIDE DEF x, y, z
<1> SUFFICES ASSUME NEW c \in offers \cap Wanted
             PROVE  Followed(toZnc', Removals(c), News(c)) /\ Any(toZnc', Offering(c))
  BY <1>1 DEF Covered, AskedFor
<1>6. Followed(toZnc', Removals(c), News(c))
  <2>1. \A m \in Removals(c) : m.cmd \notin {"LS", "LS*"}  BY DEF Removals
  <2>2. Followed(toZnc, Removals(c), News(c))  BY <1>1, EmptyLine
  <2> QED  BY <1>1, <2>1, <2>2, SentNeutral
<1>7. Any(toZnc', Offering(c))
  <2>1. /\ z \in Offering(c) <=> c \in S
        /\ x \in Offering(c) <=> c \in S
        /\ y \in Offering(c) <=> c \in offers \ S
    BY <1>3, <1>4 DEF Offering, Naming
  <2>2. CASE S = offers /\ toZnc' = Append(toZnc, z)  BY <1>3, <2>1, <2>2, AnyAppend
  <2>3. CASE toZnc' = Append(Append(toZnc, x), y)
    <3>1. Append(toZnc, x) \in Seq(ZncLines)  BY <1>3, AppendDomain
    <3>2. Any(Append(toZnc, x), Offering(c)) <=> x \in Offering(c) \/ Any(toZnc, Offering(c))
      BY <1>3, AnyAppend
    <3>3. Any(toZnc', Offering(c)) <=> y \in Offering(c) \/ Any(Append(toZnc, x), Offering(c))
      BY <1>3, <2>3, <3>1, AnyAppend
    <3> QED  BY <2>1, <3>2, <3>3
  <2> QED  BY <1>5, <2>2, <2>3
<1> QED  BY <1>6, <1>7

LEMMA ReqCovered == ASSUME Base, Covered, ServerReq PROVE Covered'
<1> DEFINE m == Head(toServer)
           S == m.caps
           x == ReqAnswer(S)
<1>1. /\ stage # "new" /\ m.cmd = "REQ" /\ x \in ZncLines /\ toZnc' = Append(toZnc, x)
      /\ enabled' = IF S \subseteq offers THEN enabled \cup S ELSE enabled
      /\ UNCHANGED <<offers, stage, pending, phase2>>
  BY ReqStep DEF zncVars, capVars
<1>2. /\ x \in Lines /\ x.caps = S /\ x.cmd = IF S \subseteq offers THEN "ACK" ELSE "NAK"
      /\ toZnc \in Seq(ZncLines)
  BY <1>1, ZncLineFacts, LineFacts DEF ReqAnswer, Base
<1>3. PICK lines : Answers("REQ", lines)  BY DEF ServerReq
<1> HIDE DEF x
<1> SUFFICES ASSUME NEW c \in offers \cap Wanted
             PROVE  /\ Followed(toZnc', Removals(c), News(c))
                    /\ c \in enabled' \/ AskedFor(toZnc', toServer', pending, phase2, c)
  BY <1>1 DEF Covered
<1>4. Followed(toZnc', Removals(c), News(c))
  <2>1. x \notin Removals(c)  BY <1>2 DEF Removals
  <2>2. Followed(toZnc, Removals(c), News(c))  BY DEF Covered
  <2> QED  BY <1>1, <1>2, <2>1, <2>2, FollowedAppend
<1>5. CASE c \in S /\ S \subseteq offers  BY <1>1, <1>4, <1>5
<1>6. CASE c \in S /\ ~(S \subseteq offers)
  <2>1. x \in SplitNaks(c)  BY <1>2, <1>6 DEF SplitNaks
  <2>2. Any(toZnc', SplitNaks(c))  BY <1>1, <1>2, <2>1, AnyAppend
  <2> QED  BY <1>4, <2>2 DEF AskedFor
<1>7. CASE c \notin S
  <2>1. m \notin Naming({"REQ"}, c)  BY <1>7 DEF Naming
  <2>2. c \in enabled \/ AskedFor(toZnc, toServer, pending, phase2, c)  BY <1>1 DEF Covered
  <2>3. c \in enabled \/ AskedFor(toZnc, toServer', pending, phase2, c)
    BY <1>3, <2>1, <2>2, Read DEF AskedFor
  <2>4. Longer(toZnc, toZnc', Sent({"ACK", "NAK"}))  BY ServerSends
  <2> QED  BY <1>1, <1>4, <2>3, <2>4, AskedForGrows
<1> QED  BY <1>5, <1>6, <1>7

LEMMA NewCovered == ASSUME Base, Covered, NEW d \in Caps, ServerNew(d) PROVE Covered'
<1> DEFINE x == Line("NEW", {d})
<1>1. /\ x \in ZncLines /\ toZnc' = Append(toZnc, x) /\ toZnc \in Seq(ZncLines)
      /\ Longer(toZnc, toZnc', Sent({"NEW"}))
  BY NewStep, ServerSends DEF Base
<1>2. x \in Lines /\ x.cmd = "NEW" /\ x.caps = {d}  BY <1>1, ZncLineFacts, LineFacts
<1>3. /\ stage # "new" /\ offers' = offers \cup {d}
      /\ UNCHANGED <<toServer, pending, phase2, enabled, stage>>
  BY DEF ServerNew, zncVars, capVars
<1> HIDE DEF x
<1> SUFFICES ASSUME NEW c \in (offers \cup {d}) \cap Wanted
             PROVE  /\ Followed(toZnc', Removals(c), News(c))
                    /\ c \in enabled \/ AskedFor(toZnc', toServer, pending, phase2, c)
  BY <1>3 DEF Covered
<1>4. x \notin Removals(c)  BY <1>2 DEF Removals
<1>5. CASE c = d
  <2>1. x \in News(c) /\ x \in Offering(c)  BY <1>2, <1>5 DEF News, Offering, Naming
  <2>2. Any(toZnc', Offering(c))  BY <1>1, <2>1, AnyAppend
  <2> QED  BY <1>1, <1>4, <2>1, <2>2, FollowedAppend DEF AskedFor
<1>6. CASE c # d
  <2>1. /\ Followed(toZnc, Removals(c), News(c))
        /\ c \in enabled \/ AskedFor(toZnc, toServer, pending, phase2, c)
    BY <1>3, <1>6 DEF Covered
  <2>2. Followed(toZnc', Removals(c), News(c))  BY <1>1, <1>4, <2>1, FollowedAppend
  <2> QED  BY <1>1, <2>1, <2>2, AskedForGrows
<1> QED  BY <1>5, <1>6

LEMMA DelCovered == ASSUME Base, Covered, NEW d \in Caps, ServerDel(d) PROVE Covered'
<1> DEFINE x == Line("DEL", {d})
           y == Line("904", {})
<1>1. /\ x \in ZncLines /\ y \in ZncLines /\ toZnc \in Seq(ZncLines)
      /\ toZnc' = Append(toZnc, x) \/ toZnc' = Append(Append(toZnc, y), x)
      /\ Longer(toZnc, toZnc', Sent({"904", "DEL"}))
  BY DelStep, ServerSends DEF Base
<1>2. x.cmd = "DEL" /\ x.caps = {d} /\ y.cmd = "904"  BY LineFacts
<1>3. /\ stage # "new" /\ offers' = offers \ {d} /\ enabled' = enabled \ {d}
      /\ UNCHANGED <<toServer, pending, phase2, stage>>
  BY DEF ServerDel, zncVars, capVars
<1>4. Append(toZnc, y) \in Seq(ZncLines)  BY <1>1, AppendDomain
<1> HIDE DEF x, y
<1> SUFFICES ASSUME NEW c \in offers \cap Wanted, c # d
             PROVE  /\ Followed(toZnc', Removals(c), News(c))
                    /\ c \in enabled \/ AskedFor(toZnc', toServer, pending, phase2, c)
  BY <1>3 DEF Covered
<1>5. /\ Followed(toZnc, Removals(c), News(c))
      /\ c \in enabled \/ AskedFor(toZnc, toServer, pending, phase2, c)
  BY <1>3 DEF Covered
<1>6. x \notin Removals(c) /\ y \notin Removals(c)  BY <1>2 DEF Removals
<1>7. Followed(Append(toZnc, x), Removals(c), News(c)) /\ Followed(Append(toZnc, y), Removals(c), News(c))
  BY <1>1, <1>5, <1>6, FollowedAppend
<1>8. Followed(Append(Append(toZnc, y), x), Removals(c), News(c))
  BY <1>1, <1>4, <1>6, <1>7, FollowedAppend
<1>9. Followed(toZnc', Removals(c), News(c))  BY <1>1, <1>7, <1>8
<1> QED  BY <1>1, <1>5, <1>9, AskedForGrows

LEMMA NextCovered == ASSUME Base, Synced, Covered, [Next]_vars PROVE Covered'
<1>1. CASE ServerWithoutCap  BY <1>1 DEF ServerWithoutCap, Covered
<1>2. CASE ServerEnd
  <2>1. PICK lines : Answers("END", lines)  BY <1>2 DEF ServerEnd
  <2>2. UNCHANGED <<pending, phase2, offers, enabled>> /\ stage' # "new"
    BY <1>2 DEF ServerEnd, zncVars, capVars
  <2> QED  BY <1>2, <2>1, <2>2, ServerSends, OtherCovered
<1>3. ASSUME NEW cmd \in {"MECH", "DATA"}, ServerAuthenticate(cmd) PROVE Covered'
  <2>1. PICK lines : Answers(cmd, lines)  BY <1>3 DEF ServerAuthenticate
  <2>2. UNCHANGED <<pending, phase2, offers, enabled>> /\ stage' # "new"
    BY <1>3, AuthenticateStep DEF zncVars, capVars
  <2> QED  BY <1>3, <2>1, <2>2, ServerSends, OtherCovered
<1>4. CASE Reconnect  BY <1>4, EmptyLine DEF Reconnect, NewServer, Covered
<1>5. CASE UNCHANGED vars
  BY <1>5 DEF Covered, AskedFor, vars, zncVars, capVars, serverVars
<1> QED
  BY <1>1, <1>2, <1>3, <1>4, <1>5, ZncCovered, LsCovered, ReqCovered, NewCovered, DelCovered
  DEF Next, ServerReply
-----------------------------------------------------------------------------
(* The lists are worked through *)

\* A line under way will make ZNC go on with its lists.
Working(zl, sl) == Any(sl, Of({"REQ"})) \/ Any(zl, Of({"ACK", "NAK", "LS"}))

Drained == /\ Followed(toZnc, Of({"LS*"}), Of({"LS"}))
           /\ paused = 0 /\ pending \cup phase2 # {} => Working(toZnc, toServer)

LEMMA SendDrained ==
  ASSUME NEW lines \in Seq(ServerLines), NEW pend \in SUBSET Wanted, NEW ph2 \in SUBSET Wanted,
         NEW pause, SendNextCap(pend, ph2, pause, lines), pause = 0, pending' \cup phase2' # {}
  PROVE  Any(toServer', Of({"REQ"}))
<1>1. ~Silent(pend, ph2, pause, lines) /\ ~Ends(pend, ph2, pause, lines)  BY DEF Silent, Ends
<1>2. PICK S \in SUBSET Wanted : Requests(pend, ph2, pause, lines, S)  BY <1>1, SendCases
<1>3. Line("REQ", S) \in ServerLines /\ toServer' = Append(lines, Line("REQ", S))
  BY <1>2, ServerLineFacts DEF Requests
<1>4. Line("REQ", S) \in Of({"REQ"})  BY <1>3, ServerLineFacts, LineFacts DEF Of
<1> QED  BY <1>3, <1>4, AnyAppend

LEMMA ZncDrained == ASSUME Base, Drained, ZncStep PROVE Drained'
<1>0. /\ toServer \in Seq(ServerLines) /\ pending \in SUBSET Wanted /\ phase2 \in SUBSET Wanted
  BY DEF Base, Scalars
<1>1. ASSUME NEW cmd, Receives(cmd)
      PROVE  /\ Followed(toZnc', Of({"LS*"}), Of({"LS"}))
             /\ cmd = "LS*" => Any(toZnc', Of({"LS"}))
             /\ cmd \notin {"ACK", "NAK", "LS"} => (Working(toZnc', toServer) <=> Working(toZnc, toServer))
  <2>1. Head(toZnc) \in Lines /\ Head(toZnc).cmd = cmd  BY <1>1, ReceiveFacts
  <2>2. /\ Followed(toZnc', Of({"LS*"}), Of({"LS"}))
        /\ Head(toZnc) \in Of({"LS*"}) => Any(toZnc', Of({"LS"}))
    BY <1>1, Received DEF Drained
  <2>3. Any(toZnc, Of({"ACK", "NAK", "LS"})) <=>
          Head(toZnc) \in Of({"ACK", "NAK", "LS"}) \/ Any(toZnc', Of({"ACK", "NAK", "LS"}))
    BY <1>1, Received
  <2> QED  BY <2>1, <2>2, <2>3, Kinds DEF Working
<1>2. ASSUME NEW cmd, Receives(cmd), NEW lines \in Seq(ServerLines), NEW pend \in SUBSET Wanted,
             NEW ph2 \in SUBSET Wanted, SendNextCap(pend, ph2, paused', lines)
      PROVE  Drained'
  <2>1. paused' = 0 /\ pending' \cup phase2' # {} => Any(toServer', Of({"REQ"}))
    BY <1>2, SendDrained
  <2> QED  BY <1>1, <1>2, <2>1 DEF Drained, Working
<1>3. ASSUME NEW cmd, Receives(cmd), cmd \notin {"ACK", "NAK", "LS"}, UNCHANGED <<pending, phase2, paused>>,
             toServer' = toServer \/ \E x \in ServerLines : toServer' = Append(toServer, x)
      PROVE  Drained'
  <2>1. Working(toZnc', toServer) => Working(toZnc', toServer')  BY <1>0, <1>3, AnyAppend DEF Working
  <2>2. Working(toZnc, toServer) => Working(toZnc', toServer')  BY <1>1, <1>3, <2>1
  <2> QED  BY <1>1, <1>3, <2>2 DEF Drained
<1>4. ASSUME NEW cmd \in {"LS", "LS*", "NEW"}, OnAvailable(cmd) PROVE Drained'
  <2> DEFINE new == Requestable(Head(toZnc).caps)
  <2>1. Receives(cmd) /\ paused' = paused  BY <1>4 DEF OnAvailable
  <2>2. CASE cmd = "LS*"
    <3>1. Any(toZnc', Of({"LS"}))  BY <1>1, <2>1, <2>2
    <3>2. Any(toZnc', Of({"ACK", "NAK", "LS"}))  BY <3>1 DEF Any, Of
    <3> QED  BY <1>1, <2>1, <3>2 DEF Drained, Working
  <2>3. CASE cmd # "LS*"
    <3>1. SendNextCap(pending \cup new, phase2, paused', toServer)
      BY <1>4, <2>1, <2>3 DEF OnAvailable
    <3>2. pending \cup new \in SUBSET Wanted  BY <1>0 DEF Requestable
    <3> HIDE DEF new
    <3> QED  BY <1>0, <1>2, <2>1, <3>1, <3>2
  <2> QED  BY <2>2, <2>3
<1>5. CASE OnAck
  <2> DEFINE after == AckResult(Head(toZnc).caps)
  <2>1. Receives("ACK") /\ SendNextCap(pending, phase2, paused', after.out)  BY <1>5 DEF OnAck
  <2>2. after.out \in Seq(ServerLines)  BY AckResultType
  <2> HIDE DEF after
  <2> QED  BY <1>0, <1>2, <2>1, <2>2
<1>6. ASSUME NEW cmd, Receives(cmd), NEW S, RemoveCaps(S) PROVE Drained'
  <2>1. SendNextCap(pending \ S, phase2, paused', toServer) /\ pending \ S \in SUBSET Wanted
    BY <1>0, <1>6 DEF RemoveCaps
  <2> QED  BY <1>0, <1>2, <1>6, <2>1
<1>7. CASE OnNak
  <2> DEFINE S == Head(toZnc).caps
  <2>1. Receives("NAK")  BY <1>7 DEF OnNak
  <2>2. CASE RemoveCaps(S)  BY <1>6, <2>1, <2>2
  <2>3. CASE SendNextCap(pending, phase2 \cup S, paused, toServer) /\ paused' = paused
    <3>1. phase2 \cup S \in SUBSET Wanted  BY <1>0, <2>1, ReceiveFacts
    <3>2. SendNextCap(pending, phase2 \cup S, paused', toServer)  BY <2>3
    <3> HIDE DEF S
    <3> QED  BY <1>0, <1>2, <2>1, <3>1, <3>2
  <2> QED  BY <1>7, <2>2, <2>3 DEF OnNak
<1>8. CASE OnDel  BY <1>6, <1>8 DEF OnDel
<1>9. CASE OnAuthenticate
  BY <1>3, <1>9, ServerLineFacts DEF OnAuthenticate, zncVars, capVars
<1>10. ASSUME NEW cmd, Receives(cmd), ResumeCap PROVE Drained'
  <2>1. SendNextCap(pending, phase2, paused', toServer)  BY <1>10 DEF ResumeCap
  <2> QED  BY <1>0, <1>2, <1>10, <2>1
<1>11. ASSUME NEW cmd \in {"903", "907"}, OnSaslSuccess(cmd) PROVE Drained'
  BY <1>3, <1>10, <1>11 DEF OnSaslSuccess
<1>12. CASE OnSaslFailure  BY <1>3, <1>10, <1>12, ServerLineFacts DEF OnSaslFailure
<1>13. CASE OnSaslAborted  BY <1>3, <1>13 DEF OnSaslAborted, capVars
<1>14. CASE OnWelcome  BY <1>3, <1>14 DEF OnWelcome, capVars
<1> QED  BY <1>4, <1>5, <1>7, <1>8, <1>9, <1>11, <1>12, <1>13, <1>14 DEF ZncStep

LEMMA NextDrained == ASSUME Base, Drained, [Next]_vars PROVE Drained'
<1> USE DEF zncVars, capVars
<1>0. ASSUME NEW cmds, "LS*" \notin cmds, Longer(toZnc, toZnc', Sent(cmds))
      PROVE  /\ Followed(toZnc', Of({"LS*"}), Of({"LS"}))
             /\ \A sl : Working(toZnc, sl) => Working(toZnc', sl)
  <2>1. \A x \in Of({"LS*"}) : x.cmd \notin cmds  BY <1>0 DEF Of
  <2>2. toZnc \in Seq(ZncLines) /\ Sent(cmds) \in SUBSET ZncLines  BY SentFacts DEF Base
  <2> QED  BY <1>0, <2>1, <2>2, SentNeutral, LongerAny DEF Drained, Working
<1>1. CASE ServerLs
  <2>1. PICK S \in SUBSET offers : LsSent(S)  BY <1>1, LsStep
  <2> DEFINE x == Line("LS*", S)
             y == Line("LS", offers \ S)
             z == Line("LS", S)
  <2>2. /\ x \in ZncLines /\ y \in ZncLines /\ z \in ZncLines /\ toZnc \in Seq(ZncLines)
        /\ y \in Lines /\ y.cmd = "LS" /\ z.cmd = "LS"
    BY <2>1, ZncLineFacts, LineFacts DEF Base, Scalars
  <2>3. toZnc' = Append(toZnc, z) \/ toZnc' = Append(Append(toZnc, x), y)  BY <2>1 DEF LsSent
  <2> HIDE DEF x, y, z
  <2>4. y \in Of({"LS"}) /\ y \notin Of({"LS*"}) /\ z \notin Of({"LS*"})  BY <2>2 DEF Of
  <2>5. Append(toZnc, x) \in Seq(ZncLines)  BY <2>2, AppendDomain
  <2>6. Followed(Append(toZnc, z), Of({"LS*"}), Of({"LS"}))
    BY <2>2, <2>4, FollowedAppend DEF Drained
  <2>7. Followed(Append(Append(toZnc, x), y), Of({"LS*"}), Of({"LS"}))
    BY <2>2, <2>4, <2>5, FollowedAppend
  <2>8. UNCHANGED <<pending, phase2>> /\ pending = {} /\ phase2 = {}
    BY <1>1, LsStep DEF Base, StartOnly
  <2> QED  BY <2>3, <2>6, <2>7, <2>8 DEF Drained
<1>2. CASE ServerWithoutCap
  <2>1. UNCHANGED <<pending, phase2>> /\ pending = {} /\ phase2 = {}
    BY <1>2, WithoutCapStep DEF Base, StartOnly
  <2>2. Followed(toZnc', Of({"LS*"}), Of({"LS"}))  BY <1>0, <1>2, ServerSends
  <2> QED  BY <2>1, <2>2 DEF Drained
<1>3. CASE ServerReq
  <2> DEFINE x == ReqAnswer(Head(toServer).caps)
  <2>1. x \in ZncLines /\ toZnc' = Append(toZnc, x) /\ toZnc \in Seq(ZncLines)  BY <1>3, ReqStep DEF Base
  <2>2. x \in Of({"ACK", "NAK", "LS"})  BY <2>1, ZncLineFacts, LineFacts DEF ReqAnswer, Of
  <2> HIDE DEF x
  <2>3. Any(toZnc', Of({"ACK", "NAK", "LS"}))  BY <2>1, <2>2, AnyAppend
  <2>4. Followed(toZnc', Of({"LS*"}), Of({"LS"}))  BY <1>0, <1>3, ServerSends
  <2> QED  BY <2>3, <2>4 DEF Drained, Working
<1>4. ASSUME NEW cmd, NEW lines, Answers(cmd, lines), cmd # "REQ", NEW cmds, "LS*" \notin cmds,
             Longer(toZnc, toZnc', Sent(cmds)), UNCHANGED <<pending, phase2, paused>>
      PROVE  Drained'
  <2>1. Head(toServer) \notin Of({"REQ"})  BY <1>4, AnswerFacts DEF Of
  <2>2. Working(toZnc, toServer) => Working(toZnc, toServer')  BY <1>4, <2>1, Read DEF Working
  <2> QED  BY <1>0, <1>4, <2>2 DEF Drained
<1>5. CASE ServerEnd
  <2>1. PICK lines : Answers("END", lines)  BY <1>5 DEF ServerEnd
  <2> QED  BY <1>4, <1>5, <2>1, ServerSends DEF ServerEnd
<1>6. ASSUME NEW cmd \in {"MECH", "DATA"}, ServerAuthenticate(cmd) PROVE Drained'
  <2>1. PICK lines : Answers(cmd, lines)  BY <1>6 DEF ServerAuthenticate
  <2> QED  BY <1>4, <1>6, <2>1, ServerSends DEF ServerAuthenticate
<1>7. ASSUME NEW c \in Caps, ServerNew(c) PROVE Drained'
  BY <1>0, <1>7, ServerSends DEF ServerNew, Drained
<1>8. ASSUME NEW c \in Caps, ServerDel(c) PROVE Drained'
  BY <1>0, <1>8, ServerSends DEF ServerDel, Drained
<1>9. CASE Reconnect  BY <1>9, EmptyLine DEF Reconnect, Drained
<1>10. CASE UNCHANGED vars  BY <1>10 DEF vars, Drained, Working
<1> QED
  BY <1>1, <1>2, <1>3, <1>5, <1>6, <1>7, <1>8, <1>9, <1>10, ZncDrained DEF Next, ServerReply

\* The inductive invariant of the negotiation.
CapInv == Base /\ Synced /\ Token /\ Covered /\ Drained

LEMMA CapInvMissed == ASSUME CapInv PROVE NothingMissed
<1> SUFFICES ASSUME Quiet, saslStable \/ paused = 0, NEW c \in offers \cap Wanted PROVE c \in accepted
  BY DEF NothingMissed
<1>1. toServer = <<>> /\ toZnc = <<>>  BY DEF Quiet
<1>2. \A M : ~Any(toServer, M) /\ ~Any(toZnc, M)  BY <1>1, EmptyLine
<1>3. stage # "new"
  <2>1. <<Line("LS", {})>> # <<>>  OBVIOUS
  <2> QED  BY <1>1, <2>1 DEF CapInv, Base, StartOnly
<1>4. paused = 0  BY <1>2 DEF CapInv, Token, UnderWay
<1>5. pending \cup phase2 = {}  BY <1>2, <1>4 DEF CapInv, Drained, Working
<1>6. c \in enabled  BY <1>2, <1>3, <1>5 DEF CapInv, Covered, AskedFor
<1> QED  BY <1>2, <1>6, CapsAssumption DEF CapInv, Synced, SaysOn

\* No capability is missed: whatever the server splits, refuses, withdraws and
\* announces, what is wanted and offered is enabled once nothing is on its way
\* and the negotiation is not paused (CIRCSock::SendNextCap, m_ssPendingCaps,
\* m_ssPendingCapsPhase2).
THEOREM CapNothingMissed == Spec => []NothingMissed
<1>1. Init => CapInv
  <2> SUFFICES ASSUME Init PROVE CapInv
    OBVIOUS
  <2>1. Base /\ Token  BY InitBase, InitToken
  <2>2. Synced  BY EmptyLine DEF Init, Synced, SaysOff
  <2>3. Covered  BY EmptyLine DEF Init, Covered
  <2>4. Drained  BY EmptyLine DEF Init, Drained
  <2> QED  BY <2>1, <2>2, <2>3, <2>4 DEF CapInv
<1>2. CapInv /\ [Next]_vars => CapInv'
  BY NextBase, NextSynced, NextToken, NextCovered, NextDrained DEF CapInv
<1>3. CapInv => NothingMissed  BY CapInvMissed
<1> QED  BY <1>1, <1>2, <1>3, PTL DEF Spec

OrderInv == Base /\ AuthInv /\ Token /\ Lock

LEMMA OrderInvariant == Spec => []OrderInv
<1>1. Init => OrderInv
  <2>1. Init => AuthInv  BY EmptyLine DEF Init, AuthInv
  <2>2. Init => Lock
    <3>1. Lone(<<Line("LS", {})>>) /\ Short(<<>>)  BY FirstLine
    <3> QED  BY <3>1 DEF Init, Lock, Turns
  <2> QED  BY <2>1, <2>2, InitBase, InitToken DEF OrderInv
<1>2. OrderInv /\ [Next]_vars => OrderInv'
  BY NextBase, NextAuth, NextToken, NextLock DEF OrderInv
<1> QED  BY <1>1, <1>2, PTL DEF Spec

\* The pauses, CAP END and require_auth together (CIRCSock::PauseCap, SendNextCap,
\* CSASLMod).
THEOREM NegotiationIsOrdered == Spec => []NegotiationOrdered
<1>1. OrderInv => NegotiationOrdered
  <2>1. AuthInv => AuthRequired  BY DEF AuthInv, AuthRequired
  <2> QED  BY <2>1, BaseType, TokenPauses, LockEnd DEF OrderInv, NegotiationOrdered
<1> QED  BY <1>1, OrderInvariant, PTL

-----------------------------------------------------------------------------
(* The channel: what ZNC believes is what the server would say once every   *)
(* line is read.  While lines are on the way ZNC lags behind the server.    *)
(* The inductive invariant says by how much: there is a history of pictures *)
(* of the channel, one more than there are lines on the wire, in which each *)
(* line leads from one picture to the next, the last picture is the         *)
(* server's and the first is the one that ZNC has.                          *)


\* What the server knows at one time.  It says nothing of a channel that ZNC is not in.
Pictures == {p \in [me : Ch!Nicks, members : Ch!NickMaps] :
               p.members = Ch!NoNicks \/ p.me \in DOMAIN p.members}
Now == [me |-> me, members |-> members]
In(p) == p.me \in DOMAIN p.members

ClientLines == {<<"JOIN">>, <<"PART">>, <<"NAMES">>} \cup {<<"NICK", n>> : n \in Ch!Nicks}
ChannelLines ==
  {"JOIN", "PART", "KICK", "QUIT"} \X Ch!Nicks \cup {"NICK"} \X Ch!Nicks \X Ch!Nicks
    \cup {"MODE"} \X Ch!Nicks \X Ch!Perms \X BOOLEAN \cup {"353"} \X Ch!NickMaps
    \cup {<<"470">>, <<"479">>, <<"433">>, <<"435">>}

\* What changed when the server sent a line.  Of the two lines that answer a JOIN the
\* first leads to a picture with ZNC alone.
Leads(x, l, y) ==
  /\ l[1] # "NICK" => y.me = x.me
  /\ l[1] = "JOIN" =>
       /\ l[2] \in Ch!Nicks
       /\ l[2] = x.me => x.members = Ch!NoNicks /\ y.members = Ch!With(Ch!NoNicks, x.me, {})
       /\ l[2] # x.me => /\ In(x) /\ l[2] \notin DOMAIN x.members
                         /\ y.members = Ch!With(x.members, l[2], {})
  /\ l[1] \in {"PART", "KICK", "QUIT"} =>
       /\ In(x) /\ l[2] \in DOMAIN x.members
       /\ l[2] = x.me => l[1] # "QUIT" /\ y.members = Ch!NoNicks
       /\ l[2] # x.me => y.members = Ch!Without(x.members, l[2])
  /\ l[1] = "NICK" =>
       /\ l[2] \in Ch!Nicks /\ l[3] \in Ch!Nicks \ ({x.me} \cup DOMAIN x.members)
       /\ y.me = (IF l[2] = x.me THEN l[3] ELSE x.me)
       /\ y.members = Ch!Renamed(x.members, l[2], l[3])
  /\ l[1] = "MODE" =>
       /\ In(x) /\ l[2] \in DOMAIN x.members /\ l[3] \in Ch!Perms /\ l[4] \in BOOLEAN
       /\ y.members = [x.members EXCEPT ![l[2]] = IF l[4] THEN @ \cup {l[3]} ELSE @ \ {l[3]}]
  /\ l[1] = "353" =>
       /\ In(x) /\ DOMAIN x.members \subseteq DOMAIN y.members
       /\ \A n \in DOMAIN x.members : x.members[n] \subseteq y.members[n]
       /\ l[2] = [n \in DOMAIN y.members |-> Ch!Prefixes(y.members[n])]
  /\ l[1] \in {"470", "479", "433", "435"} => y = x

\* Whether a CChan shows a picture.  A channel in which ZNC is not has neither nicks nor
\* permissions; one that was deleted while ZNC was in it may have anything.
Absent(c) == c = NoChan \/ ~c.on
Full(c, p) == /\ DOMAIN c.nicks = DOMAIN p.members
              /\ \A n \in DOMAIN p.members : /\ c.nicks[n] \subseteq p.members[n]
                                             /\ namesx => c.nicks[n] = p.members[n]
              /\ c.perms = c.nicks[p.me]
Clean(c) == c # NoChan => ~c.on /\ c.nicks = Ch!NoNicks /\ c.perms = {}
Sync(c, p) == IF In(p) THEN Absent(c) \/ Full(c, p) ELSE Clean(c)

\* A channel that was deleted while ZNC was in it will be left.
Leaving(o) == \E i \in DOMAIN o : o[i][1] = "PART"

\* The pictures h lead to p by the lines w.
Recounts(h, w, p) ==
  /\ h \in Seq(Pictures) /\ Len(h) = Len(w) + 1 /\ h[Len(h)] = p
  /\ \A i \in 1..Len(w) : Leads(h[i], w[i], h[i + 1])
EverOut(h) == \E i \in 1..Len(h) : ~In(h[i])

\* ZNC has the first picture.
Starts(h) == /\ connected => nick = h[1].me
             /\ Sync(chan, h[1])
             /\ In(h[1]) /\ Absent(chan) => Leaving(out) \/ EverOut(h)

MirrorInv == /\ Ch!TypeOK
             /\ me # other /\ DOMAIN members \subseteq {me, other}
             /\ out \in Seq(ClientLines) /\ wire \in Seq(ChannelLines)
             /\ ~connected => out = <<>> /\ wire = <<>> /\ members = Ch!NoNicks
             /\ \E h : Recounts(h, wire, Now) /\ Starts(h)

-----------------------------------------------------------------------------
(* Nick lists and the CChan *)

LEMMA NickMapsFacts ==
  ASSUME NEW f
  PROVE  f \in Ch!NickMaps <=> /\ f = [n \in DOMAIN f |-> f[n]] /\ DOMAIN f \subseteq Ch!Nicks
                               /\ \A n \in DOMAIN f : f[n] \subseteq Ch!Perms
<1>1. ASSUME f \in Ch!NickMaps
      PROVE  /\ f = [n \in DOMAIN f |-> f[n]] /\ DOMAIN f \subseteq Ch!Nicks
             /\ \A n \in DOMAIN f : f[n] \subseteq Ch!Perms
  <2>1. PICK D \in SUBSET Ch!Nicks : f \in [D -> SUBSET Ch!Perms]  BY <1>1 DEF Ch!NickMaps
  <2> QED  BY <2>1
<1>2. ASSUME f = [n \in DOMAIN f |-> f[n]], DOMAIN f \subseteq Ch!Nicks,
             \A n \in DOMAIN f : f[n] \subseteq Ch!Perms
      PROVE  f \in Ch!NickMaps
  <2>1. f \in [DOMAIN f -> SUBSET Ch!Perms]  BY <1>2
  <2> QED  BY <1>2, <2>1 DEF Ch!NickMaps
<1> QED  BY <1>1, <1>2

LEMMA NoNicksFacts ==
  /\ Ch!NoNicks \in Ch!NickMaps /\ DOMAIN Ch!NoNicks = {}
  /\ \A f \in Ch!NickMaps : DOMAIN f = {} => f = Ch!NoNicks
<1>1. DOMAIN Ch!NoNicks = {}  BY DEF Ch!NoNicks
<1>2. Ch!NoNicks \in [{} -> SUBSET Ch!Perms]  BY DEF Ch!NoNicks
<1>3. Ch!NoNicks \in Ch!NickMaps  BY <1>2 DEF Ch!NickMaps
<1>4. ASSUME NEW f \in Ch!NickMaps, DOMAIN f = {} PROVE f = Ch!NoNicks
  BY <1>4, NickMapsFacts DEF Ch!NoNicks
<1> QED  BY <1>1, <1>3, <1>4

LEMMA WithFacts ==
  ASSUME NEW f \in Ch!NickMaps, NEW n \in Ch!Nicks, NEW v \in SUBSET Ch!Perms
  PROVE  LET g == Ch!With(f, n, v)
         IN  /\ g \in Ch!NickMaps /\ DOMAIN g = DOMAIN f \cup {n}
             /\ g[n] = v /\ \A x \in DOMAIN f \ {n} : g[x] = f[x]
<1> DEFINE g == Ch!With(f, n, v)
<1>1. g = [x \in DOMAIN f \cup {n} |-> IF x = n THEN v ELSE f[x]]  BY DEF Ch!With
<1>2. DOMAIN g = DOMAIN f \cup {n} /\ \A x \in DOMAIN g : g[x] = IF x = n THEN v ELSE f[x]
  BY <1>1
<1> HIDE DEF g
<1>3. DOMAIN f \subseteq Ch!Nicks /\ \A x \in DOMAIN f : f[x] \subseteq Ch!Perms
  BY NickMapsFacts
<1>4. DOMAIN g \subseteq Ch!Nicks /\ \A x \in DOMAIN g : g[x] \subseteq Ch!Perms
  BY <1>2, <1>3
<1>5. g = [x \in DOMAIN g |-> g[x]]  BY <1>1
<1>6. g \in Ch!NickMaps  BY <1>4, <1>5, NickMapsFacts
<1> QED  BY <1>2, <1>6 DEF g

LEMMA AloneFacts ==
  ASSUME NEW n \in Ch!Nicks
  PROVE  LET f == Ch!With(Ch!NoNicks, n, {})
         IN  f \in Ch!NickMaps /\ DOMAIN f = {n} /\ f[n] = {}
<1> DEFINE v == {}  z == Ch!NoNicks  f == Ch!With(z, n, v)
<1>1. v \in SUBSET Ch!Perms  OBVIOUS
<1>2. z \in Ch!NickMaps /\ DOMAIN z = {}  BY NoNicksFacts
<1> HIDE DEF v, z
<1>3. f \in Ch!NickMaps /\ DOMAIN f = DOMAIN z \cup {n} /\ f[n] = v  BY <1>1, <1>2, WithFacts
<1>4. Ch!With(Ch!NoNicks, n, {}) = f  BY DEF v, z
<1> HIDE DEF f
<1> QED  BY <1>2, <1>3, <1>4 DEF v

LEMMA WithoutFacts ==
  ASSUME NEW f \in Ch!NickMaps, NEW n
  PROVE  LET g == Ch!Without(f, n)
         IN  /\ g \in Ch!NickMaps /\ DOMAIN g = DOMAIN f \ {n}
             /\ \A x \in DOMAIN g : g[x] = f[x]
<1> DEFINE g == Ch!Without(f, n)
<1>1. g = [x \in DOMAIN f \ {n} |-> f[x]]  BY DEF Ch!Without
<1>2. DOMAIN g = DOMAIN f \ {n} /\ \A x \in DOMAIN g : g[x] = f[x]  BY <1>1
<1> HIDE DEF g
<1>3. DOMAIN f \subseteq Ch!Nicks /\ \A x \in DOMAIN f : f[x] \subseteq Ch!Perms
  BY NickMapsFacts
<1>4. DOMAIN g \subseteq Ch!Nicks /\ \A x \in DOMAIN g : g[x] \subseteq Ch!Perms
  BY <1>2, <1>3
<1>5. g = [x \in DOMAIN g |-> g[x]]  BY <1>1
<1>6. g \in Ch!NickMaps  BY <1>4, <1>5, NickMapsFacts
<1> QED  BY <1>2, <1>6 DEF g

\* What becomes of a list when a nick changes.
IsRenamed(f, old, new, g) ==
  /\ old \notin DOMAIN f => g = f
  /\ old \in DOMAIN f => /\ DOMAIN g = (DOMAIN f \ {old}) \cup {new}
                         /\ g[new] = f[old]
                         /\ \A x \in DOMAIN f \ {old, new} : g[x] = f[x]

LEMMA RenamedFacts ==
  ASSUME NEW f \in Ch!NickMaps, NEW old, NEW new \in Ch!Nicks
  PROVE  LET g == Ch!Renamed(f, old, new)
         IN  g \in Ch!NickMaps /\ IsRenamed(f, old, new, g)
<1>1. CASE old \notin DOMAIN f  BY <1>1 DEF Ch!Renamed, IsRenamed
<1>2. CASE old \in DOMAIN f
  <2> DEFINE w == Ch!Without(f, old)
  <2>1. f[old] \in SUBSET Ch!Perms  BY <1>2, NickMapsFacts
  <2>2. w \in Ch!NickMaps /\ DOMAIN w = DOMAIN f \ {old} /\ \A x \in DOMAIN w : w[x] = f[x]
    BY WithoutFacts
  <2>3. Ch!Renamed(f, old, new) = Ch!With(w, new, f[old])  BY <1>2 DEF Ch!Renamed
  <2> DEFINE v == f[old]  g == Ch!With(w, new, v)
  <2> HIDE DEF w, v
  <2>4. v \in SUBSET Ch!Perms  BY <2>1 DEF v
  <2>5. /\ g \in Ch!NickMaps /\ DOMAIN g = DOMAIN w \cup {new}
        /\ g[new] = v /\ \A x \in DOMAIN w \ {new} : g[x] = w[x]
    BY <2>2, <2>4, WithFacts
  <2>6. Ch!Renamed(f, old, new) = g  BY <2>3 DEF v
  <2> HIDE DEF g
  <2> QED  BY <1>2, <2>2, <2>5, <2>6 DEF v, IsRenamed
<1> QED  BY <1>1, <1>2

LEMMA CChanFacts ==
  /\ Ch!CChan \in Ch!CChans /\ Absent(Ch!CChan) /\ Clean(Ch!CChan) /\ Ch!CChan.tries = 0
  /\ Absent(NoChan) /\ Clean(NoChan)
<1>1. Ch!CChan \in Ch!CChans  BY NoNicksFacts DEF Ch!CChan, Ch!CChans
<1> QED  BY <1>1 DEF Ch!CChan, Absent, Clean

\* Of a nick and what is shown of it in a list.
LEMMA OfFacts ==
  ASSUME NEW f \in Ch!NickMaps, NEW n
  PROVE  /\ Ch!Of(f, n) \in SUBSET Ch!Perms
         /\ n \in DOMAIN f => Ch!Of(f, n) = f[n]
         /\ n \notin DOMAIN f => Ch!Of(f, n) = {}
  BY NickMapsFacts DEF Ch!Of

\* CChan::AddNick for every nick of a list.
LEMMA AddNicksFacts ==
  ASSUME NEW c \in Ch!CChans, NEW f \in Ch!NickMaps
  PROVE  LET d == Ch!AddNicks(c, f)
         IN  /\ d \in Ch!CChans /\ d.on = c.on /\ d.disabled = c.disabled /\ d.tries = c.tries
             /\ DOMAIN d.nicks = DOMAIN c.nicks \cup DOMAIN f
             /\ \A n \in DOMAIN d.nicks : d.nicks[n] = Ch!Of(c.nicks, n) \cup Ch!Of(f, n)
             /\ d.perms = c.perms \cup Ch!Of(f, nick)
<1> DEFINE g == [n \in DOMAIN c.nicks \cup DOMAIN f |-> Ch!Of(c.nicks, n) \cup Ch!Of(f, n)]
           p == c.perms \cup Ch!Of(f, nick)
<1>1. c.nicks \in Ch!NickMaps /\ c.perms \in SUBSET Ch!Perms  BY DEF Ch!CChans
<1>2. DOMAIN g = DOMAIN c.nicks \cup DOMAIN f
  OBVIOUS
<1>3. \A n \in DOMAIN g : g[n] = Ch!Of(c.nicks, n) \cup Ch!Of(f, n)
  OBVIOUS
<1>4. DOMAIN g \subseteq Ch!Nicks /\ \A n \in DOMAIN g : g[n] \subseteq Ch!Perms
  BY <1>1, <1>2, <1>3, NickMapsFacts, OfFacts
<1>5. g \in Ch!NickMaps
  <2>1. g = [n \in DOMAIN g |-> g[n]]  OBVIOUS
  <2> HIDE DEF g
  <2> QED  BY <1>4, <2>1, NickMapsFacts
<1>6. p \in SUBSET Ch!Perms  BY <1>1, OfFacts
<1>7. Ch!AddNicks(c, f) = [c EXCEPT !.nicks = g, !.perms = p]  BY DEF Ch!AddNicks
<1> HIDE DEF g, p
<1>8. LET d == [c EXCEPT !.nicks = g, !.perms = p]
      IN  /\ d \in Ch!CChans /\ d.on = c.on /\ d.disabled = c.disabled /\ d.tries = c.tries
          /\ d.nicks = g /\ d.perms = p
  BY <1>5, <1>6 DEF Ch!CChans
<1>9. p = c.perms \cup Ch!Of(f, nick)  BY DEF p
<1> QED  BY <1>2, <1>3, <1>7, <1>8, <1>9

\* CChan::AddNick
LEMMA AddNickFacts ==
  ASSUME NEW c \in Ch!CChans, NEW n \in Ch!Nicks
  PROVE  LET d == Ch!AddNick(c, n, {})
         IN  /\ d \in Ch!CChans /\ d.on = c.on /\ d.tries = c.tries /\ d.perms = c.perms
             /\ DOMAIN d.nicks = DOMAIN c.nicks \cup {n}
             /\ \A x \in DOMAIN c.nicks : d.nicks[x] = c.nicks[x]
             /\ n \notin DOMAIN c.nicks => d.nicks[n] = {}
<1> DEFINE f == Ch!With(Ch!NoNicks, n, {})
           d == Ch!AddNicks(c, f)
<1>1. f \in Ch!NickMaps /\ DOMAIN f = {n} /\ f[n] = {}  BY AloneFacts
<1> HIDE DEF f
<1>2. c.nicks \in Ch!NickMaps /\ c.perms \in SUBSET Ch!Perms  BY DEF Ch!CChans
<1>3. /\ d \in Ch!CChans /\ d.on = c.on /\ d.disabled = c.disabled /\ d.tries = c.tries
      /\ DOMAIN d.nicks = DOMAIN c.nicks \cup DOMAIN f
      /\ \A x \in DOMAIN d.nicks : d.nicks[x] = Ch!Of(c.nicks, x) \cup Ch!Of(f, x)
      /\ d.perms = c.perms \cup Ch!Of(f, nick)
  BY <1>1, AddNicksFacts
<1>4. \A x : Ch!Of(f, x) = {}  BY <1>1 DEF Ch!Of
<1>5. Ch!AddNick(c, n, {}) = d  BY DEF Ch!AddNick, f
<1> HIDE DEF d
<1>6. d.perms = c.perms  BY <1>3, <1>4
<1>7. \A x \in DOMAIN d.nicks : d.nicks[x] = Ch!Of(c.nicks, x)  BY <1>3, <1>4
<1>8. DOMAIN d.nicks = DOMAIN c.nicks \cup {n}  BY <1>1, <1>3
<1>9. \A x \in DOMAIN c.nicks : d.nicks[x] = c.nicks[x]  BY <1>7, <1>8 DEF Ch!Of
<1>10. n \notin DOMAIN c.nicks => d.nicks[n] = {}  BY <1>7, <1>8 DEF Ch!Of
<1> QED  BY <1>3, <1>5, <1>6, <1>8, <1>9, <1>10

\* The other operations of CChan.
LEMMA ChanFacts ==
  ASSUME NEW c \in Ch!CChans
  PROVE  /\ LET d == Ch!Reset(c)
            IN  d \in Ch!CChans /\ ~d.on /\ d.tries = 0 /\ d.nicks = Ch!NoNicks /\ d.perms = {}
         /\ LET d == Ch!Enable(c)
            IN  /\ d \in Ch!CChans /\ d.on = c.on /\ d.tries = 0
                /\ d.nicks = c.nicks /\ d.perms = c.perms
         /\ LET d == [Ch!Enable(c) EXCEPT !.on = TRUE]
            IN  /\ d \in Ch!CChans /\ d.on /\ d.tries = 0
                /\ d.nicks = c.nicks /\ d.perms = c.perms
         /\ LET d == Ch!Disable(c)
            IN  /\ d \in Ch!CChans /\ d.on = c.on /\ d.tries = c.tries
                /\ d.nicks = c.nicks /\ d.perms = c.perms
         /\ LET d == [c EXCEPT !.tries = @ + 1]
            IN  /\ d \in Ch!CChans /\ d.on = c.on /\ d.tries = c.tries + 1
                /\ d.nicks = c.nicks /\ d.perms = c.perms
<1>1. Ch!Reset(c) \in Ch!CChans  BY NoNicksFacts DEF Ch!CChans, Ch!Reset
<1>2. Ch!Enable(c) \in Ch!CChans  BY DEF Ch!CChans, Ch!Enable
<1>3. [Ch!Enable(c) EXCEPT !.on = TRUE] \in Ch!CChans  BY <1>2 DEF Ch!CChans
<1>4. Ch!Disable(c) \in Ch!CChans  BY DEF Ch!CChans, Ch!Disable
<1>5. [c EXCEPT !.tries = @ + 1] \in Ch!CChans  BY DEF Ch!CChans
<1> QED  BY <1>1, <1>2, <1>3, <1>4, <1>5 DEF Ch!CChans, Ch!Reset, Ch!Enable, Ch!Disable

LEMMA RemNickFacts ==
  ASSUME NEW c \in Ch!CChans, NEW n
  PROVE  LET d == Ch!RemNick(c, n)
         IN  /\ d \in Ch!CChans /\ d.on = c.on /\ d.tries = c.tries /\ d.perms = c.perms
             /\ DOMAIN d.nicks = DOMAIN c.nicks \ {n}
             /\ \A x \in DOMAIN d.nicks : d.nicks[x] = c.nicks[x]
<1> DEFINE g == Ch!Without(c.nicks, n)
<1>1. c.nicks \in Ch!NickMaps  BY DEF Ch!CChans
<1>2. g \in Ch!NickMaps /\ DOMAIN g = DOMAIN c.nicks \ {n} /\ \A x \in DOMAIN g : g[x] = c.nicks[x]
  BY <1>1, WithoutFacts
<1>3. Ch!RemNick(c, n) = [c EXCEPT !.nicks = g]  BY DEF Ch!RemNick
<1> HIDE DEF g
<1>4. LET d == [c EXCEPT !.nicks = g]
      IN  /\ d \in Ch!CChans /\ d.on = c.on /\ d.tries = c.tries /\ d.perms = c.perms
          /\ d.nicks = g
  BY <1>2 DEF Ch!CChans
<1> QED  BY <1>2, <1>3, <1>4

LEMMA ChangeNickFacts ==
  ASSUME NEW c \in Ch!CChans, NEW old, NEW new \in Ch!Nicks
  PROVE  LET d == Ch!ChangeNick(c, old, new)
         IN  /\ d \in Ch!CChans /\ d.on = c.on /\ d.tries = c.tries /\ d.perms = c.perms
             /\ d.nicks = Ch!Renamed(c.nicks, old, new)
<1> DEFINE g == Ch!Renamed(c.nicks, old, new)
<1>1. c.nicks \in Ch!NickMaps  BY DEF Ch!CChans
<1>2. g \in Ch!NickMaps  BY <1>1, RenamedFacts
<1>3. Ch!ChangeNick(c, old, new) = [c EXCEPT !.nicks = g]  BY DEF Ch!ChangeNick
<1> HIDE DEF g
<1>4. LET d == [c EXCEPT !.nicks = g]
      IN  /\ d \in Ch!CChans /\ d.on = c.on /\ d.tries = c.tries /\ d.perms = c.perms
          /\ d.nicks = g
  BY <1>2 DEF Ch!CChans
<1> QED  BY <1>3, <1>4 DEF g

\* A permission is given or taken.
Toggled(s, p, add) == IF add THEN s \cup {p} ELSE s \ {p}

LEMMA ModeChangeFacts ==
  ASSUME NEW c \in Ch!CChans, NEW n, NEW p \in Ch!Perms, NEW add \in BOOLEAN
  PROVE  LET d == Ch!ModeChange(c, n, p, add)
         IN  /\ d \in Ch!CChans /\ d.on = c.on /\ d.tries = c.tries
             /\ n \notin DOMAIN c.nicks => d = c
             /\ n \in DOMAIN c.nicks =>
                  /\ DOMAIN d.nicks = DOMAIN c.nicks
                  /\ d.nicks[n] = Toggled(c.nicks[n], p, add)
                  /\ \A x \in DOMAIN c.nicks \ {n} : d.nicks[x] = c.nicks[x]
                  /\ d.perms = IF n = nick THEN Toggled(c.perms, p, add) ELSE c.perms
<1>1. CASE n \notin DOMAIN c.nicks  BY <1>1 DEF Ch!ModeChange
<1>2. CASE n \in DOMAIN c.nicks
  <2> DEFINE v == Toggled(c.nicks[n], p, add)
             g == [c.nicks EXCEPT ![n] = v]
             q == IF n = nick THEN Toggled(c.perms, p, add) ELSE c.perms
  <2>1. c.nicks \in Ch!NickMaps /\ c.perms \in SUBSET Ch!Perms  BY DEF Ch!CChans
  <2>2. c.nicks[n] \in SUBSET Ch!Perms  BY <1>2, <2>1, NickMapsFacts
  <2>3. v \in SUBSET Ch!Perms /\ q \in SUBSET Ch!Perms  BY <2>1, <2>2 DEF Toggled
  <2>4. Ch!ModeChange(c, n, p, add) = [c EXCEPT !.nicks = g, !.perms = q]
    <3>1. Ch!ModeChange(c, n, p, add) =
            [c EXCEPT !.nicks[n] = Toggled(@, p, add),
                      !.perms = IF n = nick THEN Toggled(@, p, add) ELSE @]
      BY <1>2, Zenon DEF Ch!ModeChange, Toggled
    <3> QED  BY <3>1 DEF Ch!CChans
  <2> HIDE DEF v
  <2>5. DOMAIN g = DOMAIN c.nicks /\ g[n] = v /\ \A x \in DOMAIN c.nicks \ {n} : g[x] = c.nicks[x]
    BY <1>2
  <2>6. g \in Ch!NickMaps
    <3>1. DOMAIN g \subseteq Ch!Nicks /\ \A x \in DOMAIN g : g[x] \subseteq Ch!Perms
      BY <2>1, <2>3, <2>5, NickMapsFacts
    <3>2. g = [x \in DOMAIN g |-> g[x]]  OBVIOUS
    <3> HIDE DEF g
    <3> QED  BY <3>1, <3>2, NickMapsFacts
  <2> HIDE DEF g, q
  <2>7. LET d == [c EXCEPT !.nicks = g, !.perms = q]
        IN  /\ d \in Ch!CChans /\ d.on = c.on /\ d.tries = c.tries
            /\ d.nicks = g /\ d.perms = q
    BY <2>3, <2>6 DEF Ch!CChans
  <2> QED  BY <1>2, <2>4, <2>5, <2>7 DEF v, q
<1> QED  BY <1>1, <1>2
-----------------------------------------------------------------------------
(* What a line does to the belief, of the CChan alone *)

LEMMA PictureFacts ==
  ASSUME NEW x \in Pictures
  PROVE  /\ x.me \in Ch!Nicks /\ x.members \in Ch!NickMaps /\ DOMAIN x.members \subseteq Ch!Nicks
         /\ ~In(x) => x.members = Ch!NoNicks /\ DOMAIN x.members = {}
         /\ x.members = Ch!NoNicks => ~In(x)
<1>1. x.me \in Ch!Nicks /\ x.members \in Ch!NickMaps  BY DEF Pictures
<1>2. DOMAIN x.members \subseteq Ch!Nicks  BY <1>1, NickMapsFacts
<1> QED  BY <1>1, <1>2, NoNicksFacts DEF Pictures, In

Tried(c) == c # NoChan /\ JoinTries # 0 => c.tries <= JoinTries

\* The belief and the two pictures between which a line lies.
Lagging(x, y) == /\ x \in Pictures /\ y \in Pictures /\ nick = x.me
                 /\ chan \in Ch!CChans \cup {NoChan} /\ Tried(chan) /\ Sync(chan, x)

\* What the CChan c must be once the line is read: the second picture, and if ZNC is not
\* aware of the channel any more, it was not before either.
Caught(c, x, y) == /\ c \in Ch!CChans \cup {NoChan} /\ Tried(c) /\ Sync(c, y)
                   /\ In(y) /\ Absent(c) => In(x) /\ Absent(chan)

LEMMA CaughtStays ==
  ASSUME NEW x, NEW y, In(x), In(y), Absent(chan),
         NEW c \in Ch!CChans \cup {NoChan}, Tried(c), Absent(c)
  PROVE  Caught(c, x, y)
  BY DEF Caught, Sync

LEMMA CaughtLeft ==
  ASSUME NEW x, NEW y, ~In(y), NEW c \in Ch!CChans \cup {NoChan}, Tried(c), Clean(c)
  PROVE  Caught(c, x, y)
  BY DEF Caught, Sync

LEMMA CaughtFull ==
  ASSUME NEW x, NEW y, In(y), NEW c \in Ch!CChans, Tried(c), c.on, Full(c, y)
  PROVE  Caught(c, x, y)
<1>1. ~Absent(c)  BY NoChanAssumption DEF Absent
<1> QED  BY <1>1 DEF Caught, Sync

\* A channel that ZNC is in, or one of which it does not know that it is in.
LEMMA SyncIn ==
  ASSUME NEW x, NEW c, Sync(c, x), In(x), ~Absent(c)
  PROVE  Full(c, x)
  BY DEF Sync

\* JOIN of our own nick.
LEMMA JoinMe ==
  ASSUME NEW x, NEW y, Lagging(x, y), NEW m, m = x.me,
         x.members = Ch!NoNicks, y.me = m,
         y.members = Ch!With(Ch!NoNicks, m, {}),
         NEW c \in Ch!CChans, c = Ch!CChan \/ c = chan
  PROVE  Caught(Ch!AddNick([Ch!Enable(c) EXCEPT !.on = TRUE], m, {}), x, y)
<1> DEFINE e == [Ch!Enable(c) EXCEPT !.on = TRUE]  d == Ch!AddNick(e, m, {})
<1>1. m \in Ch!Nicks /\ ~In(x)  BY PictureFacts DEF Lagging
<1>2. c # NoChan  BY NoChanAssumption
<1>3. c.nicks = Ch!NoNicks /\ c.perms = {}
  <2>1. CASE c = Ch!CChan  BY <2>1 DEF Ch!CChan
  <2>2. CASE c = chan  BY <1>1, <1>2, <2>2 DEF Lagging, Sync, Clean
  <2> QED  BY <2>1, <2>2
<1>4. e \in Ch!CChans /\ e.on /\ e.tries = 0 /\ e.nicks = c.nicks /\ e.perms = c.perms
  BY ChanFacts
<1> HIDE DEF e
<1>5. /\ d \in Ch!CChans /\ d.on = e.on /\ d.tries = e.tries /\ d.perms = e.perms
      /\ DOMAIN d.nicks = DOMAIN e.nicks \cup {m}
      /\ m \notin DOMAIN e.nicks => d.nicks[m] = {}
  <2>1. e \in Ch!CChans  BY <1>4
  <2>2. m \in Ch!Nicks  BY <1>1
  <2> QED  BY <2>1, <2>2, AddNickFacts, Zenon
<1> HIDE DEF d
<1>6. DOMAIN d.nicks = {m} /\ d.nicks[m] = {} /\ d.perms = {} /\ d.on /\ d.tries = 0
  BY <1>3, <1>4, <1>5, NoNicksFacts
<1>7. DOMAIN y.members = {m} /\ y.members[m] = {}  BY <1>1, AloneFacts
<1>8. In(y) /\ Full(d, y)  BY <1>6, <1>7 DEF In, Full
<1>9. Tried(d)  BY <1>6, BoundsAssumption DEF Tried
<1>10. Caught(d, x, y)  BY <1>5, <1>6, <1>8, <1>9, CaughtFull
<1> QED  BY <1>10 DEF d, e

\* JOIN of somebody else.
LEMMA JoinOther ==
  ASSUME NEW x, NEW y, Lagging(x, y), chan # NoChan, In(x), NEW n \in Ch!Nicks,
         n \notin DOMAIN x.members, y.me = x.me, y.members = Ch!With(x.members, n, {})
  PROVE  Caught(Ch!AddNick(chan, n, {}), x, y)
<1> DEFINE d == Ch!AddNick(chan, n, {})  v == {}
<1>1. chan \in Ch!CChans /\ x.members \in Ch!NickMaps  BY PictureFacts DEF Lagging
<1>2. /\ d \in Ch!CChans /\ d.on = chan.on /\ d.tries = chan.tries /\ d.perms = chan.perms
      /\ DOMAIN d.nicks = DOMAIN chan.nicks \cup {n}
      /\ \A z \in DOMAIN chan.nicks : d.nicks[z] = chan.nicks[z]
      /\ n \notin DOMAIN chan.nicks => d.nicks[n] = {}
  BY <1>1, AddNickFacts
<1>3. /\ DOMAIN y.members = DOMAIN x.members \cup {n} /\ y.members[n] = {}
      /\ \A z \in DOMAIN x.members : y.members[z] = x.members[z]
  <2>1. y.members = Ch!With(x.members, n, v) /\ v \in SUBSET Ch!Perms  OBVIOUS
  <2> HIDE DEF v, d
  <2>2. LET g == Ch!With(x.members, n, v)
        IN  /\ DOMAIN g = DOMAIN x.members \cup {n}
            /\ g[n] = v /\ \A z \in DOMAIN x.members \ {n} : g[z] = x.members[z]
    BY <1>1, <2>1, WithFacts
  <2> QED  BY <2>1, <2>2 DEF v
<1> HIDE DEF d
<1>4. In(y)  BY <1>3 DEF In
<1>5. Tried(d)  BY <1>2 DEF Tried, Lagging
<1>6. CASE Absent(chan)
  <2>1. Absent(d)  BY <1>2, <1>6 DEF Absent
  <2>2. Caught(d, x, y)  BY <1>2, <1>4, <1>5, <1>6, <2>1, CaughtStays
  <2> QED  BY <2>2 DEF d
<1>7. CASE ~Absent(chan)
  <2>1. Full(chan, x)  BY <1>7, SyncIn DEF Lagging
  <2>2. Full(d, y)  BY <1>2, <1>3, <2>1 DEF Full, In
  <2>3. d.on  BY <1>2, <1>7 DEF Absent
  <2>4. Caught(d, x, y)  BY <1>2, <1>4, <1>5, <2>2, <2>3, CaughtFull
  <2> QED  BY <2>4 DEF d
<1> QED  BY <1>6, <1>7

\* PART, KICK or QUIT of somebody else.
LEMMA LeaveOther ==
  ASSUME NEW x, NEW y, Lagging(x, y), chan # NoChan, In(x), NEW n, n # x.me,
         y.me = x.me, y.members = Ch!Without(x.members, n)
  PROVE  Caught(Ch!RemNick(chan, n), x, y)
<1> DEFINE d == Ch!RemNick(chan, n)
<1>1. chan \in Ch!CChans /\ x.members \in Ch!NickMaps  BY PictureFacts DEF Lagging
<1>2. /\ d \in Ch!CChans /\ d.on = chan.on /\ d.tries = chan.tries /\ d.perms = chan.perms
      /\ DOMAIN d.nicks = DOMAIN chan.nicks \ {n}
      /\ \A z \in DOMAIN d.nicks : d.nicks[z] = chan.nicks[z]
  BY <1>1, RemNickFacts
<1>3. /\ DOMAIN y.members = DOMAIN x.members \ {n}
      /\ \A z \in DOMAIN y.members : y.members[z] = x.members[z]
  <2> DEFINE f == x.members  g == Ch!Without(f, n)
  <2>1. f \in Ch!NickMaps /\ y.members = g  BY <1>1
  <2> HIDE DEF f
  <2>2. DOMAIN g = DOMAIN f \ {n} /\ \A z \in DOMAIN g : g[z] = f[z]  BY <2>1, WithoutFacts
  <2> HIDE DEF g
  <2> QED  BY <2>1, <2>2 DEF f
<1> HIDE DEF d
<1>4. In(y)  BY <1>3 DEF In
<1>5. Tried(d)  BY <1>2 DEF Tried, Lagging
<1>6. CASE Absent(chan)
  <2>1. Absent(d)  BY <1>2, <1>6 DEF Absent
  <2>2. Caught(d, x, y)  BY <1>2, <1>4, <1>5, <1>6, <2>1, CaughtStays
  <2> QED  BY <2>2 DEF d
<1>7. CASE ~Absent(chan)
  <2>1. Full(chan, x)  BY <1>7, SyncIn DEF Lagging
  <2>2. Full(d, y)  BY <1>2, <1>3, <2>1 DEF Full, In
  <2>3. d.on  BY <1>2, <1>7 DEF Absent
  <2>4. Caught(d, x, y)  BY <1>2, <1>4, <1>5, <2>2, <2>3, CaughtFull
  <2> QED  BY <2>4 DEF d
<1> QED  BY <1>6, <1>7

\* NICK of anybody; new is what our own nick is then.
LEMMA NickChanges ==
  ASSUME NEW x, NEW y, Lagging(x, y), chan # NoChan, NEW old,
         NEW new \in Ch!Nicks, new # x.me, new \notin DOMAIN x.members,
         y.me = (IF old = x.me THEN new ELSE x.me), y.members = Ch!Renamed(x.members, old, new)
  PROVE  Caught(Ch!ChangeNick(chan, old, new), x, y)
<1> DEFINE d == Ch!ChangeNick(chan, old, new)
<1>1. chan \in Ch!CChans /\ x.members \in Ch!NickMaps  BY PictureFacts DEF Lagging
<1>2. /\ d \in Ch!CChans /\ d.on = chan.on /\ d.tries = chan.tries /\ d.perms = chan.perms
      /\ d.nicks = Ch!Renamed(chan.nicks, old, new)
  BY <1>1, ChangeNickFacts
<1> HIDE DEF d
<1>3. IsRenamed(x.members, old, new, y.members)
  <2> DEFINE f == x.members
  <2>1. f \in Ch!NickMaps /\ y.members = Ch!Renamed(f, old, new)  BY <1>1
  <2> HIDE DEF f
  <2>2. IsRenamed(f, old, new, Ch!Renamed(f, old, new))  BY <2>1, RenamedFacts
  <2> QED  BY <2>1, <2>2 DEF f
<1>4. IsRenamed(chan.nicks, old, new, d.nicks)
  <2> DEFINE f == chan.nicks
  <2>1. f \in Ch!NickMaps /\ d.nicks = Ch!Renamed(f, old, new)  BY <1>1, <1>2 DEF Ch!CChans
  <2> HIDE DEF f
  <2>2. IsRenamed(f, old, new, Ch!Renamed(f, old, new))  BY <2>1, RenamedFacts
  <2> QED  BY <2>1, <2>2 DEF f
<1>5. Tried(d)  BY <1>2 DEF Tried, Lagging
<1>6. CASE ~In(x)
  <2>1. Clean(chan) /\ DOMAIN x.members = {}  BY <1>6, PictureFacts DEF Lagging, Sync
  <2>2. ~In(y)  BY <1>3, <2>1 DEF In, IsRenamed
  <2>3. Clean(d)  BY <1>1, <1>2, <1>4, <2>1, NoNicksFacts DEF Clean, IsRenamed
  <2>4. Caught(d, x, y)  BY <1>2, <1>5, <2>2, <2>3, CaughtLeft
  <2> QED  BY <2>4 DEF d
<1>7. In(x) => In(y)  BY <1>3 DEF In, IsRenamed
<1>8. CASE In(x) /\ Absent(chan)
  <2>1. Absent(d)  BY <1>2, <1>8 DEF Absent
  <2>2. Caught(d, x, y)  BY <1>2, <1>5, <1>7, <1>8, <2>1, CaughtStays
  <2> QED  BY <2>2 DEF d
<1>9. CASE In(x) /\ ~Absent(chan)
  <2>1. Full(chan, x)  BY <1>9, SyncIn DEF Lagging
  <2>2. Full(d, y)
    <3>1. CASE old \notin DOMAIN x.members
      BY <1>2, <1>3, <1>4, <1>9, <2>1, <3>1 DEF Full, In, IsRenamed
    <3>2. CASE old \in DOMAIN x.members
      <4>1. DOMAIN chan.nicks = DOMAIN x.members /\ chan.perms = chan.nicks[x.me]
        BY <2>1 DEF Full
      <4>2. DOMAIN d.nicks = DOMAIN y.members  BY <1>3, <1>4, <3>2, <4>1 DEF IsRenamed
      <4>3. \A z \in DOMAIN y.members : /\ d.nicks[z] \subseteq y.members[z]
                                        /\ namesx => d.nicks[z] = y.members[z]
        BY <1>3, <1>4, <2>1, <3>2, <4>1 DEF Full, IsRenamed
      <4>4. d.nicks[y.me] = chan.nicks[x.me]  BY <1>4, <1>9, <3>2, <4>1 DEF In, IsRenamed
      <4> QED  BY <1>2, <4>1, <4>2, <4>3, <4>4 DEF Full
    <3> QED  BY <3>1, <3>2
  <2>3. d.on  BY <1>2, <1>9 DEF Absent
  <2>4. Caught(d, x, y)  BY <1>2, <1>5, <1>7, <1>9, <2>2, <2>3, CaughtFull
  <2> QED  BY <2>4 DEF d
<1> QED  BY <1>6, <1>8, <1>9

\* MODE: a permission is given or taken.
LEMMA ModeChanges ==
  ASSUME NEW x, NEW y, Lagging(x, y), chan # NoChan, In(x), NEW n \in DOMAIN x.members,
         NEW p \in Ch!Perms, NEW add \in BOOLEAN, y.me = x.me,
         y.members = [x.members EXCEPT ![n] = IF add THEN @ \cup {p} ELSE @ \ {p}]
  PROVE  Caught(Ch!ModeChange(chan, n, p, add), x, y)
<1> DEFINE d == Ch!ModeChange(chan, n, p, add)
<1>1. chan \in Ch!CChans /\ x.members \in Ch!NickMaps /\ nick = x.me
  BY PictureFacts DEF Lagging
<1>2. /\ d \in Ch!CChans /\ d.on = chan.on /\ d.tries = chan.tries
      /\ n \notin DOMAIN chan.nicks => d = chan
      /\ n \in DOMAIN chan.nicks =>
           /\ DOMAIN d.nicks = DOMAIN chan.nicks
           /\ d.nicks[n] = Toggled(chan.nicks[n], p, add)
           /\ \A z \in DOMAIN chan.nicks \ {n} : d.nicks[z] = chan.nicks[z]
           /\ d.perms = IF n = nick THEN Toggled(chan.perms, p, add) ELSE chan.perms
  BY <1>1, ModeChangeFacts
<1> HIDE DEF d
<1>3. /\ DOMAIN y.members = DOMAIN x.members
      /\ y.members[n] = Toggled(x.members[n], p, add)
      /\ \A z \in DOMAIN x.members \ {n} : y.members[z] = x.members[z]
  <2>1. x.members = [z \in DOMAIN x.members |-> x.members[z]]  BY <1>1, NickMapsFacts
  <2> QED  BY <2>1 DEF Toggled
<1>4. In(y)  BY <1>3 DEF In
<1>5. Tried(d)  BY <1>2 DEF Tried, Lagging
<1>6. CASE Absent(chan)
  <2>1. Absent(d)  BY <1>2, <1>6 DEF Absent
  <2>2. Caught(d, x, y)  BY <1>2, <1>4, <1>5, <1>6, <2>1, CaughtStays
  <2> QED  BY <2>2 DEF d
<1>7. CASE ~Absent(chan)
  <2>1. Full(chan, x)  BY <1>7, SyncIn DEF Lagging
  <2>2. DOMAIN chan.nicks = DOMAIN x.members /\ chan.perms = chan.nicks[x.me]
    BY <2>1 DEF Full
  <2>3. \A z \in DOMAIN y.members : /\ d.nicks[z] \subseteq y.members[z]
                                    /\ namesx => d.nicks[z] = y.members[z]
    <3>1. /\ d.nicks[n] \subseteq y.members[n]
          /\ namesx => d.nicks[n] = y.members[n]
      <4>1. chan.nicks[n] \subseteq x.members[n] /\ (namesx => chan.nicks[n] = x.members[n])
        BY <2>1 DEF Full
      <4> QED  BY <1>2, <1>3, <2>2, <4>1 DEF Toggled
    <3>2. ASSUME NEW z \in DOMAIN y.members, z # n
          PROVE  d.nicks[z] \subseteq y.members[z] /\ (namesx => d.nicks[z] = y.members[z])
      <4>1. chan.nicks[z] \subseteq x.members[z] /\ (namesx => chan.nicks[z] = x.members[z])
        BY <1>3, <2>1 DEF Full
      <4> QED  BY <1>2, <1>3, <2>2, <3>2, <4>1
    <3> QED  BY <3>1, <3>2
  <2>4. d.perms = d.nicks[y.me]
    <3>1. CASE n = x.me  BY <1>1, <1>2, <2>2, <3>1
    <3>2. CASE n # x.me  BY <1>1, <1>2, <2>2, <3>2 DEF In
    <3> QED  BY <3>1, <3>2
  <2>5. Full(d, y)  BY <1>2, <1>3, <2>2, <2>3, <2>4 DEF Full
  <2>6. d.on  BY <1>2, <1>7 DEF Absent
  <2>7. Caught(d, x, y)  BY <1>2, <1>4, <1>5, <2>5, <2>6, CaughtFull
  <2> QED  BY <2>7 DEF d
<1> QED  BY <1>6, <1>7

\* What NAMES shows of permissions is true, and with multi-prefix all of it.
LEMMA PrefixesFacts ==
  ASSUME NEW s
  PROVE  Ch!Prefixes(s) \subseteq s /\ (namesx => Ch!Prefixes(s) = s)
  BY DEF Ch!Prefixes

\* 353: what it shows is added.
LEMMA NamesShown ==
  ASSUME NEW x, NEW y, Lagging(x, y), chan # NoChan, In(x), y.me = x.me,
         DOMAIN x.members \subseteq DOMAIN y.members,
         \A n \in DOMAIN x.members : x.members[n] \subseteq y.members[n],
         NEW f, f = [n \in DOMAIN y.members |-> Ch!Prefixes(y.members[n])]
  PROVE  Caught(Ch!AddNicks(chan, f), x, y)
<1> DEFINE d == Ch!AddNicks(chan, f)
<1>1. /\ chan \in Ch!CChans /\ nick = x.me
      /\ x.members \in Ch!NickMaps /\ y.members \in Ch!NickMaps
  BY PictureFacts DEF Lagging
<1>2. DOMAIN f = DOMAIN y.members /\ \A n \in DOMAIN f : f[n] = Ch!Prefixes(y.members[n])
  OBVIOUS
<1>3. f \in Ch!NickMaps
  <2>1. f = [n \in DOMAIN f |-> f[n]]  OBVIOUS
  <2>2. \A n \in DOMAIN f : f[n] \subseteq y.members[n]  BY <1>2, PrefixesFacts
  <2>3. DOMAIN f \subseteq Ch!Nicks /\ \A n \in DOMAIN f : f[n] \subseteq Ch!Perms
    BY <1>1, <1>2, <2>2, NickMapsFacts
  <2> QED  BY <2>1, <2>3, NickMapsFacts
<1>4. /\ d \in Ch!CChans /\ d.on = chan.on /\ d.tries = chan.tries
      /\ DOMAIN d.nicks = DOMAIN chan.nicks \cup DOMAIN f
      /\ \A n \in DOMAIN d.nicks : d.nicks[n] = Ch!Of(chan.nicks, n) \cup Ch!Of(f, n)
      /\ d.perms = chan.perms \cup Ch!Of(f, nick)
  BY <1>1, <1>3, AddNicksFacts
<1> HIDE DEF d
<1>5. In(y)  BY DEF In
<1>6. Tried(d)  BY <1>4 DEF Tried, Lagging
<1>7. CASE Absent(chan)
  <2>1. Absent(d)  BY <1>4, <1>7 DEF Absent
  <2>2. Caught(d, x, y)  BY <1>4, <1>5, <1>6, <1>7, <2>1, CaughtStays
  <2> QED  BY <2>2 DEF d
<1>8. CASE ~Absent(chan)
  <2>1. Full(chan, x)  BY <1>8, SyncIn DEF Lagging
  <2>2. DOMAIN chan.nicks = DOMAIN x.members /\ chan.perms = chan.nicks[x.me]
    BY <2>1 DEF Full
  <2>3. DOMAIN d.nicks = DOMAIN y.members  BY <1>2, <1>4, <2>2
  <2>4. ASSUME NEW n \in DOMAIN y.members
        PROVE  d.nicks[n] \subseteq y.members[n] /\ (namesx => d.nicks[n] = y.members[n])
    <3>1. Ch!Of(f, n) \subseteq y.members[n] /\ (namesx => Ch!Of(f, n) = y.members[n])
      BY <1>2, PrefixesFacts DEF Ch!Of
    <3>2. Ch!Of(chan.nicks, n) \subseteq y.members[n]
      BY <2>1, <2>2 DEF Ch!Of, Full
    <3>3. d.nicks[n] = Ch!Of(chan.nicks, n) \cup Ch!Of(f, n)  BY <1>4, <2>3
    <3> QED  BY <3>1, <3>2, <3>3
  <2>5. d.perms = d.nicks[y.me]
    <3>1. Ch!Of(chan.nicks, x.me) = chan.nicks[x.me]  BY <2>2 DEF Ch!Of, In
    <3> QED  BY <1>1, <1>4, <1>5, <2>2, <2>3, <3>1 DEF In
  <2>6. Full(d, y)  BY <2>3, <2>4, <2>5 DEF Full
  <2>7. d.on  BY <1>4, <1>8 DEF Absent
  <2>8. Caught(d, x, y)  BY <1>4, <1>5, <1>6, <2>6, <2>7, CaughtFull
  <2> QED  BY <2>8 DEF d
<1> QED  BY <1>7, <1>8

LEMMA CaughtNone ==
  ASSUME NEW x, NEW y, chan = NoChan, In(y) => In(x)
  PROVE  Caught(NoChan, x, y)
  BY DEF Caught, Sync, Clean, Absent, Tried

-----------------------------------------------------------------------------
(* The handlers of lines from the server *)

LEMMA LinesSent ==
  /\ <<>> \in Seq(ClientLines)
  /\ <<<<"JOIN">>>> \in Seq(ClientLines) /\ <<<<"PART">>>> \in Seq(ClientLines)
  /\ <<<<"NAMES">>>> \in Seq(ClientLines)
  /\ \A n \in Ch!Nicks : <<<<"NICK", n>>>> \in Seq(ClientLines)
  /\ <<<<"PART">>, <<"JOIN">>>> \in Seq(ClientLines)
<1>1. <<"JOIN">> \in ClientLines /\ <<"PART">> \in ClientLines /\ <<"NAMES">> \in ClientLines
  BY DEF ClientLines
<1>2. \A n \in Ch!Nicks : <<"NICK", n>> \in ClientLines  BY DEF ClientLines
<1> HIDE DEF ClientLines
<1>3. \A l \in ClientLines : <<l>> \in Seq(ClientLines)  OBVIOUS
<1>4. \A l, m \in ClientLines : <<l, m>> \in Seq(ClientLines)  OBVIOUS
<1> QED  BY <1>1, <1>2, <1>3, <1>4

LEMMA AutoCycleSends == \A c : Ch!AutoCycle(c) \subseteq Seq(ClientLines)
  BY LinesSent DEF Ch!AutoCycle

LEMMA KeepNickSends == Ch!KeepNick \in Seq(ClientLines)
<1>1. Conf \in Ch!Nicks  BY DEF Ch!Nicks
<1> QED  BY <1>1, LinesSent DEF Ch!KeepNick

\* CIRCNetwork::PutIRC
PutsLines == \E lines \in Seq(ClientLines) : out' = out \o lines

LEMMA PutsNothing == ASSUME out \in Seq(ClientLines), out' = out PROVE PutsLines
<1>1. out \o <<>> = out  BY ConcatEmptySeq
<1> QED  BY <1>1, LinesSent DEF PutsLines

LEMMA PutsSome == ASSUME NEW lines \in Seq(ClientLines), Ch!PutIRC(lines) PROVE PutsLines
  BY DEF Ch!PutIRC, PutsLines

\* The line is read between two pictures; what holds then.
Reading(x, y) == /\ Lagging(x, y) /\ Leads(x, Head(wire), y) /\ out \in Seq(ClientLines)
                 /\ keep \in BOOLEAN /\ sticky \in BOOLEAN /\ rejoin \in BOOLEAN
HasRead(x, y) == /\ Caught(chan', x, y) /\ nick' = y.me /\ PutsLines
                 /\ keep' \in BOOLEAN /\ sticky' \in BOOLEAN /\ rejoin' \in BOOLEAN

LEMMA JoinRead ==
  ASSUME NEW x, NEW y, Reading(x, y), Ch!OnJoinMessage
  PROVE  HasRead(x, y)
<1> DEFINE l == Head(wire)  c == IF chan = NoChan THEN Ch!CChan ELSE chan
<1>1. /\ y.me = x.me /\ l[2] \in Ch!Nicks
      /\ l[2] = x.me => x.members = Ch!NoNicks /\ y.members = Ch!With(Ch!NoNicks, x.me, {})
      /\ l[2] # x.me => /\ In(x) /\ l[2] \notin DOMAIN x.members
                        /\ y.members = Ch!With(x.members, l[2], {})
  BY DEF Ch!OnJoinMessage, Ch!Reads, Reading, Leads
<1>2. /\ nick = x.me /\ UNCHANGED <<out, nick, keep, sticky, rejoin>>
      /\ l[2] = nick => chan' = Ch!AddNick([Ch!Enable(c) EXCEPT !.on = TRUE], nick, {})
      /\ l[2] # nick => chan' = IF chan = NoChan THEN NoChan ELSE Ch!AddNick(chan, l[2], {})
  BY DEF Ch!OnJoinMessage, Ch!Arg, Ch!mods, Reading, Lagging
<1>3. Lagging(x, y) /\ chan \in Ch!CChans \cup {NoChan}  BY DEF Reading, Lagging
<1> DEFINE n == l[2]  m == x.me
<1>4. n \in Ch!Nicks /\ m = x.me  BY <1>1
<1>5. Caught(chan', x, y)
  <2>1. CASE n = m
    <3>1. c \in Ch!CChans /\ (c = Ch!CChan \/ c = chan)  BY <1>3, CChanFacts
    <3>2. /\ chan' = Ch!AddNick([Ch!Enable(c) EXCEPT !.on = TRUE], m, {})
          /\ x.members = Ch!NoNicks /\ y.members = Ch!With(Ch!NoNicks, m, {}) /\ y.me = m
      BY <1>1, <1>2, <2>1
    <3> HIDE DEF c, m, n
    <3> QED  BY <1>3, <1>4, <3>1, <3>2, JoinMe
  <2>2. CASE n # m /\ chan # NoChan
    <3>1. /\ chan' = Ch!AddNick(chan, n, {}) /\ In(x) /\ n \notin DOMAIN x.members
          /\ y.members = Ch!With(x.members, n, {}) /\ y.me = x.me
      BY <1>1, <1>2, <2>2
    <3> HIDE DEF c, m, n
    <3> QED  BY <1>3, <1>4, <2>2, <3>1, JoinOther
  <2>3. CASE n # m /\ chan = NoChan
    <3>1. chan' = NoChan /\ In(x)  BY <1>1, <1>2, <2>3
    <3> QED  BY <2>3, <3>1, CaughtNone
  <2> QED  BY <2>1, <2>2, <2>3
<1> QED  BY <1>1, <1>2, <1>5, PutsNothing DEF HasRead, Reading

LEMMA PartRead ==
  ASSUME NEW x, NEW y, Reading(x, y), Ch!OnPartMessage
  PROVE  HasRead(x, y)
<1> DEFINE n == Head(wire)[2]
<1>1. /\ y.me = x.me /\ In(x)
      /\ n = x.me => y.members = Ch!NoNicks
      /\ n # x.me => y.members = Ch!Without(x.members, n)
  BY DEF Ch!OnPartMessage, Ch!Reads, Reading, Leads
<1>2. /\ nick = x.me /\ UNCHANGED <<nick, keep, sticky, rejoin>>
      /\ chan = NoChan => UNCHANGED <<out, chan>>
      /\ chan # NoChan =>
           /\ \E lines \in Ch!AutoCycle(Ch!RemNick(chan, n)) : Ch!PutIRC(lines)
           /\ chan' = IF n = nick THEN NoChan ELSE Ch!RemNick(chan, n)
  BY DEF Ch!OnPartMessage, Ch!Arg, Ch!mods, Reading, Lagging
<1>3. Lagging(x, y)  BY DEF Reading
<1> HIDE DEF n
<1>4. Caught(chan', x, y)
  <2>1. CASE chan = NoChan  BY <1>1, <1>2, <2>1, CaughtNone
  <2>2. CASE chan # NoChan /\ n = x.me
    <3>1. ~In(y)  BY <1>1, <1>3, <2>2, PictureFacts DEF Lagging
    <3>2. Caught(NoChan, x, y)  BY <3>1, CChanFacts, CaughtLeft DEF Tried
    <3> QED  BY <1>2, <2>2, <3>2
  <2>3. CASE chan # NoChan /\ n # x.me
    <3>1. Caught(Ch!RemNick(chan, n), x, y)  BY <1>1, <1>3, <2>3, LeaveOther
    <3> QED  BY <1>2, <2>3, <3>1
  <2> QED  BY <2>1, <2>2, <2>3
<1>5. PutsLines
  <2>1. CASE chan = NoChan  BY <1>2, <2>1, PutsNothing DEF Reading
  <2>2. CASE chan # NoChan  BY <1>2, <2>2, AutoCycleSends, PutsSome
  <2> QED  BY <2>1, <2>2
<1> QED  BY <1>1, <1>2, <1>4, <1>5 DEF HasRead, Reading

LEMMA KickRead ==
  ASSUME NEW x, NEW y, Reading(x, y), Ch!OnKickMessage
  PROVE  HasRead(x, y)
<1> DEFINE n == Head(wire)[2]
<1>1. /\ y.me = x.me /\ In(x)
      /\ n = x.me => y.members = Ch!NoNicks
      /\ n # x.me => y.members = Ch!Without(x.members, n)
  BY DEF Ch!OnKickMessage, Ch!Reads, Reading, Leads
<1>2. /\ nick = x.me /\ UNCHANGED <<nick, keep, sticky>>
      /\ chan = NoChan => UNCHANGED <<out, chan, rejoin>>
      /\ chan # NoChan /\ n # nick =>
           /\ \E lines \in Ch!AutoCycle(chan) : Ch!PutIRC(lines)
           /\ chan' = Ch!RemNick(chan, n) /\ UNCHANGED rejoin
      /\ chan # NoChan /\ n = nick =>
           /\ chan' = Ch!Disable(Ch!Reset(Ch!RemNick(chan, n)))
           /\ \E lines \in Ch!AutoCycle(chan) :
                /\ \/ Ch!PutIRC(lines)
                   \/ Ch!PutIRC(lines \o Ch!Rejoin) \/ Ch!PutIRC(Ch!Rejoin \o lines)
                /\ rejoin' \in {rejoin, TRUE}
  BY DEF Ch!OnKickMessage, Ch!Arg, Reading, Lagging
<1>3. Lagging(x, y) /\ chan \in Ch!CChans \cup {NoChan}  BY DEF Reading, Lagging
<1> HIDE DEF n
<1>4. Caught(chan', x, y)
  <2>1. CASE chan = NoChan  BY <1>1, <1>2, <2>1, CaughtNone
  <2>2. CASE chan # NoChan /\ n = x.me
    <3>1. ~In(y)  BY <1>1, <1>3, <2>2, PictureFacts DEF Lagging
    <3> DEFINE r == Ch!RemNick(chan, n)  s == Ch!Reset(r)  d == Ch!Disable(s)
    <3>2. r \in Ch!CChans  BY <1>3, <2>2, RemNickFacts
    <3> HIDE DEF r
    <3>3. s \in Ch!CChans /\ ~s.on /\ s.tries = 0 /\ s.nicks = Ch!NoNicks /\ s.perms = {}
      BY <3>2, ChanFacts
    <3> HIDE DEF s
    <3>4. /\ d \in Ch!CChans /\ d.on = s.on /\ d.tries = s.tries
          /\ d.nicks = s.nicks /\ d.perms = s.perms
      BY <3>3, ChanFacts
    <3> HIDE DEF d
    <3>5. Tried(d) /\ Clean(d)  BY <3>3, <3>4, BoundsAssumption DEF Tried, Clean
    <3>6. Caught(d, x, y)  BY <3>1, <3>4, <3>5, CaughtLeft
    <3> QED  BY <1>2, <2>2, <3>6 DEF d, s, r
  <2>3. CASE chan # NoChan /\ n # x.me
    <3>1. Caught(Ch!RemNick(chan, n), x, y)  BY <1>1, <1>3, <2>3, LeaveOther
    <3> QED  BY <1>2, <2>3, <3>1
  <2> QED  BY <2>1, <2>2, <2>3
<1>5. PutsLines /\ rejoin' \in BOOLEAN
  <2>1. CASE chan = NoChan  BY <1>2, <2>1, PutsNothing DEF Reading
  <2>2. CASE chan # NoChan /\ n # nick
    BY <1>2, <2>2, AutoCycleSends, PutsSome DEF Reading
  <2>3. CASE chan # NoChan /\ n = nick
    <3>1. PICK lines \in Ch!AutoCycle(chan) :
                /\ \/ Ch!PutIRC(lines)
                   \/ Ch!PutIRC(lines \o Ch!Rejoin) \/ Ch!PutIRC(Ch!Rejoin \o lines)
                /\ rejoin' \in {rejoin, TRUE}
      BY <1>2, <2>3
    <3>2. lines \in Seq(ClientLines) /\ Ch!Rejoin \in Seq(ClientLines)
      BY AutoCycleSends, LinesSent DEF Ch!Rejoin
    <3>3. lines \o Ch!Rejoin \in Seq(ClientLines) /\ Ch!Rejoin \o lines \in Seq(ClientLines)
      BY <3>2
    <3>4. PutsLines  BY <3>1, <3>2, <3>3, PutsSome
    <3> QED  BY <3>1, <3>4 DEF Reading
  <2> QED  BY <2>1, <2>2, <2>3
<1> QED  BY <1>1, <1>2, <1>4, <1>5 DEF HasRead, Reading

LEMMA QuitRead ==
  ASSUME NEW x, NEW y, Reading(x, y), Ch!OnQuitMessage
  PROVE  HasRead(x, y)
<1> DEFINE n == Head(wire)[2]
<1>1. y.me = x.me /\ In(x) /\ n # x.me /\ y.members = Ch!Without(x.members, n)
  BY DEF Ch!OnQuitMessage, Ch!Reads, Reading, Leads
<1>2. /\ nick = x.me /\ UNCHANGED <<nick, keep, sticky, rejoin>>
      /\ chan' = IF chan = NoChan THEN NoChan ELSE Ch!RemNick(chan, n)
  BY DEF Ch!OnQuitMessage, Ch!Arg, Ch!mods, Reading, Lagging
<1>3. PICK lines \in IF chan # NoChan /\ n \in DOMAIN chan.nicks
                     THEN Ch!AutoCycle(chan') ELSE {<<>>} :
        Ch!PutIRC(lines \o IF n = Conf THEN Ch!KeepNick ELSE <<>>)
  BY DEF Ch!OnQuitMessage, Ch!Arg
<1> HIDE DEF n
<1>4. PutsLines
  <2> DEFINE more == IF n = Conf THEN Ch!KeepNick ELSE <<>>
  <2>1. lines \in Seq(ClientLines) /\ more \in Seq(ClientLines)
    BY <1>3, AutoCycleSends, KeepNickSends, LinesSent
  <2>2. Ch!PutIRC(lines \o more)  BY <1>3
  <2> HIDE DEF more
  <2>3. lines \o more \in Seq(ClientLines)  BY <2>1, ConcatProperties
  <2> QED  BY <2>2, <2>3 DEF PutsLines, Ch!PutIRC
<1>5. Caught(chan', x, y)
  <2>1. CASE chan = NoChan  BY <1>1, <1>2, <2>1, CaughtNone
  <2>2. CASE chan # NoChan
    <3>1. Caught(Ch!RemNick(chan, n), x, y)  BY <1>1, <2>2, LeaveOther DEF Reading
    <3> QED  BY <1>2, <2>2, <3>1
  <2> QED  BY <2>1, <2>2
<1> QED  BY <1>1, <1>2, <1>4, <1>5 DEF HasRead, Reading

LEMMA NickRead ==
  ASSUME NEW x, NEW y, Reading(x, y), Ch!OnNickMessage
  PROVE  HasRead(x, y)
<1> DEFINE old == Head(wire)[2]  new == Head(wire)[3]
<1>1. /\ new \in Ch!Nicks /\ new # x.me /\ new \notin DOMAIN x.members
      /\ y.me = (IF old = x.me THEN new ELSE x.me)
      /\ y.members = Ch!Renamed(x.members, old, new)
  BY DEF Ch!OnNickMessage, Ch!Reads, Reading, Leads
<1>2. /\ nick = x.me /\ UNCHANGED <<sticky, rejoin>>
      /\ chan' = IF chan = NoChan THEN NoChan ELSE Ch!ChangeNick(chan, old, new)
      /\ old = nick => /\ nick' = new /\ keep' = (keep /\ old # Conf /\ new # Conf)
                       /\ UNCHANGED out
      /\ old # nick => /\ Ch!PutIRC(IF old = Conf THEN Ch!KeepNick ELSE <<>>)
                       /\ UNCHANGED <<nick, keep>>
  BY DEF Ch!OnNickMessage, Ch!Arg, Reading, Lagging
<1>3. Lagging(x, y)  BY DEF Reading
<1> HIDE DEF old, new
<1>4. PutsLines /\ nick' = y.me /\ keep' \in BOOLEAN
  <2>1. CASE old = nick  BY <1>1, <1>2, <2>1, PutsNothing DEF Reading
  <2>2. CASE old # nick
    <3> DEFINE lines == IF old = Conf THEN Ch!KeepNick ELSE <<>>
    <3>1. lines \in Seq(ClientLines)  BY KeepNickSends, LinesSent
    <3>2. Ch!PutIRC(lines)  BY <1>2, <2>2
    <3> HIDE DEF lines
    <3>3. PutsLines  BY <3>1, <3>2, PutsSome
    <3> QED  BY <1>1, <1>2, <2>2, <3>3 DEF Reading
  <2> QED  BY <2>1, <2>2
<1>5. Caught(chan', x, y)
  <2>1. CASE chan = NoChan
    <3>1. In(y) => In(x)
      <4>1. SUFFICES ASSUME ~In(x) PROVE ~In(y)  OBVIOUS
      <4>2. DOMAIN x.members = {}  BY <1>3, <4>1, PictureFacts DEF Lagging
      <4>3. y.members = x.members  BY <1>1, <4>2 DEF Ch!Renamed
      <4> QED  BY <4>2, <4>3 DEF In
    <3> QED  BY <1>2, <2>1, <3>1, CaughtNone
  <2>2. CASE chan # NoChan
    <3>1. Caught(Ch!ChangeNick(chan, old, new), x, y)  BY <1>1, <1>3, <2>2, NickChanges
    <3> QED  BY <1>2, <2>2, <3>1
  <2> QED  BY <2>1, <2>2
<1> QED  BY <1>2, <1>4, <1>5 DEF HasRead, Reading

LEMMA ModeRead ==
  ASSUME NEW x, NEW y, Reading(x, y), Ch!OnModeMessage
  PROVE  HasRead(x, y)
<1> DEFINE n == Head(wire)[2]  p == Head(wire)[3]  add == Head(wire)[4]
<1>1. /\ y.me = x.me /\ In(x) /\ n \in DOMAIN x.members /\ p \in Ch!Perms /\ add \in BOOLEAN
      /\ y.members = [x.members EXCEPT ![n] = IF add THEN @ \cup {p} ELSE @ \ {p}]
  BY DEF Ch!OnModeMessage, Ch!Reads, Reading, Leads
<1>2. /\ nick = x.me /\ UNCHANGED <<out, nick, keep, sticky, rejoin>>
      /\ chan' = IF chan = NoChan THEN NoChan ELSE Ch!ModeChange(chan, n, p, add)
  BY DEF Ch!OnModeMessage, Ch!Arg, Ch!mods, Reading, Lagging
<1> HIDE DEF n, p, add
<1>3. Caught(chan', x, y)
  <2>1. CASE chan = NoChan  BY <1>1, <1>2, <2>1, CaughtNone
  <2>2. CASE chan # NoChan
    <3>1. Caught(Ch!ModeChange(chan, n, p, add), x, y)  BY <1>1, <2>2, ModeChanges DEF Reading
    <3> QED  BY <1>2, <2>2, <3>1
  <2> QED  BY <2>1, <2>2
<1> QED  BY <1>1, <1>2, <1>3, PutsNothing DEF HasRead, Reading

LEMMA NamesRead ==
  ASSUME NEW x, NEW y, Reading(x, y), Ch!OnNames
  PROVE  HasRead(x, y)
<1> DEFINE f == Head(wire)[2]
<1>1. /\ y.me = x.me /\ In(x) /\ DOMAIN x.members \subseteq DOMAIN y.members
      /\ \A n \in DOMAIN x.members : x.members[n] \subseteq y.members[n]
      /\ f = [n \in DOMAIN y.members |-> Ch!Prefixes(y.members[n])]
  BY DEF Ch!OnNames, Ch!Reads, Reading, Leads
<1>2. /\ nick = x.me /\ UNCHANGED <<out, nick, keep, sticky, rejoin>>
      /\ chan' = IF chan = NoChan THEN NoChan ELSE Ch!AddNicks(chan, f)
  BY DEF Ch!OnNames, Ch!Arg, Ch!mods, Reading, Lagging
<1> HIDE DEF f
<1>3. Caught(chan', x, y)
  <2>1. CASE chan = NoChan  BY <1>1, <1>2, <2>1, CaughtNone
  <2>2. CASE chan # NoChan
    <3>1. Caught(Ch!AddNicks(chan, f), x, y)  BY <1>1, <2>2, NamesShown DEF Reading
    <3> QED  BY <1>2, <2>2, <3>1
  <2> QED  BY <2>1, <2>2
<1> QED  BY <1>1, <1>2, <1>3, PutsNothing DEF HasRead, Reading

\* A refusal of the server changes no list.
LEMMA RefusalRead ==
  ASSUME NEW x, NEW y, Reading(x, y),
         Ch!OnLinked \/ Ch!OnBadChan \/ Ch!OnNickInUse \/ Ch!OnNickRefused
  PROVE  HasRead(x, y)
<1>1. Lagging(x, y) /\ y = x
  BY DEF Ch!OnLinked, Ch!OnBadChan, Ch!OnNickInUse, Ch!OnNickRefused, Ch!Reads, Reading, Leads
<1>2. /\ UNCHANGED <<out, nick>> /\ keep' \in BOOLEAN /\ sticky' \in BOOLEAN /\ rejoin' \in BOOLEAN
      /\ chan' = chan \/ (chan # NoChan /\ chan' = Ch!Disable(chan))
  <2>1. keep \in BOOLEAN /\ sticky \in BOOLEAN /\ rejoin \in BOOLEAN  BY DEF Reading
  <2>2. CASE Ch!OnLinked  BY <2>1, <2>2 DEF Ch!OnLinked, Ch!mods
  <2>3. CASE Ch!OnBadChan  BY <2>1, <2>3 DEF Ch!OnBadChan
  <2>4. CASE Ch!OnNickInUse  BY <2>1, <2>4 DEF Ch!OnNickInUse, Ch!mods
  <2>5. CASE Ch!OnNickRefused  BY <2>1, <2>5 DEF Ch!OnNickRefused
  <2> QED  BY <2>2, <2>3, <2>4, <2>5
<1>3. Caught(chan', x, y)
  <2>1. CASE chan' = chan  BY <1>1, <2>1 DEF Lagging, Caught
  <2>2. CASE chan # NoChan /\ chan' = Ch!Disable(chan)
    <3>1. chan \in Ch!CChans  BY <1>1, <2>2 DEF Lagging
    <3>2. /\ chan' \in Ch!CChans /\ chan'.on = chan.on /\ chan'.tries = chan.tries
          /\ chan'.nicks = chan.nicks /\ chan'.perms = chan.perms
      BY <2>2, <3>1, ChanFacts
    <3>3. chan' # NoChan  BY <3>2, NoChanAssumption
    <3> QED  BY <1>1, <2>2, <3>2, <3>3 DEF Lagging, Caught, Tried, Sync, Absent, Clean, Full
  <2> QED  BY <1>2, <2>1, <2>2
<1>4. nick' = y.me  BY <1>1, <1>2 DEF Lagging
<1> QED  BY <1>2, <1>3, <1>4, PutsNothing DEF HasRead, Reading

LEMMA LineRead ==
  ASSUME NEW x, NEW y, Reading(x, y), Ch!ReadLine
  PROVE  HasRead(x, y)
<1>1. CASE Ch!OnJoinMessage  BY <1>1, JoinRead
<1>2. CASE Ch!OnPartMessage  BY <1>2, PartRead
<1>3. CASE Ch!OnKickMessage  BY <1>3, KickRead
<1>4. CASE Ch!OnQuitMessage  BY <1>4, QuitRead
<1>5. CASE Ch!OnNickMessage  BY <1>5, NickRead
<1>6. CASE Ch!OnModeMessage  BY <1>6, ModeRead
<1>7. CASE Ch!OnNames  BY <1>7, NamesRead
<1>8. CASE Ch!OnLinked \/ Ch!OnBadChan \/ Ch!OnNickInUse \/ Ch!OnNickRefused
  BY <1>8, RefusalRead
<1> QED  BY <1>1, <1>2, <1>3, <1>4, <1>5, <1>6, <1>7, <1>8 DEF Ch!ReadLine
-----------------------------------------------------------------------------
(* Histories: sequences of pictures *)

LEMMA RecountsFacts ==
  ASSUME NEW w \in Seq(ChannelLines), NEW h, NEW p, Recounts(h, w, p)
  PROVE  /\ Len(h) \in Nat /\ Len(h) >= 1 /\ h[1] \in Pictures /\ p \in Pictures
         /\ w = <<>> => Len(h) = 1 /\ h[1] = p
<1>1. Len(w) \in Nat /\ Len(h) = Len(w) + 1 /\ h \in Seq(Pictures) /\ h[Len(h)] = p
  BY LenProperties DEF Recounts
<1>2. \A i \in 1..Len(h) : h[i] \in Pictures  BY <1>1, ElementOfSeq
<1>3. w = <<>> => Len(w) = 0  OBVIOUS
<1> QED  BY <1>1, <1>2, <1>3

\* The first line is read.
LEMMA RecountsTail ==
  ASSUME NEW w \in Seq(ChannelLines), w # <<>>, NEW h, NEW p, Recounts(h, w, p)
  PROVE  /\ Recounts(Tail(h), Tail(w), p)
         /\ h[1] \in Pictures /\ h[2] \in Pictures /\ Leads(h[1], Head(w), h[2])
         /\ Tail(h)[1] = h[2]
         /\ EverOut(h) /\ In(h[1]) => EverOut(Tail(h))
<1>1. Len(w) \in Nat /\ Len(h) = Len(w) + 1 /\ h \in Seq(Pictures) /\ h[Len(h)] = p
  BY LenProperties DEF Recounts
<1>2. Len(w) >= 1 /\ h # <<>>  BY <1>1, LenProperties
<1>3. /\ Tail(w) \in Seq(ChannelLines) /\ Len(Tail(w)) = Len(w) - 1
      /\ \A i \in 1..Len(Tail(w)) : Tail(w)[i] = w[i + 1]
  BY <1>2, HeadTailProperties
<1>4. /\ Tail(h) \in Seq(Pictures) /\ Len(Tail(h)) = Len(h) - 1
      /\ \A i \in 1..Len(Tail(h)) : Tail(h)[i] = h[i + 1]
  BY <1>1, <1>2, HeadTailProperties
<1>5. Head(w) = w[1]  BY <1>2, HeadTailProperties
<1>6. \A i \in 1..Len(h) : h[i] \in Pictures  BY <1>1, ElementOfSeq
<1>7. \A i \in 1..Len(w) : Leads(h[i], w[i], h[i + 1])  BY DEF Recounts
<1>8. ASSUME NEW i \in 1..Len(Tail(w))
      PROVE  Leads(Tail(h)[i], Tail(w)[i], Tail(h)[i + 1])
  <2>1. /\ i + 1 \in 1..Len(w) /\ i \in 1..Len(Tail(h)) /\ i + 1 \in 1..Len(Tail(h))
    BY <1>1, <1>2, <1>3, <1>4
  <2>2. Tail(h)[i] = h[i + 1] /\ Tail(h)[i + 1] = h[(i + 1) + 1] /\ Tail(w)[i] = w[i + 1]
    BY <1>3, <1>4, <2>1
  <2> QED  BY <1>7, <2>1, <2>2
<1>9. Tail(h)[Len(Tail(h))] = p  BY <1>1, <1>2, <1>4
<1>10. Recounts(Tail(h), Tail(w), p)  BY <1>1, <1>3, <1>4, <1>8, <1>9 DEF Recounts
<1>11. ASSUME EverOut(h), In(h[1]) PROVE EverOut(Tail(h))
  <2>1. PICK i \in 1..Len(h) : ~In(h[i])  BY <1>11 DEF EverOut
  <2>2. i # 1  BY <1>11, <2>1
  <2>3. i - 1 \in 1..Len(Tail(h)) /\ (i - 1) + 1 = i  BY <1>1, <1>4, <2>2
  <2>4. Tail(h)[i - 1] = h[i]  BY <1>4, <2>3
  <2> QED  BY <2>1, <2>3, <2>4 DEF EverOut
<1>12. Tail(h)[1] = h[2] /\ 1 \in 1..Len(w) /\ 1 \in 1..Len(h) /\ 2 \in 1..Len(h) /\ 1 + 1 = 2
  BY <1>1, <1>2, <1>4
<1>13. Leads(h[1], Head(w), h[2])  BY <1>5, <1>7, <1>12
<1> QED  BY <1>6, <1>10, <1>11, <1>12, <1>13

\* The server sends a line.
LEMMA RecountsAppend ==
  ASSUME NEW w \in Seq(ChannelLines), NEW h, NEW p, Recounts(h, w, p),
         NEW l \in ChannelLines, NEW q \in Pictures, Leads(p, l, q)
  PROVE  /\ Recounts(Append(h, q), Append(w, l), q)
         /\ Append(h, q)[1] = h[1]
         /\ EverOut(h) \/ ~In(q) => EverOut(Append(h, q))
<1>1. Len(w) \in Nat /\ Len(h) = Len(w) + 1 /\ h \in Seq(Pictures) /\ h[Len(h)] = p
  BY LenProperties DEF Recounts
<1>2. /\ Append(w, l) \in Seq(ChannelLines) /\ Len(Append(w, l)) = Len(w) + 1
      /\ \A i \in 1..Len(w) : Append(w, l)[i] = w[i]
      /\ Append(w, l)[Len(w) + 1] = l
  BY AppendProperties
<1>3. /\ Append(h, q) \in Seq(Pictures) /\ Len(Append(h, q)) = Len(h) + 1
      /\ \A i \in 1..Len(h) : Append(h, q)[i] = h[i]
      /\ Append(h, q)[Len(h) + 1] = q
  BY <1>1, AppendProperties
<1>4. \A i \in 1..Len(w) : Leads(h[i], w[i], h[i + 1])  BY DEF Recounts
<1> DEFINE g == Append(h, q)  v == Append(w, l)
<1> HIDE DEF g, v
<1>5. ASSUME NEW i \in 1..Len(v) PROVE Leads(g[i], v[i], g[i + 1])
  <2>1. CASE i = Len(w) + 1
    <3>1. g[i] = p /\ v[i] = l /\ g[i + 1] = q  BY <1>1, <1>2, <1>3, <2>1 DEF g, v
    <3> QED  BY <3>1
  <2>2. CASE i # Len(w) + 1
    <3>1. i \in 1..Len(w) /\ i \in 1..Len(h) /\ i + 1 \in 1..Len(h)
      BY <1>1, <1>2, <2>2 DEF v
    <3>2. g[i] = h[i] /\ v[i] = w[i] /\ g[i + 1] = h[i + 1]  BY <1>2, <1>3, <3>1 DEF g, v
    <3> QED  BY <1>4, <3>1, <3>2
  <2> QED  BY <2>1, <2>2
<1>6. Recounts(g, v, q)
  <2>1. g \in Seq(Pictures) /\ Len(g) = Len(v) + 1 /\ g[Len(g)] = q
    BY <1>1, <1>2, <1>3 DEF g, v
  <2> QED  BY <1>5, <2>1 DEF Recounts
<1>7. g[1] = h[1]  BY <1>1, <1>3 DEF g
<1>8. EverOut(h) \/ ~In(q) => EverOut(g)
  <2>1. ASSUME EverOut(h) PROVE EverOut(g)
    <3>1. PICK i \in 1..Len(h) : ~In(h[i])  BY <2>1 DEF EverOut
    <3>2. i \in 1..Len(g) /\ g[i] = h[i]  BY <1>1, <1>3, <3>1 DEF g
    <3> QED  BY <3>1, <3>2 DEF EverOut
  <2>2. ASSUME ~In(q) PROVE EverOut(g)
    <3>1. Len(h) + 1 \in 1..Len(g) /\ g[Len(h) + 1] = q  BY <1>1, <1>3 DEF g
    <3> QED  BY <2>2, <3>1 DEF EverOut
  <2> QED  BY <2>1, <2>2
<1> QED  BY <1>6, <1>7, <1>8 DEF g, v

\* More lines to the server do not take a PART back.
LEMMA LeavingStays ==
  ASSUME out \in Seq(ClientLines), PutsLines
  PROVE  out' \in Seq(ClientLines) /\ (Leaving(out) => Leaving(out'))
<1>1. PICK lines \in Seq(ClientLines) : out' = out \o lines  BY DEF PutsLines
<1>2. /\ out' \in Seq(ClientLines) /\ Len(out') = Len(out) + Len(lines)
      /\ \A i \in 1..Len(out) : out'[i] = out[i]
      /\ Len(out) \in Nat /\ Len(lines) \in Nat
  BY <1>1, ConcatProperties, LenProperties
<1>3. ASSUME Leaving(out) PROVE Leaving(out')
  <2>1. PICK i \in DOMAIN out : out[i][1] = "PART"  BY <1>3 DEF Leaving
  <2>2. i \in 1..Len(out)  BY <2>1, LenProperties
  <2>3. i \in DOMAIN out' /\ out'[i] = out[i]  BY <1>2, <2>2, LenProperties
  <2> QED  BY <2>1, <2>3 DEF Leaving
<1> QED  BY <1>2, <1>3
-----------------------------------------------------------------------------
(* The invariant is kept when a line is read *)

LEMMA InvTypes ==
  ASSUME MirrorInv
  PROVE  /\ members \in Ch!NickMaps /\ me \in Ch!Nicks /\ other \in Ch!Nicks /\ nick \in Ch!Nicks
         /\ namesx \in BOOLEAN /\ connected \in BOOLEAN
         /\ keep \in BOOLEAN /\ sticky \in BOOLEAN /\ rejoin \in BOOLEAN
         /\ Len(wire) <= MaxWire /\ events \in 0..MaxEvents
         /\ chan \in Ch!CChans \cup {NoChan} /\ Tried(chan)
         /\ me # other /\ DOMAIN members \subseteq {me, other}
         /\ out \in Seq(ClientLines) /\ wire \in Seq(ChannelLines)
         /\ ~connected => out = <<>> /\ wire = <<>> /\ members = Ch!NoNicks
  BY DEF MirrorInv, Ch!TypeOK, Tried

\* Whether a history is one of the lines on the wire depends on multi-prefix, which stays.
LEMMA RecountsKept ==
  ASSUME UNCHANGED namesx, NEW h, Recounts(h, wire', Now')
  PROVE  Recounts(h, wire, Now)'
<1>1. ASSUME NEW i \in 1..Len(wire'), Leads(h[i], wire'[i], h[i + 1])
      PROVE  Leads(h[i], wire[i], h[i + 1])'
  <2> DEFINE x == h[i]  y == h[i + 1]  l == wire'[i]
  <2>1. [n \in DOMAIN y.members |-> Ch!Prefixes(y.members[n])'] =
          [n \in DOMAIN y.members |-> Ch!Prefixes(y.members[n])]
    BY DEF Ch!Prefixes
  <2> QED  BY <1>1, <2>1 DEF Leads
<1> QED  BY <1>1 DEF Recounts

LEMMA SyncKept ==
  ASSUME UNCHANGED namesx, NEW p, Sync(chan', p)
  PROVE  Sync(chan, p)'
  BY DEF Sync, Full, Clean, Absent

LEMMA HandledInv ==
  ASSUME MirrorInv, Ch!Handled
  PROVE  MirrorInv'
<1>1. /\ wire # <<>> /\ wire' = Tail(wire)
      /\ UNCHANGED <<members, me, other, namesx, connected, events>>
  BY DEF Ch!Handled, Ch!ReadLine, Ch!OnJoinMessage, Ch!OnPartMessage, Ch!OnKickMessage,
         Ch!OnQuitMessage, Ch!OnNickMessage, Ch!OnModeMessage, Ch!OnNames, Ch!OnLinked,
         Ch!OnBadChan, Ch!OnNickInUse, Ch!OnNickRefused, Ch!Reads, Ch!server
<1>2. connected /\ wire \in Seq(ChannelLines) /\ out \in Seq(ClientLines)
  BY <1>1, InvTypes
<1>3. PICK h : Recounts(h, wire, Now) /\ Starts(h)  BY DEF MirrorInv
<1> DEFINE x == h[1]  y == h[2]  t == Tail(h)
<1>4. /\ Recounts(t, Tail(wire), Now) /\ x \in Pictures /\ y \in Pictures
      /\ Leads(x, Head(wire), y) /\ t[1] = y
      /\ EverOut(h) /\ In(x) => EverOut(t)
  BY <1>1, <1>2, <1>3, RecountsTail
<1>5. nick = x.me /\ Sync(chan, x) /\ (In(x) /\ Absent(chan) => Leaving(out) \/ EverOut(h))
  BY <1>2, <1>3 DEF Starts
<1> HIDE DEF x, y, t
<1>6. Reading(x, y)  BY <1>4, <1>5, InvTypes DEF Reading, Lagging
<1>7. HasRead(x, y)  BY <1>6, LineRead DEF Ch!Handled
<1>8. /\ Caught(chan', x, y) /\ nick' = y.me /\ PutsLines
      /\ keep' \in BOOLEAN /\ sticky' \in BOOLEAN /\ rejoin' \in BOOLEAN
  BY <1>7 DEF HasRead
<1>9. out' \in Seq(ClientLines) /\ (Leaving(out) => Leaving(out'))
  BY <1>2, <1>8, LeavingStays
<1>10. wire' \in Seq(ChannelLines) /\ Len(wire') <= MaxWire
  <2>1. Tail(wire) \in Seq(ChannelLines) /\ Len(Tail(wire)) = Len(wire) - 1 /\ Len(wire) \in Nat
    BY <1>1, <1>2, HeadTailProperties, LenProperties
  <2> QED  BY <1>1, <2>1, InvTypes, BoundsAssumption
<1>11. Recounts(t, wire, Now)'
  <2>1. Now' = Now  BY <1>1 DEF Now
  <2>2. Recounts(t, wire', Now')  BY <1>1, <1>4, <2>1
  <2> QED  BY <1>1, <2>2, RecountsKept
<1>12. Starts(t)'
  <2>1. Sync(chan', y)  BY <1>8 DEF Caught
  <2>2. Sync(chan, y)'  BY <1>1, <2>1, SyncKept
  <2>3. In(y) /\ Absent(chan') => Leaving(out') \/ EverOut(t)
    BY <1>4, <1>5, <1>8, <1>9 DEF Caught
  <2>4. Sync(chan, t[1])'  BY <1>4, <2>2
  <2>5. (In(t[1]) /\ Absent(chan) => Leaving(out) \/ EverOut(t))'
    BY <1>4, <2>3 DEF In, Absent, Leaving, EverOut
  <2> QED  BY <1>4, <1>8, <2>4, <2>5 DEF Starts
<1>13. Ch!TypeOK'
  <2>1. y.me \in Ch!Nicks  BY <1>4, PictureFacts
  <2>2. chan' \in Ch!CChans \cup {NoChan} /\ Tried(chan')  BY <1>8 DEF Caught
  <2> QED  BY <1>1, <1>8, <1>10, <2>1, <2>2, InvTypes DEF Ch!TypeOK, Tried
<1> QED  BY <1>1, <1>2, <1>9, <1>10, <1>11, <1>12, <1>13, InvTypes DEF MirrorInv

-----------------------------------------------------------------------------
(* Timers, commands and clients *)

\* What a step of ZNC does to its CChan shows no other picture, and the channel is only
\* forgotten when a PART is on the way.
Acts == /\ UNCHANGED <<members, me, other, namesx, wire, connected, nick>>
        /\ PutsLines /\ (~connected => out' = out)
        /\ chan' \in Ch!CChans \cup {NoChan} /\ Tried(chan')
        /\ \A p \in Pictures : Sync(chan, p) => Sync(chan', p)
        /\ Absent(chan') => Absent(chan) \/ Leaving(out') \/ ~connected
        /\ keep' \in BOOLEAN /\ sticky' \in BOOLEAN /\ rejoin' \in BOOLEAN

LEMMA ActsInv ==
  ASSUME MirrorInv, Acts, events' \in 0..MaxEvents
  PROVE  MirrorInv'
<1>1. PICK h : Recounts(h, wire, Now) /\ Starts(h)  BY DEF MirrorInv
<1>2. /\ UNCHANGED <<members, me, other, namesx, wire, connected, nick>>
      /\ PutsLines /\ (~connected => out' = out)
      /\ chan' \in Ch!CChans \cup {NoChan} /\ Tried(chan')
      /\ \A p \in Pictures : Sync(chan, p) => Sync(chan', p)
      /\ Absent(chan') => Absent(chan) \/ Leaving(out') \/ ~connected
      /\ keep' \in BOOLEAN /\ sticky' \in BOOLEAN /\ rejoin' \in BOOLEAN
  BY DEF Acts
<1> DEFINE x == h[1]
<1>3. x \in Pictures /\ (wire = <<>> => x = Now)  BY <1>1, InvTypes, RecountsFacts
<1>4. /\ connected => nick = x.me
      /\ Sync(chan, x) /\ (In(x) /\ Absent(chan) => Leaving(out) \/ EverOut(h))
  BY <1>1 DEF Starts
<1>5. out' \in Seq(ClientLines) /\ (Leaving(out) => Leaving(out'))
  BY <1>2, InvTypes, LeavingStays
<1>6. ~connected => ~In(x)
  BY <1>3, InvTypes, NoNicksFacts DEF In, Now
<1>7. Recounts(h, wire, Now)'
  <2>1. Now' = Now  BY <1>2 DEF Now
  <2>2. Recounts(h, wire', Now')  BY <1>1, <1>2, <2>1
  <2> QED  BY <1>2, <2>2, RecountsKept
<1> HIDE DEF x
<1>8. Starts(h)'
  <2>1. Sync(chan', x)  BY <1>2, <1>3, <1>4
  <2>2. Sync(chan, x)'  BY <1>2, <2>1, SyncKept
  <2>3. In(x) /\ Absent(chan') => Leaving(out') \/ EverOut(h)
    BY <1>2, <1>4, <1>5, <1>6
  <2>4. Sync(chan, h[1])'  BY <2>2 DEF x
  <2>5. (In(h[1]) /\ Absent(chan) => Leaving(out) \/ EverOut(h))'
    BY <2>3 DEF x, In, Absent, Leaving, EverOut
  <2>6. connected' => nick' = h[1].me  BY <1>2, <1>4 DEF x
  <2> QED  BY <2>4, <2>5, <2>6 DEF Starts
<1>9. Ch!TypeOK'  BY <1>2, InvTypes DEF Ch!TypeOK, Tried
<1> QED  BY <1>2, <1>5, <1>7, <1>8, <1>9, InvTypes DEF MirrorInv

\* Changes of a CChan that show the same pictures.
Shows(c) == /\ c \in Ch!CChans \cup {NoChan} /\ Tried(c)
            /\ \A p \in Pictures : Sync(chan, p) => Sync(c, p)
            /\ Absent(c) => Absent(chan)

LEMMA ShowsSame == ASSUME MirrorInv PROVE Shows(chan)
  BY InvTypes DEF Shows

LEMMA ShowsNew == ASSUME chan = NoChan PROVE Shows(Ch!CChan)
<1>1. Ch!CChan \in Ch!CChans /\ Tried(Ch!CChan)  BY CChanFacts, BoundsAssumption DEF Tried
<1>2. \A p : Sync(Ch!CChan, p)  BY CChanFacts DEF Sync
<1> QED  BY <1>1, <1>2, CChanFacts DEF Shows

LEMMA ShowsSettings ==
  ASSUME chan \in Ch!CChans, NEW c \in Ch!CChans, Tried(c),
         c.on = chan.on, c.nicks = chan.nicks, c.perms = chan.perms
  PROVE  Shows(c)
<1>1. c # NoChan /\ chan # NoChan  BY NoChanAssumption
<1> QED  BY <1>1 DEF Shows, Sync, Absent, Full, Clean

LEMMA ShowsEnabled ==
  ASSUME chan \in Ch!CChans PROVE Shows(Ch!Enable(chan))
<1>1. LET d == Ch!Enable(chan)
      IN  /\ d \in Ch!CChans /\ d.on = chan.on /\ d.tries = 0
          /\ d.nicks = chan.nicks /\ d.perms = chan.perms
  BY ChanFacts
<1>2. Tried(Ch!Enable(chan))  BY <1>1, BoundsAssumption DEF Tried
<1> QED  BY <1>1, <1>2, ShowsSettings

LEMMA ShowsDisabled ==
  ASSUME chan \in Ch!CChans, Tried(chan) PROVE Shows(Ch!Disable(chan))
<1>1. LET d == Ch!Disable(chan)
      IN  /\ d \in Ch!CChans /\ d.on = chan.on /\ d.tries = chan.tries
          /\ d.nicks = chan.nicks /\ d.perms = chan.perms
  BY ChanFacts
<1>2. Tried(Ch!Disable(chan))  BY <1>1, NoChanAssumption DEF Tried
<1> QED  BY <1>1, <1>2, ShowsSettings

LEMMA ShowsTried ==
  ASSUME chan \in Ch!CChans, ~(JoinTries # 0 /\ chan.tries >= JoinTries)
  PROVE  Shows([chan EXCEPT !.tries = @ + 1])
<1>1. LET d == [chan EXCEPT !.tries = @ + 1]
      IN  /\ d \in Ch!CChans /\ d.on = chan.on /\ d.tries = chan.tries + 1
          /\ d.nicks = chan.nicks /\ d.perms = chan.perms
  BY ChanFacts
<1>2. chan.tries \in Nat  BY DEF Ch!CChans
<1>3. Tried([chan EXCEPT !.tries = @ + 1])  BY <1>1, <1>2, BoundsAssumption DEF Tried
<1> QED  BY <1>1, <1>3, ShowsSettings

\* A step of ZNC that keeps what the CChan shows.
LEMMA ActsShowing ==
  ASSUME UNCHANGED <<members, me, other, namesx, wire, connected, nick>>,
         PutsLines, ~connected => out' = out, Shows(chan'),
         keep' \in BOOLEAN, sticky' \in BOOLEAN, rejoin' \in BOOLEAN
  PROVE  Acts
  BY DEF Acts, Shows

\* Without a connection nothing is sent.
LEMMA PutsConnected ==
  ASSUME out \in Seq(ClientLines), NEW lines \in Seq(ClientLines),
         Ch!PutIRC(IF connected THEN lines ELSE <<>>)
  PROVE  PutsLines /\ (~connected => out' = out)
<1>1. out \o <<>> = out  BY ConcatEmptySeq
<1>2. CASE connected  BY <1>2 DEF Ch!PutIRC, PutsLines
<1>3. CASE ~connected
  <2>1. out' = out  BY <1>1, <1>3 DEF Ch!PutIRC
  <2> QED  BY <1>3, <2>1, PutsNothing
<1> QED  BY <1>2, <1>3

\* A PART that is sent is on the way.
LEMMA PartLeaves ==
  ASSUME out \in Seq(ClientLines), Ch!PutIRC(<<<<"PART">>>>)
  PROVE  Leaving(out')
<1> DEFINE l == <<"PART">>
<1>1. l \in ClientLines /\ l[1] = "PART"  BY DEF ClientLines
<1>2. out' = out \o <<l>>  BY DEF Ch!PutIRC
<1> HIDE DEF l
<1>3. <<l>> \in Seq(ClientLines) /\ Len(<<l>>) = 1 /\ <<l>>[1] = l  BY <1>1
<1>4. /\ out' \in Seq(ClientLines) /\ Len(out') = Len(out) + 1 /\ Len(out) \in Nat
      /\ out'[Len(out) + 1] = l
  BY <1>1, <1>2, <1>3, ConcatProperties, LenProperties
<1>5. Len(out) + 1 \in DOMAIN out'  BY <1>4, LenProperties
<1> QED  BY <1>1, <1>4, <1>5 DEF Leaving

LEMMA QuietKeeps ==
  ASSUME Ch!Quiet
  PROVE  UNCHANGED <<members, me, other, namesx, wire, connected, nick>>
  BY DEF Ch!Quiet, Ch!server

LEMMA TimersAct ==
  ASSUME MirrorInv, Ch!JoinTimer \/ Ch!RejoinTimer \/ Ch!StickyTimer \/ Ch!KeepNickTimer
  PROVE  Acts
<1> DEFINE join == <<<<"JOIN">>>>
<1>1. join \in Seq(ClientLines)  BY LinesSent
<1> HIDE DEF join
<1>2. /\ out \in Seq(ClientLines) /\ Tried(chan) /\ (chan # NoChan => chan \in Ch!CChans)
      /\ keep \in BOOLEAN /\ sticky \in BOOLEAN /\ rejoin \in BOOLEAN
  BY InvTypes
<1>3. CASE Ch!JoinTimer
  <2>1. connected /\ chan # NoChan /\ Ch!Quiet /\ UNCHANGED <<keep, sticky, rejoin>>
    BY <1>3 DEF Ch!JoinTimer, Ch!mods
  <2>2. CASE JoinTries # 0 /\ chan.tries >= JoinTries
    <3>1. chan' = Ch!Disable(chan) /\ UNCHANGED out  BY <1>3, <2>2 DEF Ch!JoinTimer
    <3>2. Shows(chan') /\ PutsLines  BY <1>2, <2>1, <3>1, ShowsDisabled, PutsNothing
    <3> QED  BY <1>2, <2>1, <3>1, <3>2, QuietKeeps, ActsShowing
  <2>3. CASE ~(JoinTries # 0 /\ chan.tries >= JoinTries)
    <3>1. /\ chan' = [chan EXCEPT !.tries = @ + 1]
          /\ Ch!PutIRC(join) \/ UNCHANGED out
      BY <1>3, <2>3 DEF Ch!JoinTimer, join
    <3>2. Shows(chan')  BY <1>2, <2>1, <2>3, <3>1, ShowsTried
    <3>3. PutsLines  BY <1>1, <1>2, <3>1, PutsSome, PutsNothing
    <3> QED  BY <1>2, <2>1, <3>2, <3>3, QuietKeeps, ActsShowing
  <2> QED  BY <2>2, <2>3
<1>4. CASE Ch!RejoinTimer
  <2>1. Ch!Quiet /\ UNCHANGED <<keep, sticky>> /\ rejoin' = FALSE
    BY <1>4 DEF Ch!RejoinTimer
  <2>2. CASE chan = NoChan
    <3>1. UNCHANGED <<out, chan>>  BY <1>4, <2>2 DEF Ch!RejoinTimer
    <3>2. Shows(chan') /\ PutsLines  BY <1>2, <3>1, ShowsSame, PutsNothing
    <3> QED  BY <1>2, <2>1, <3>1, <3>2, QuietKeeps, ActsShowing
  <2>3. CASE chan # NoChan
    <3>1. chan' = Ch!Enable(chan) /\ Ch!PutIRC(IF connected THEN join ELSE <<>>)
      BY <1>4, <2>3 DEF Ch!RejoinTimer, join
    <3>2. Shows(chan')  BY <1>2, <2>3, <3>1, ShowsEnabled
    <3>3. PutsLines /\ (~connected => out' = out)  BY <1>1, <1>2, <3>1, PutsConnected
    <3> QED  BY <1>2, <2>1, <3>2, <3>3, QuietKeeps, ActsShowing
  <2> QED  BY <2>2, <2>3
<1>5. CASE Ch!StickyTimer
  <2>1. /\ connected /\ Ch!Quiet /\ UNCHANGED <<keep, sticky, rejoin>>
        /\ chan' = IF chan = NoChan THEN Ch!CChan ELSE chan
        /\ Ch!PutIRC(IF chan'.on THEN <<>> ELSE join)
    BY <1>5 DEF Ch!StickyTimer, Ch!mods, join
  <2>2. Shows(chan')  BY <2>1, ShowsSame, ShowsNew
  <2>3. PutsLines
    <3>1. CASE chan'.on
      <4>1. Ch!PutIRC(<<>>)  BY <2>1, <3>1
      <4> QED  BY <4>1, LinesSent DEF PutsLines, Ch!PutIRC
    <3>2. CASE ~chan'.on
      <4>1. Ch!PutIRC(join)  BY <2>1, <3>2
      <4> QED  BY <1>1, <4>1, PutsSome
    <3> QED  BY <3>1, <3>2
  <2> QED  BY <1>2, <2>1, <2>2, <2>3, QuietKeeps, ActsShowing
<1>6. CASE Ch!KeepNickTimer
  <2>1. /\ connected /\ Ch!Quiet /\ UNCHANGED <<chan, keep, sticky, rejoin>>
        /\ Ch!PutIRC(Ch!KeepNick)
    BY <1>6 DEF Ch!KeepNickTimer, Ch!mods
  <2>2. Shows(chan') /\ PutsLines  BY <2>1, ShowsSame, KeepNickSends, PutsSome
  <2> QED  BY <1>2, <2>1, <2>2, QuietKeeps, ActsShowing
<1> QED  BY <1>3, <1>4, <1>5, <1>6

\* The channel is forgotten when it is not on, or when a PART is sent.
LEMMA ActsForgetting ==
  ASSUME UNCHANGED <<members, me, other, namesx, wire, connected, nick, keep, sticky, rejoin>>,
         PutsLines, ~connected => out' = out, chan' = NoChan,
         Absent(chan) \/ Leaving(out') \/ ~connected,
         keep \in BOOLEAN, sticky \in BOOLEAN, rejoin \in BOOLEAN
  PROVE  Acts
<1>1. Tried(NoChan) /\ \A p \in Pictures : Sync(NoChan, p)
  BY CChanFacts DEF Tried, Sync
<1> QED  BY <1>1 DEF Acts

LEMMA ClientsAct ==
  ASSUME MirrorInv,
         \/ Ch!ClientJoin \/ Ch!ClientPart \/ Ch!ClientForwards \/ Ch!DelChan \/ Ch!AddChan
         \/ Ch!EnableChan \/ Ch!DisableChan \/ Ch!ModCommand
  PROVE  Acts
<1> DEFINE join == <<<<"JOIN">>>>  leave == <<<<"PART">>>>
<1>1. join \in Seq(ClientLines) /\ leave \in Seq(ClientLines)  BY LinesSent
<1>2. /\ out \in Seq(ClientLines) /\ Tried(chan) /\ (chan # NoChan => chan \in Ch!CChans)
      /\ keep \in BOOLEAN /\ sticky \in BOOLEAN /\ rejoin \in BOOLEAN
  BY InvTypes
<1>3. ASSUME Ch!PutIRC(IF connected THEN leave ELSE <<>>)
      PROVE  /\ PutsLines /\ (~connected => out' = out)
             /\ Leaving(out') \/ ~connected
  <2>1. connected => Leaving(out')  BY <1>2, <1>3, PartLeaves
  <2> HIDE DEF leave
  <2> QED  BY <1>1, <1>2, <1>3, <2>1, PutsConnected
<1>4. ASSUME Ch!PutIRC(IF connected THEN join ELSE <<>>)
      PROVE  PutsLines /\ (~connected => out' = out)
  <2> HIDE DEF join
  <2> QED  BY <1>1, <1>2, <1>4, PutsConnected
<1> HIDE DEF join, leave
<1>5. CASE Ch!ClientJoin
  <2>1. /\ Ch!Quiet /\ UNCHANGED <<keep, sticky, rejoin>>
        /\ chan' = IF chan = NoChan THEN Ch!CChan ELSE chan
        /\ Ch!PutIRC(IF connected THEN join ELSE <<>>)
    BY <1>5 DEF Ch!ClientJoin, Ch!mods, join
  <2>2. Shows(chan')  BY <2>1, ShowsSame, ShowsNew
  <2> QED  BY <1>2, <1>4, <2>1, <2>2, QuietKeeps, ActsShowing
<1>6. CASE Ch!ClientPart
  <2>1. /\ Ch!Quiet /\ UNCHANGED <<keep, sticky, rejoin>>
        /\ \/ Ch!PutIRC(IF connected THEN join ELSE <<>>) /\ UNCHANGED chan
           \/ chan # NoChan /\ ~chan.on /\ chan' = NoChan /\ UNCHANGED out
           \/ Ch!PutIRC(IF connected THEN leave ELSE <<>>) /\ UNCHANGED chan
    BY <1>6 DEF Ch!ClientPart, Ch!mods, join, leave
  <2>2. CASE UNCHANGED chan /\ (\/ Ch!PutIRC(IF connected THEN join ELSE <<>>)
                                \/ Ch!PutIRC(IF connected THEN leave ELSE <<>>))
    <3>1. PutsLines /\ (~connected => out' = out)  BY <1>3, <1>4, <2>2
    <3>2. Shows(chan')  BY <2>2, ShowsSame
    <3> QED  BY <1>2, <2>1, <3>1, <3>2, QuietKeeps, ActsShowing
  <2>3. CASE chan # NoChan /\ ~chan.on /\ chan' = NoChan /\ UNCHANGED out
    <3>1. PutsLines /\ Absent(chan)  BY <1>2, <2>3, PutsNothing DEF Absent
    <3> QED  BY <1>2, <2>1, <2>3, <3>1, QuietKeeps, ActsForgetting
  <2> QED  BY <2>1, <2>2, <2>3
<1>7. CASE Ch!ClientForwards
  <2>1. PICK n \in {Conf, Alt} : Ch!PutIRC(<<<<"NICK", n>>>>) \/ Ch!PutIRC(<<<<"NAMES">>>>)
    BY <1>7 DEF Ch!ClientForwards
  <2>2. n \in Ch!Nicks  BY DEF Ch!Nicks
  <2>3. PutsLines  BY <2>1, <2>2, LinesSent DEF PutsLines, Ch!PutIRC
  <2>4. /\ connected /\ Ch!Quiet /\ UNCHANGED <<chan, keep, sticky, rejoin>>
    BY <1>7 DEF Ch!ClientForwards, Ch!mods
  <2>5. Shows(chan')  BY <2>4, ShowsSame
  <2> QED  BY <1>2, <2>3, <2>4, <2>5, QuietKeeps, ActsShowing
<1>8. CASE Ch!DelChan
  <2>1. /\ Ch!Quiet /\ UNCHANGED <<keep, sticky, rejoin>> /\ chan' = NoChan
        /\ Ch!PutIRC(IF connected THEN leave ELSE <<>>)
    BY <1>8 DEF Ch!DelChan, Ch!mods, leave
  <2> QED  BY <1>2, <1>3, <2>1, QuietKeeps, ActsForgetting
<1>9. CASE Ch!AddChan
  <2>1. /\ Ch!Quiet /\ UNCHANGED <<out, keep, sticky, rejoin>>
        /\ chan = NoChan /\ chan' = Ch!CChan
    BY <1>9 DEF Ch!AddChan, Ch!mods
  <2>2. Shows(chan') /\ PutsLines  BY <1>2, <2>1, ShowsNew, PutsNothing
  <2> QED  BY <1>2, <2>1, <2>2, QuietKeeps, ActsShowing
<1>10. CASE Ch!EnableChan
  <2>1. /\ Ch!Quiet /\ UNCHANGED <<out, keep, sticky, rejoin>>
        /\ chan # NoChan /\ chan' = Ch!Enable(chan)
    BY <1>10 DEF Ch!EnableChan, Ch!mods
  <2>2. Shows(chan') /\ PutsLines  BY <1>2, <2>1, ShowsEnabled, PutsNothing
  <2> QED  BY <1>2, <2>1, <2>2, QuietKeeps, ActsShowing
<1>11. CASE Ch!DisableChan
  <2>1. /\ Ch!Quiet /\ UNCHANGED <<out, keep, sticky, rejoin>>
        /\ chan # NoChan /\ chan' = Ch!Disable(chan)
    BY <1>11 DEF Ch!DisableChan, Ch!mods
  <2>2. Shows(chan') /\ PutsLines  BY <1>2, <2>1, ShowsDisabled, PutsNothing
  <2> QED  BY <1>2, <2>1, <2>2, QuietKeeps, ActsShowing
<1>12. CASE Ch!ModCommand
  <2>1. /\ Ch!Quiet /\ UNCHANGED <<out, chan, rejoin>>
        /\ keep' \in BOOLEAN /\ sticky' \in BOOLEAN
    <3>1. CASE sticky' = ~sticky /\ UNCHANGED keep  BY <1>2, <1>12, <3>1 DEF Ch!ModCommand
    <3>2. CASE keep' = ~keep /\ UNCHANGED sticky  BY <1>2, <1>12, <3>2 DEF Ch!ModCommand
    <3> QED  BY <1>12, <3>1, <3>2 DEF Ch!ModCommand
  <2>2. Shows(chan') /\ PutsLines  BY <1>2, <2>1, ShowsSame, PutsNothing
  <2> QED  BY <1>2, <2>1, <2>2, QuietKeeps, ActsShowing
<1> QED  BY <1>5, <1>6, <1>7, <1>8, <1>9, <1>10, <1>11, <1>12
-----------------------------------------------------------------------------
(* The lines of the server, and the pictures between which they lie *)

LEMMA JoinLine ==
  ASSUME NEW x, NEW y, NEW n \in Ch!Nicks, y.me = x.me,
         n = x.me => x.members = Ch!NoNicks /\ y.members = Ch!With(Ch!NoNicks, x.me, {}),
         n # x.me => /\ In(x) /\ n \notin DOMAIN x.members
                     /\ y.members = Ch!With(x.members, n, {})
  PROVE  <<"JOIN", n>> \in ChannelLines /\ Leads(x, <<"JOIN", n>>, y)
  BY DEF Leads, ChannelLines

LEMMA LeaveLine ==
  ASSUME NEW x, NEW y, NEW t \in {"PART", "KICK", "QUIT"}, NEW n \in Ch!Nicks, y.me = x.me,
         In(x), n \in DOMAIN x.members,
         n = x.me => t # "QUIT" /\ y.members = Ch!NoNicks,
         n # x.me => y.members = Ch!Without(x.members, n)
  PROVE  <<t, n>> \in ChannelLines /\ Leads(x, <<t, n>>, y)
  BY DEF Leads, ChannelLines

LEMMA NickLine ==
  ASSUME NEW x, NEW y, NEW old \in Ch!Nicks, NEW new \in Ch!Nicks, new # x.me,
         new \notin DOMAIN x.members, y.me = (IF old = x.me THEN new ELSE x.me),
         y.members = Ch!Renamed(x.members, old, new)
  PROVE  <<"NICK", old, new>> \in ChannelLines /\ Leads(x, <<"NICK", old, new>>, y)
  BY DEF Leads, ChannelLines

LEMMA ModeLine ==
  ASSUME NEW x, NEW y, NEW n \in Ch!Nicks, NEW p \in Ch!Perms, NEW add \in BOOLEAN,
         y.me = x.me, In(x), n \in DOMAIN x.members,
         y.members = [x.members EXCEPT ![n] = IF add THEN @ \cup {p} ELSE @ \ {p}]
  PROVE  <<"MODE", n, p, add>> \in ChannelLines /\ Leads(x, <<"MODE", n, p, add>>, y)
<1> DEFINE l == <<"MODE", n, p, add>>
<1>1. l[1] = "MODE" /\ l[2] = n /\ l[3] = p /\ l[4] = add  OBVIOUS
<1>2. l \in {"MODE"} \X Ch!Nicks \X Ch!Perms \X BOOLEAN  OBVIOUS
<1> HIDE DEF l
<1>3. l \in ChannelLines  BY <1>2 DEF ChannelLines
<1>4. Leads(x, l, y)  BY <1>1 DEF Leads
<1> QED  BY <1>3, <1>4 DEF l

LEMMA NamesLine ==
  ASSUME NEW x, NEW y \in Pictures, y.me = x.me, In(x), DOMAIN x.members \subseteq DOMAIN y.members,
         \A n \in DOMAIN x.members : x.members[n] \subseteq y.members[n]
  PROVE  Ch!Names(y.members) \in ChannelLines /\ Leads(x, Ch!Names(y.members), y)
<1> DEFINE f == [n \in DOMAIN y.members |-> Ch!Prefixes(y.members[n])]
<1>1. f \in Ch!NickMaps
  <2>1. f = [n \in DOMAIN f |-> f[n]]  OBVIOUS
  <2>2. \A n \in DOMAIN f : f[n] \subseteq y.members[n]  BY PrefixesFacts
  <2>3. y.members \in Ch!NickMaps  BY PictureFacts
  <2>4. DOMAIN f \subseteq Ch!Nicks /\ \A n \in DOMAIN f : f[n] \subseteq Ch!Perms
    BY <2>2, <2>3, NickMapsFacts
  <2> HIDE DEF f
  <2> QED  BY <2>1, <2>4, NickMapsFacts
<1>2. Ch!Names(y.members) = <<"353", f>>  BY DEF Ch!Names
<1>3. f = [n \in DOMAIN y.members |-> Ch!Prefixes(y.members[n])]  OBVIOUS
<1> HIDE DEF f
<1>4. <<"353", f>> \in ChannelLines  BY <1>1 DEF ChannelLines
<1>5. Leads(x, <<"353", f>>, y)  BY <1>3 DEF Leads
<1> QED  BY <1>2, <1>4, <1>5

LEMMA RefusalLine ==
  ASSUME NEW x, NEW t \in {"470", "479", "433", "435"}
  PROVE  <<t>> \in ChannelLines /\ Leads(x, <<t>>, x)
  BY DEF Leads, ChannelLines

-----------------------------------------------------------------------------
(* The server *)

\* What a step of the server leaves alone, and how a PART leaves the wire: it takes ZNC
\* out of the channel.
Tells == /\ connected /\ UNCHANGED <<namesx, connected, nick, chan, keep, sticky, rejoin>>
         /\ out' \in Seq(ClientLines) /\ (Leaving(out) => Leaving(out') \/ ~In(Now'))
         /\ Now' \in Pictures
         /\ other' \in Ch!Nicks /\ me' # other' /\ DOMAIN members' \subseteq {me', other'}
         /\ events' \in 0..MaxEvents

LEMMA TellsInv ==
  ASSUME MirrorInv, Tells, NEW h, Recounts(h, wire, Now), Starts(h),
         NEW g, Recounts(g, wire', Now'), g[1] = h[1], EverOut(h) \/ ~In(Now') => EverOut(g),
         wire' \in Seq(ChannelLines), Len(wire') <= MaxWire
  PROVE  MirrorInv'
<1>1. /\ connected /\ UNCHANGED <<namesx, connected, nick, chan, keep, sticky, rejoin>>
      /\ out' \in Seq(ClientLines) /\ (Leaving(out) => Leaving(out') \/ ~In(Now'))
      /\ me' \in Ch!Nicks /\ members' \in Ch!NickMaps
      /\ other' \in Ch!Nicks /\ me' # other' /\ DOMAIN members' \subseteq {me', other'}
      /\ events' \in 0..MaxEvents
  BY DEF Tells, Pictures, Now
<1>2. Recounts(g, wire, Now)'  BY <1>1, RecountsKept
<1>3. Starts(g)'
  <2> DEFINE x == h[1]
  <2>1. /\ nick = x.me
        /\ Sync(chan, x) /\ (In(x) /\ Absent(chan) => Leaving(out) \/ EverOut(h))
    BY <1>1 DEF Starts
  <2>2. g[1] = x  OBVIOUS
  <2> HIDE DEF x
  <2>3. Sync(chan', x)  BY <1>1, <2>1
  <2>4. Sync(chan, g[1])'  BY <1>1, <2>2, <2>3, SyncKept
  <2>5. In(x) /\ Absent(chan') => Leaving(out') \/ EverOut(g)  BY <1>1, <2>1
  <2>6. (In(g[1]) /\ Absent(chan) => Leaving(out) \/ EverOut(g))'
    BY <2>2, <2>5 DEF In, Absent, Leaving, EverOut
  <2> QED  BY <1>1, <2>1, <2>2, <2>4, <2>6 DEF Starts
<1>4. Ch!TypeOK'  BY <1>1, InvTypes DEF Ch!TypeOK, Tried
<1> QED  BY <1>1, <1>2, <1>3, <1>4 DEF MirrorInv

\* The server says nothing: it has nothing to say.
LEMMA TellsNothing ==
  ASSUME MirrorInv, Tells, wire' = wire, Now' = Now
  PROVE  MirrorInv'
<1>1. PICK h : Recounts(h, wire, Now) /\ Starts(h)  BY DEF MirrorInv
<1>2. Recounts(h, wire', Now') /\ h[Len(h)] = Now  BY <1>1 DEF Recounts
<1>3. ~In(Now') => EverOut(h)
  <2>1. Len(h) \in 1..Len(h)  BY <1>1, InvTypes, RecountsFacts
  <2> QED  BY <1>2, <2>1 DEF EverOut
<1> QED  BY <1>1, <1>2, <1>3, InvTypes, TellsInv

LEMMA TellsOne ==
  ASSUME MirrorInv, Tells, NEW l \in ChannelLines, Ch!Sends(<<l>>), Leads(Now, l, Now')
  PROVE  MirrorInv'
<1>1. PICK h : Recounts(h, wire, Now) /\ Starts(h)  BY DEF MirrorInv
<1>2. PICK q \in Pictures : q = Now'  BY DEF Tells
<1>3. /\ wire' = Append(wire, l) /\ Append(wire, l) \in Seq(ChannelLines)
      /\ Len(wire') <= MaxWire
  <2>1. wire' = wire \o <<l>> /\ Len(wire) + 1 <= MaxWire  BY DEF Ch!Sends
  <2>2. /\ Append(wire, l) = wire \o <<l>> /\ Append(wire, l) \in Seq(ChannelLines)
        /\ Len(Append(wire, l)) = Len(wire) + 1
    BY InvTypes, AppendIsConcat, AppendProperties
  <2> QED  BY <2>1, <2>2
<1>4. /\ Recounts(Append(h, q), Append(wire, l), q)
      /\ Append(h, q)[1] = h[1]
      /\ EverOut(h) \/ ~In(q) => EverOut(Append(h, q))
  <2> DEFINE p == Now
  <2>1. Recounts(h, wire, p) /\ Leads(p, l, q)  BY <1>1, <1>2
  <2> HIDE DEF p
  <2> QED  BY <2>1, InvTypes, RecountsAppend
<1> QED  BY <1>1, <1>2, <1>3, <1>4, TellsInv

LEMMA TellsTwo ==
  ASSUME MirrorInv, Tells, NEW l \in ChannelLines, NEW k \in ChannelLines, Ch!Sends(<<l, k>>),
         NEW m \in Pictures, Leads(Now, l, m), Leads(m, k, Now')
  PROVE  MirrorInv'
<1>1. PICK h : Recounts(h, wire, Now) /\ Starts(h)  BY DEF MirrorInv
<1>2. PICK q \in Pictures : q = Now'  BY DEF Tells
<1> DEFINE w == Append(wire, l)  g == Append(h, m)
<1>3. w \in Seq(ChannelLines) /\ w = wire \o <<l>> /\ Len(w) = Len(wire) + 1
  BY InvTypes, AppendIsConcat, AppendProperties
<1>4. wire' = Append(w, k) /\ Append(w, k) \in Seq(ChannelLines) /\ Len(wire') <= MaxWire
  <2>0. wire' = wire \o <<l, k>> /\ Len(wire) + 2 <= MaxWire  BY DEF Ch!Sends
  <2>1. /\ Append(w, k) = w \o <<k>> /\ Append(w, k) \in Seq(ChannelLines)
        /\ Len(Append(w, k)) = Len(w) + 1
    <3> HIDE DEF w
    <3> QED  BY <1>3, AppendIsConcat, AppendProperties
  <2>2. <<l>> \in Seq(ChannelLines) /\ <<k>> \in Seq(ChannelLines) /\ <<l>> \o <<k>> = <<l, k>>
    <3>1. <<l>> \in Seq(ChannelLines) /\ <<k>> \in Seq(ChannelLines)  OBVIOUS
    <3> DEFINE s == <<l>>  t == <<k>>  both == <<l, k>>
    <3>2. Len(s) = 1 /\ s[1] = l /\ Len(t) = 1 /\ t[1] = k  OBVIOUS
    <3>3. both \in Seq(ChannelLines) /\ Len(both) = 2 /\ both[1] = l /\ both[2] = k  OBVIOUS
    <3>4. s \in Seq(ChannelLines) /\ t \in Seq(ChannelLines)  BY <3>1
    <3> HIDE DEF s, t, both
    <3>5. /\ s \o t \in Seq(ChannelLines) /\ Len(s \o t) = Len(s) + Len(t)
          /\ \A i \in 1..(Len(s) + Len(t)) : (s \o t)[i] = IF i <= Len(s) THEN s[i] ELSE t[i - Len(s)]
      BY <3>4, ConcatProperties
    <3>6. Len(s \o t) = 2 /\ (s \o t)[1] = l /\ (s \o t)[2] = k  BY <3>2, <3>5
    <3>7. \A i \in 1..2 : i = 1 \/ i = 2  OBVIOUS
    <3>8. s \o t = both  BY <3>3, <3>5, <3>6, <3>7, SeqEqual
    <3> QED  BY <3>1, <3>8 DEF s, t, both
  <2>3. (wire \o <<l>>) \o <<k>> = wire \o (<<l>> \o <<k>>)
    BY <2>2, InvTypes, ConcatAssociative
  <2>4. wire' = Append(w, k)  BY <1>3, <2>0, <2>1, <2>2, <2>3
  <2>5. Len(wire) \in Nat  BY InvTypes, LenProperties
  <2> HIDE DEF w
  <2> QED  BY <1>3, <2>0, <2>1, <2>4, <2>5, BoundsAssumption
<1>5. /\ Recounts(g, w, m) /\ g[1] = h[1]
      /\ EverOut(h) \/ ~In(m) => EverOut(g)
  <2> DEFINE p == Now
  <2>1. Recounts(h, wire, p) /\ Leads(p, l, m)  BY <1>1
  <2> HIDE DEF p
  <2> QED  BY <2>1, InvTypes, RecountsAppend
<1> HIDE DEF g, w
<1>6. /\ Recounts(Append(g, q), Append(w, k), q) /\ Append(g, q)[1] = g[1]
      /\ EverOut(g) \/ ~In(q) => EverOut(Append(g, q))
  <2>1. w \in Seq(ChannelLines) /\ Recounts(g, w, m) /\ Leads(m, k, q)  BY <1>2, <1>3, <1>5
  <2> QED  BY <2>1, RecountsAppend
<1> QED  BY <1>1, <1>2, <1>4, <1>5, <1>6, TellsInv

LEMMA NowFacts ==
  /\ Now.me = me /\ Now.members = members /\ (In(Now) <=> me \in DOMAIN members)
  /\ Now'.me = me' /\ Now'.members = members' /\ (In(Now') <=> me' \in DOMAIN members')
  BY DEF Now, In

LEMMA NowPicture ==
  ASSUME me' \in Ch!Nicks, members' \in Ch!NickMaps,
         members' = Ch!NoNicks \/ me' \in DOMAIN members'
  PROVE  Now' \in Pictures
  BY DEF Now, Pictures

LEMMA NowInvPicture ==
  ASSUME MirrorInv
  PROVE  Now \in Pictures /\ (members = Ch!NoNicks \/ me \in DOMAIN members)
<1>1. PICK h : Recounts(h, wire, Now)  BY DEF MirrorInv
<1>2. Now \in Pictures  BY <1>1, InvTypes, RecountsFacts
<1> QED  BY <1>2 DEF Pictures, Now

\* The server takes a line of ZNC off the wire.
LEMMA ServedFacts ==
  ASSUME MirrorInv, NEW type, Ch!Served(type)
  PROVE  /\ connected /\ UNCHANGED <<namesx, connected, nick, chan, keep, sticky, rejoin>>
         /\ out' \in Seq(ClientLines)
         /\ Leaving(out) => Leaving(out') \/ type = "PART"
         /\ type = "NICK" => Head(out)[2] \in Ch!Nicks
<1>1. /\ out # <<>> /\ Head(out)[1] = type /\ out' = Tail(out)
      /\ UNCHANGED <<namesx, connected, nick, chan, keep, sticky, rejoin>>
  BY DEF Ch!Served, Ch!mods
<1>2. out \in Seq(ClientLines) /\ connected  BY <1>1, InvTypes
<1>3. /\ Tail(out) \in Seq(ClientLines) /\ Len(Tail(out)) = Len(out) - 1 /\ Len(out) \in Nat
      /\ \A i \in 1..Len(Tail(out)) : Tail(out)[i] = out[i + 1]
      /\ Head(out) \in ClientLines /\ Head(out) = out[1]
  BY <1>1, <1>2, HeadTailProperties, LenProperties
<1>4. ASSUME Leaving(out), type # "PART" PROVE Leaving(out')
  <2>1. PICK i \in DOMAIN out : out[i][1] = "PART"  BY <1>4 DEF Leaving
  <2>2. i \in 1..Len(out)  BY <1>2, <2>1, LenProperties
  <2>3. i # 1  BY <1>1, <1>3, <1>4, <2>1
  <2>4. i - 1 \in 1..Len(Tail(out)) /\ (i - 1) + 1 = i  BY <1>3, <2>2, <2>3
  <2>5. i - 1 \in DOMAIN out' /\ out'[i - 1] = out[i]  BY <1>1, <1>3, <2>4, LenProperties
  <2> QED  BY <2>1, <2>5 DEF Leaving
<1>5. type = "NICK" => Head(out)[2] \in Ch!Nicks  BY <1>1, <1>3 DEF ClientLines
<1> QED  BY <1>1, <1>2, <1>3, <1>4, <1>5

\* The members change no more than this when the other user stays the same.
LEMMA ServeTells ==
  ASSUME MirrorInv, NEW type, Ch!Served(type), UNCHANGED <<events, other>>,
         me' \in Ch!Nicks, me' # other, members' \in Ch!NickMaps,
         members' = Ch!NoNicks \/ me' \in DOMAIN members', DOMAIN members' \subseteq {me', other},
         type = "PART" => ~In(Now')
  PROVE  Tells
<1>1. Now' \in Pictures  BY NowPicture
<1> QED  BY <1>1, ServedFacts, InvTypes DEF Tells

\* Nothing changed for the server.
LEMMA ServeNothing ==
  ASSUME MirrorInv, NEW type, Ch!Served(type), UNCHANGED <<events, members, me, other>>,
         type = "PART" => ~In(Now)
  PROVE  Tells /\ Now' = Now
<1>1. Now' = Now  BY DEF Now
<1>2. Tells  BY <1>1, ServeTells, InvTypes, NowInvPicture
<1> QED  BY <1>1, <1>2

LEMMA ServeJoinInv ==
  ASSUME MirrorInv, Ch!ServeJoin, UNCHANGED events
  PROVE  MirrorInv'
<1>1. Ch!Served("JOIN") /\ UNCHANGED <<me, other>>  BY DEF Ch!ServeJoin
<1>2. me \in Ch!Nicks /\ other \in Ch!Nicks /\ me # other  BY InvTypes
<1>3. CASE UNCHANGED <<members, wire>>
  <2>1. Tells /\ Now' = Now  BY <1>1, <1>3, ServeNothing
  <2> QED  BY <1>3, <2>1, TellsNothing
<1>4. ASSUME UNCHANGED members, NEW e \in {"470", "479"}, Ch!Sends(<<<<e>>>>)
      PROVE  MirrorInv'
  <2>1. Tells /\ Now' = Now  BY <1>1, <1>4, ServeNothing
  <2>2. <<e>> \in ChannelLines /\ Leads(Now, <<e>>, Now)  BY <1>4, RefusalLine
  <2>3. Leads(Now, <<e>>, Now')  BY <2>1, <2>2
  <2> DEFINE l == <<e>>
  <2> HIDE DEF l
  <2>4. l \in ChannelLines /\ Ch!Sends(<<l>>) /\ Leads(Now, l, Now')  BY <1>4, <2>2, <2>3 DEF l
  <2> QED  BY <2>1, <2>4, TellsOne
<1>5. ASSUME ~Ch!InChan,
             NEW ms \in {Ch!With(Ch!NoNicks, me, {"op"})} \cup
                        {Ch!With(Ch!With(Ch!NoNicks, me, {}), other, p) : p \in SUBSET Ch!Perms},
             members' = ms, Ch!Sends(<<<<"JOIN", me>>, Ch!Names(ms)>>)
      PROVE  MirrorInv'
  <2> DEFINE alone == Ch!With(Ch!NoNicks, me, {})
             m == [me |-> me, members |-> alone]
  <2>1. alone \in Ch!NickMaps /\ DOMAIN alone = {me} /\ alone[me] = {}  BY <1>2, AloneFacts
  <2>2. ms \in Ch!NickMaps /\ me \in DOMAIN ms /\ DOMAIN ms \subseteq {me, other}
    <3>1. CASE ms = Ch!With(Ch!NoNicks, me, {"op"})
      <4> DEFINE v == {"op"}
      <4>1. v \in SUBSET Ch!Perms  BY DEF Ch!Perms
      <4> HIDE DEF v
      <4>2. LET g == Ch!With(Ch!NoNicks, me, v)
            IN  g \in Ch!NickMaps /\ DOMAIN g = DOMAIN Ch!NoNicks \cup {me}
        BY <1>2, <4>1, NoNicksFacts, WithFacts
      <4> QED  BY <3>1, <4>2, NoNicksFacts DEF v
    <3>2. ASSUME NEW p \in SUBSET Ch!Perms, ms = Ch!With(alone, other, p)
          PROVE  ms \in Ch!NickMaps /\ me \in DOMAIN ms /\ DOMAIN ms \subseteq {me, other}
      <4> HIDE DEF alone
      <4>1. ms \in Ch!NickMaps /\ DOMAIN ms = DOMAIN alone \cup {other}
        BY <1>2, <2>1, <3>2, WithFacts
      <4> QED  BY <2>1, <4>1
    <3> QED  BY <3>1, <3>2
  <2> HIDE DEF alone
  <2>3. m \in Pictures /\ m.me = me /\ m.members = alone /\ In(m)
    BY <1>2, <2>1 DEF Pictures, In
  <2> HIDE DEF m
  <2>4. Tells  BY <1>1, <1>2, <1>5, <2>2, ServeTells
  <2>5. Now.me = me /\ Now.members = Ch!NoNicks
    BY <1>5, NowFacts, NowInvPicture DEF Ch!InChan
  <2>6. <<"JOIN", me>> \in ChannelLines /\ Leads(Now, <<"JOIN", me>>, m)
    <3>1. /\ m.me = Now.me /\ me \in Ch!Nicks /\ me = Now.me
          /\ m.members = Ch!With(Ch!NoNicks, Now.me, {})
      BY <1>2, <2>3, <2>5 DEF alone
    <3> QED  BY <2>5, <3>1, JoinLine
  <2>7. PICK q \in Pictures : q = Now'  BY <2>4 DEF Tells
  <2>8. q.me = me /\ q.members = ms  BY <1>1, <1>5, <2>7, NowFacts
  <2>9. Ch!Names(q.members) \in ChannelLines /\ Leads(m, Ch!Names(q.members), q)
    <3>1. q.me = m.me /\ DOMAIN m.members \subseteq DOMAIN q.members
      BY <2>1, <2>2, <2>3, <2>8
    <3>2. \A n \in DOMAIN m.members : m.members[n] \subseteq q.members[n]
      BY <2>1, <2>3
    <3> QED  BY <2>3, <3>1, <3>2, NamesLine
  <2> DEFINE l == <<"JOIN", me>>  k == Ch!Names(ms)
  <2> HIDE DEF l, k
  <2>10. /\ l \in ChannelLines /\ k \in ChannelLines /\ Ch!Sends(<<l, k>>)
         /\ Leads(Now, l, m) /\ Leads(m, k, Now')
    BY <1>5, <2>6, <2>7, <2>8, <2>9 DEF l, k
  <2> QED  BY <2>3, <2>4, <2>10, TellsTwo
<1> QED
  <2>1. CASE Ch!InChan  BY <1>3, <2>1 DEF Ch!ServeJoin
  <2>2. CASE ~Ch!InChan  BY <1>3, <1>4, <1>5, <2>2, Zenon DEF Ch!ServeJoin
  <2> QED  BY <2>1, <2>2

LEMMA ServePartInv ==
  ASSUME MirrorInv, Ch!ServePart, UNCHANGED events
  PROVE  MirrorInv'
<1>1. Ch!Served("PART") /\ UNCHANGED <<me, other>>  BY DEF Ch!ServePart
<1>2. me \in Ch!Nicks /\ other \in Ch!Nicks /\ me # other  BY InvTypes
<1>3. CASE Ch!InChan
  <2>1. members' = Ch!NoNicks /\ Ch!Sends(<<<<"PART", me>>>>)  BY <1>3 DEF Ch!ServePart
  <2>2. ~In(Now') /\ members' \in Ch!NickMaps /\ DOMAIN members' = {}
    BY <2>1, NowFacts, NoNicksFacts
  <2>3. Tells  BY <1>1, <1>2, <2>1, <2>2, ServeTells
  <2>4. PICK q \in Pictures : q = Now'  BY <2>3 DEF Tells
  <2> DEFINE l == <<"PART", me>>
  <2>5. l \in ChannelLines /\ Leads(Now, l, q)
    <3> DEFINE x == Now
    <3>1. /\ q.me = x.me /\ In(x) /\ me \in DOMAIN x.members /\ me = x.me
          /\ q.members = Ch!NoNicks
      BY <1>1, <1>3, <2>1, <2>4, NowFacts DEF Ch!InChan
    <3> HIDE DEF x
    <3>2. <<"PART", me>> \in ChannelLines /\ Leads(x, <<"PART", me>>, q)
      BY <1>2, <3>1, LeaveLine
    <3> QED  BY <3>2 DEF x
  <2> HIDE DEF l
  <2>6. Ch!Sends(<<l>>)  BY <2>1 DEF l
  <2> QED  BY <2>3, <2>4, <2>5, <2>6, TellsOne
<1>4. CASE ~Ch!InChan
  <2>1. UNCHANGED <<members, wire>>  BY <1>4 DEF Ch!ServePart
  <2>2. ~In(Now)  BY <1>4, NowFacts DEF Ch!InChan
  <2>3. Tells /\ Now' = Now  BY <1>1, <2>1, <2>2, ServeNothing
  <2> QED  BY <2>1, <2>3, TellsNothing
<1> QED  BY <1>3, <1>4

LEMMA ServeNamesInv ==
  ASSUME MirrorInv, Ch!ServeNames, UNCHANGED events
  PROVE  MirrorInv'
<1>1. Ch!Served("NAMES") /\ UNCHANGED <<members, me, other>>  BY DEF Ch!ServeNames
<1>2. Tells /\ Now' = Now  BY <1>1, ServeNothing
<1>3. CASE Ch!InChan
  <2> DEFINE x == Now  l == Ch!Names(members)
  <2>1. x \in Pictures /\ In(x) /\ x.members = members
    BY <1>3, NowInvPicture, NowFacts DEF Ch!InChan
  <2>2. l \in ChannelLines /\ Leads(Now, l, Now)
    <3> HIDE DEF x
    <3>1. Ch!Names(x.members) \in ChannelLines /\ Leads(x, Ch!Names(x.members), x)
      BY <2>1, NamesLine
    <3> QED  BY <2>1, <3>1 DEF x
  <2>3. Ch!Sends(<<l>>)  BY <1>3 DEF Ch!ServeNames
  <2>4. Leads(Now, l, Now')  BY <1>2, <2>2
  <2> HIDE DEF l
  <2> QED  BY <1>2, <2>2, <2>3, <2>4, TellsOne
<1>4. CASE ~Ch!InChan
  <2>1. UNCHANGED wire  BY <1>4 DEF Ch!ServeNames
  <2> QED  BY <1>2, <2>1, TellsNothing
<1> QED  BY <1>3, <1>4

LEMMA ServeNickInv ==
  ASSUME MirrorInv, Ch!ServeNick, UNCHANGED events
  PROVE  MirrorInv'
<1> DEFINE new == Head(out)[2]
<1>1. Ch!Served("NICK") /\ UNCHANGED other  BY DEF Ch!ServeNick
<1>2. /\ me \in Ch!Nicks /\ other \in Ch!Nicks /\ me # other /\ members \in Ch!NickMaps
      /\ DOMAIN members \subseteq {me, other}
  BY InvTypes
<1>3. new \in Ch!Nicks  BY <1>1, ServedFacts
<1>4. \/ UNCHANGED <<members, me, wire>>
      \/ UNCHANGED <<members, me>> /\ \E e \in {"433", "435"} : Ch!Sends(<<<<e>>>>)
      \/ /\ new # me /\ new # other /\ me' = new /\ members' = Ch!Renamed(members, me, new)
         /\ Ch!Sends(<<<<"NICK", me, new>>>>)
  BY Zenon DEF Ch!ServeNick
<1> HIDE DEF new
<1>5. CASE UNCHANGED <<members, me, wire>>
  <2>1. Tells /\ Now' = Now  BY <1>1, <1>5, ServeNothing
  <2> QED  BY <1>5, <2>1, TellsNothing
<1>6. ASSUME UNCHANGED <<members, me>>, NEW e \in {"433", "435"}, Ch!Sends(<<<<e>>>>)
      PROVE  MirrorInv'
  <2>1. Tells /\ Now' = Now  BY <1>1, <1>6, ServeNothing
  <2>2. <<e>> \in ChannelLines /\ Leads(Now, <<e>>, Now)  BY <1>6, RefusalLine
  <2> DEFINE l == <<e>>
  <2>3. Leads(Now, l, Now')  BY <2>1, <2>2
  <2>4. l \in ChannelLines /\ Ch!Sends(<<l>>)  BY <1>6, <2>2
  <2> HIDE DEF l
  <2> QED  BY <2>1, <2>3, <2>4, TellsOne
<1>7. CASE /\ new # me /\ new # other /\ me' = new /\ members' = Ch!Renamed(members, me, new)
           /\ Ch!Sends(<<<<"NICK", me, new>>>>)
  <2>1. members' \in Ch!NickMaps /\ IsRenamed(members, me, new, members')
    BY <1>2, <1>3, <1>7, RenamedFacts
  <2>2. me \in DOMAIN members \/ members = Ch!NoNicks  BY NowInvPicture
  <2>3. /\ members' = Ch!NoNicks \/ me' \in DOMAIN members'
        /\ DOMAIN members' \subseteq {me', other}
    <3>1. CASE me \in DOMAIN members  BY <1>2, <1>7, <2>1, <3>1 DEF IsRenamed
    <3>2. CASE members = Ch!NoNicks  BY <2>1, <3>2, NoNicksFacts DEF IsRenamed
    <3> QED  BY <2>2, <3>1, <3>2
  <2>4. Tells  BY <1>1, <1>2, <1>3, <1>7, <2>1, <2>3, ServeTells
  <2>5. PICK q \in Pictures : q = Now'  BY <2>4 DEF Tells
  <2> DEFINE l == <<"NICK", me, new>>
  <2>6. l \in ChannelLines /\ Leads(Now, l, q)
    <3> DEFINE x == Now
    <3>1. /\ x.me = me /\ q.me = new /\ new # x.me /\ new \notin DOMAIN x.members
          /\ q.members = Ch!Renamed(x.members, me, new)
      BY <1>2, <1>7, <2>5, NowFacts
    <3> HIDE DEF x
    <3>2. <<"NICK", me, new>> \in ChannelLines /\ Leads(x, <<"NICK", me, new>>, q)
      BY <1>2, <1>3, <3>1, NickLine
    <3> QED  BY <3>2 DEF x
  <2> HIDE DEF l
  <2>7. Ch!Sends(<<l>>)  BY <1>7 DEF l
  <2> QED  BY <2>4, <2>5, <2>6, <2>7, TellsOne
<1> QED  BY <1>4, <1>5, <1>6, <1>7
-----------------------------------------------------------------------------
(* What others do *)

LEMMA WorldTells ==
  ASSUME MirrorInv, Ch!ByOthers, events' \in 0..MaxEvents,
         me' = me, other' \in Ch!Nicks, me # other', members' \in Ch!NickMaps,
         members' = Ch!NoNicks \/ me' \in DOMAIN members', DOMAIN members' \subseteq {me', other'}
  PROVE  Tells
<1>1. Now' \in Pictures
  <2>1. me' \in Ch!Nicks  BY InvTypes
  <2> QED  BY <2>1, NowPicture
<1>2. /\ connected /\ UNCHANGED <<namesx, out, connected, nick, chan, keep, sticky, rejoin>>
  BY DEF Ch!ByOthers, Ch!mods
<1> QED  BY <1>1, <1>2, InvTypes DEF Tells

LEMMA KickedInv ==
  ASSUME MirrorInv, Ch!Kicked, events' \in 0..MaxEvents
  PROVE  MirrorInv'
<1>1. /\ Ch!ByOthers /\ UNCHANGED <<me, other>> /\ me \in DOMAIN members
      /\ members' = Ch!NoNicks /\ Ch!Sends(<<<<"KICK", me>>>>)
  BY DEF Ch!Kicked, Ch!InChan
<1>2. me \in Ch!Nicks /\ other \in Ch!Nicks /\ me # other  BY InvTypes
<1>3. members' \in Ch!NickMaps /\ DOMAIN members' = {}  BY <1>1, NoNicksFacts
<1>4. Tells  BY <1>1, <1>2, <1>3, WorldTells
<1>5. PICK q \in Pictures : q = Now'  BY <1>4 DEF Tells
<1> DEFINE l == <<"KICK", me>>  x == Now
<1>6. /\ q.me = x.me /\ In(x) /\ me \in DOMAIN x.members /\ me = x.me
      /\ q.members = Ch!NoNicks
  BY <1>1, <1>5, NowFacts
<1> HIDE DEF x
<1>7. l \in ChannelLines /\ Leads(x, l, q)
  <2>1. <<"KICK", me>> \in ChannelLines /\ Leads(x, <<"KICK", me>>, q)
    BY <1>2, <1>6, LeaveLine
  <2> QED  BY <2>1
<1> HIDE DEF l
<1>8. Ch!Sends(<<l>>)  BY <1>1 DEF l
<1>9. Leads(Now, l, Now')  BY <1>5, <1>7 DEF x
<1> QED  BY <1>4, <1>7, <1>8, <1>9, TellsOne

LEMMA ModeSetInv ==
  ASSUME MirrorInv, Ch!ModeSet, events' \in 0..MaxEvents
  PROVE  MirrorInv'
<1>1. Ch!ByOthers /\ UNCHANGED <<me, other>> /\ me \in DOMAIN members
  BY DEF Ch!ModeSet, Ch!InChan
<1>2. PICK n \in DOMAIN members, p \in Ch!Perms :
        /\ members' = [members EXCEPT ![n] = IF p \in @ THEN @ \ {p} ELSE @ \cup {p}]
        /\ Ch!Sends(<<<<"MODE", n, p, p \notin members[n]>>>>)
  BY Zenon DEF Ch!ModeSet
<1>3. /\ me \in Ch!Nicks /\ other \in Ch!Nicks /\ me # other /\ members \in Ch!NickMaps
      /\ DOMAIN members \subseteq {me, other} /\ DOMAIN members \subseteq Ch!Nicks
  BY InvTypes
<1>4. PICK add \in BOOLEAN : add = (p \notin members[n])  OBVIOUS
<1>5. members' = [members EXCEPT ![n] = IF add THEN @ \cup {p} ELSE @ \ {p}]
  BY <1>2, <1>4
<1> DEFINE v == IF add THEN members[n] \cup {p} ELSE members[n] \ {p}
<1>6. members' \in Ch!NickMaps /\ DOMAIN members' = DOMAIN members
  <2>1. members' = [members EXCEPT ![n] = v]  BY <1>5
  <2>2. v \in SUBSET Ch!Perms  BY <1>2, <1>3, NickMapsFacts
  <2> HIDE DEF v
  <2>3. /\ DOMAIN members' = DOMAIN members
        /\ \A z \in DOMAIN members : members'[z] = IF z = n THEN v ELSE members[z]
        /\ members' = [z \in DOMAIN members' |-> members'[z]]
    BY <2>1
  <2>4. DOMAIN members' \subseteq Ch!Nicks /\ \A z \in DOMAIN members' : members'[z] \subseteq Ch!Perms
    BY <1>3, <2>2, <2>3, NickMapsFacts
  <2> QED  BY <2>3, <2>4, NickMapsFacts
<1>7. Tells  BY <1>1, <1>3, <1>6, WorldTells
<1>8. PICK q \in Pictures : q = Now'  BY <1>7 DEF Tells
<1> DEFINE l == <<"MODE", n, p, add>>  x == Now
<1>9. /\ q.me = x.me /\ In(x) /\ n \in DOMAIN x.members /\ n \in Ch!Nicks
      /\ q.members = [x.members EXCEPT ![n] = IF add THEN @ \cup {p} ELSE @ \ {p}]
  BY <1>1, <1>2, <1>3, <1>5, <1>8, NowFacts
<1> HIDE DEF x
<1>10. l \in ChannelLines /\ Leads(x, l, q)
  <2>1. <<"MODE", n, p, add>> \in ChannelLines /\ Leads(x, <<"MODE", n, p, add>>, q)
    BY <1>2, <1>4, <1>9, ModeLine
  <2> QED  BY <2>1
<1>11. Ch!Sends(<<l>>)  BY <1>2, <1>4
<1> HIDE DEF l
<1>12. Leads(Now, l, Now')  BY <1>8, <1>10 DEF x
<1> QED  BY <1>7, <1>10, <1>11, <1>12, TellsOne

LEMMA OtherJoinsInv ==
  ASSUME MirrorInv, Ch!OtherJoins, events' \in 0..MaxEvents
  PROVE  MirrorInv'
<1>1. /\ Ch!ByOthers /\ UNCHANGED <<me, other>> /\ me \in DOMAIN members
      /\ other \notin DOMAIN members
      /\ members' = Ch!With(members, other, {}) /\ Ch!Sends(<<<<"JOIN", other>>>>)
  BY DEF Ch!OtherJoins, Ch!InChan
<1>2. /\ me \in Ch!Nicks /\ other \in Ch!Nicks /\ me # other /\ members \in Ch!NickMaps
      /\ DOMAIN members \subseteq {me, other}
  BY InvTypes
<1>3. members' \in Ch!NickMaps /\ DOMAIN members' = DOMAIN members \cup {other}
  <2> DEFINE v == {}
  <2>1. members' = Ch!With(members, other, v) /\ v \in SUBSET Ch!Perms  BY <1>1
  <2> HIDE DEF v
  <2> QED  BY <1>2, <2>1, WithFacts
<1>4. Tells  BY <1>1, <1>2, <1>3, WorldTells
<1>5. PICK q \in Pictures : q = Now'  BY <1>4 DEF Tells
<1> DEFINE l == <<"JOIN", other>>  x == Now
<1>6. /\ q.me = x.me /\ In(x) /\ other # x.me /\ other \notin DOMAIN x.members
      /\ q.members = Ch!With(x.members, other, {})
  BY <1>1, <1>2, <1>5, NowFacts
<1> HIDE DEF x
<1>7. l \in ChannelLines /\ Leads(x, l, q)
  <2>1. <<"JOIN", other>> \in ChannelLines /\ Leads(x, <<"JOIN", other>>, q)
    BY <1>2, <1>6, JoinLine
  <2> QED  BY <2>1
<1> HIDE DEF l
<1>8. Ch!Sends(<<l>>)  BY <1>1 DEF l
<1>9. Leads(Now, l, Now')  BY <1>5, <1>7 DEF x
<1> QED  BY <1>4, <1>7, <1>8, <1>9, TellsOne

LEMMA OtherLeavesInv ==
  ASSUME MirrorInv, Ch!OtherLeaves, events' \in 0..MaxEvents
  PROVE  MirrorInv'
<1>1. /\ Ch!ByOthers /\ other \in DOMAIN members /\ members' = Ch!Without(members, other)
      /\ UNCHANGED me
  BY DEF Ch!OtherLeaves
<1>2. PICK t \in {"PART", "KICK", "QUIT"} :
        /\ Ch!Sends(<<<<t, other>>>>)
        /\ other' = other \/ (other' = Stranger /\ me # Stranger)
  <2>1. \/ \E t \in {"PART", "KICK"} : Ch!Sends(<<<<t, other>>>>) /\ UNCHANGED other
        \/ Ch!Sends(<<<<"QUIT", other>>>>) /\ other' = Stranger /\ me # Stranger
    BY Zenon DEF Ch!OtherLeaves
  <2> QED  BY <2>1
<1>3. /\ me \in Ch!Nicks /\ other \in Ch!Nicks /\ me # other /\ members \in Ch!NickMaps
      /\ DOMAIN members \subseteq {me, other} /\ Stranger \in Ch!Nicks
  BY InvTypes DEF Ch!Nicks
<1>4. me \in DOMAIN members
  BY <1>1, NowInvPicture, NoNicksFacts
<1>5. members' \in Ch!NickMaps /\ DOMAIN members' = DOMAIN members \ {other}
  BY <1>1, <1>3, WithoutFacts
<1>6. Tells
  <2>1. other' \in Ch!Nicks /\ me # other'  BY <1>2, <1>3
  <2>2. me' \in DOMAIN members' /\ DOMAIN members' \subseteq {me', other'}
    BY <1>1, <1>3, <1>4, <1>5
  <2> QED  BY <1>1, <1>5, <2>1, <2>2, WorldTells
<1>7. PICK q \in Pictures : q = Now'  BY <1>6 DEF Tells
<1> DEFINE l == <<t, other>>  x == Now
<1>8. /\ q.me = x.me /\ In(x) /\ other # x.me /\ other \in DOMAIN x.members
      /\ q.members = Ch!Without(x.members, other)
  BY <1>1, <1>3, <1>4, <1>7, NowFacts
<1> HIDE DEF x
<1>9. l \in ChannelLines /\ Leads(x, l, q)
  <2>1. <<t, other>> \in ChannelLines /\ Leads(x, <<t, other>>, q)
    BY <1>2, <1>3, <1>8, LeaveLine
  <2> QED  BY <2>1
<1> HIDE DEF l
<1>10. Ch!Sends(<<l>>)  BY <1>2 DEF l
<1>11. Leads(Now, l, Now')  BY <1>7, <1>9 DEF x
<1> QED  BY <1>6, <1>9, <1>10, <1>11, TellsOne

LEMMA OtherNickInv ==
  ASSUME MirrorInv, Ch!OtherNick, events' \in 0..MaxEvents
  PROVE  MirrorInv'
<1>1. Ch!ByOthers /\ UNCHANGED me  BY DEF Ch!OtherNick
<1>2. PICK n \in {Conf, Stranger} \ {me, other} :
        /\ other' = n /\ members' = Ch!Renamed(members, other, n)
        /\ IF other \in DOMAIN members THEN Ch!Sends(<<<<"NICK", other, n>>>>) ELSE UNCHANGED wire
  BY Zenon DEF Ch!OtherNick
<1>3. /\ me \in Ch!Nicks /\ other \in Ch!Nicks /\ me # other /\ members \in Ch!NickMaps
      /\ DOMAIN members \subseteq {me, other} /\ n \in Ch!Nicks
  BY InvTypes DEF Ch!Nicks
<1>4. members' \in Ch!NickMaps /\ IsRenamed(members, other, n, members')
  BY <1>2, <1>3, RenamedFacts
<1>5. members = Ch!NoNicks \/ me \in DOMAIN members  BY NowInvPicture
<1>6. CASE other \in DOMAIN members
  <2>1. me \in DOMAIN members  BY <1>5, <1>6, NoNicksFacts
  <2>2. me' \in DOMAIN members' /\ DOMAIN members' \subseteq {me', other'}
    BY <1>1, <1>2, <1>3, <1>4, <1>6, <2>1 DEF IsRenamed
  <2>3. Tells  BY <1>1, <1>2, <1>3, <1>4, <2>2, WorldTells
  <2>4. PICK q \in Pictures : q = Now'  BY <2>3 DEF Tells
  <2> DEFINE l == <<"NICK", other, n>>  x == Now
  <2>5. /\ x.me = me /\ q.me = me /\ n # x.me /\ n \notin DOMAIN x.members
        /\ q.members = Ch!Renamed(x.members, other, n)
    BY <1>1, <1>2, <1>3, <2>4, NowFacts
  <2> HIDE DEF x
  <2>6. l \in ChannelLines /\ Leads(x, l, q)
    <3>1. <<"NICK", other, n>> \in ChannelLines /\ Leads(x, <<"NICK", other, n>>, q)
      BY <1>3, <2>5, NickLine
    <3> QED  BY <3>1
  <2> HIDE DEF l
  <2>7. Ch!Sends(<<l>>)  BY <1>2, <1>6 DEF l
  <2>8. Leads(Now, l, Now')  BY <2>4, <2>6 DEF x
  <2> QED  BY <2>3, <2>6, <2>7, <2>8, TellsOne
<1>7. CASE other \notin DOMAIN members
  <2>1. members' = members /\ wire' = wire  BY <1>2, <1>4, <1>7 DEF IsRenamed
  <2>2. DOMAIN members' \subseteq {me', other'}  BY <1>1, <1>3, <1>7, <2>1
  <2>3. Tells  BY <1>1, <1>2, <1>3, <1>4, <1>5, <2>1, <2>2, WorldTells
  <2>4. Now' = Now  BY <1>1, <2>1 DEF Now
  <2> QED  BY <2>1, <2>3, <2>4, TellsNothing
<1> QED  BY <1>6, <1>7
-----------------------------------------------------------------------------
(* Connections *)

\* With nothing on the wire and ZNC not in the channel one picture is enough.
LEMMA OnePicture ==
  ASSUME NEW q \in Pictures, ~In(q), wire = <<>>, Now = q, connected => nick = me, Clean(chan)
  PROVE  \E h : Recounts(h, wire, Now) /\ Starts(h)
<1> DEFINE h == <<q>>
<1>1. h \in Seq(Pictures) /\ Len(h) = 1 /\ h[1] = q  OBVIOUS
<1> HIDE DEF h
<1>2. Len(wire) = 0  OBVIOUS
<1>3. Recounts(h, wire, Now)  BY <1>1, <1>2 DEF Recounts
<1>4. q.me = me  BY DEF Now
<1>5. Starts(h)  BY <1>1, <1>4 DEF Starts, Sync
<1> QED  BY <1>3, <1>5

\* A channel that ZNC is not in is clean when nothing is on the wire.
LEMMA CleanOffline ==
  ASSUME MirrorInv, ~connected
  PROVE  Clean(chan) /\ ~In(Now)
<1>1. PICK h : Recounts(h, wire, Now) /\ Starts(h)  BY DEF MirrorInv
<1>2. h[1] = Now  BY <1>1, InvTypes, RecountsFacts
<1>3. ~In(Now)  BY InvTypes, NowFacts, NoNicksFacts
<1> QED  BY <1>1, <1>2, <1>3 DEF Starts, Sync

LEMMA InitMirror == Ch!Init => MirrorInv
<1> SUFFICES ASSUME Ch!Init PROVE MirrorInv
  OBVIOUS
<1>1. /\ members = Ch!NoNicks /\ me = Alt /\ other \in {Conf, Stranger} /\ namesx \in BOOLEAN
      /\ out = <<>> /\ wire = <<>> /\ connected = FALSE /\ nick = Alt /\ chan = Ch!CChan
      /\ keep = FALSE /\ sticky = FALSE /\ rejoin = FALSE /\ events = 0
  BY DEF Ch!Init
<1>2. /\ me \in Ch!Nicks /\ other \in Ch!Nicks /\ nick \in Ch!Nicks /\ me # other
  BY <1>1, NicksAssumption DEF Ch!Nicks
<1>3. members \in Ch!NickMaps /\ DOMAIN members = {}  BY <1>1, NoNicksFacts
<1>4. Len(wire) = 0  BY <1>1
<1>5. Ch!TypeOK
  <2>1. MaxWire \in Nat /\ MaxEvents \in Nat /\ JoinTries \in Nat  BY BoundsAssumption
  <2>2. Len(wire) <= MaxWire /\ events \in 0..MaxEvents  BY <1>1, <1>4, <2>1
  <2>3. chan \in Ch!CChans \cup {NoChan}  BY <1>1, CChanFacts
  <2>4. chan # NoChan /\ JoinTries # 0 => chan.tries <= JoinTries
    BY <1>1, <2>1, CChanFacts
  <2>5. connected \in BOOLEAN /\ keep \in BOOLEAN /\ sticky \in BOOLEAN /\ rejoin \in BOOLEAN
    BY <1>1
  <2>6. namesx \in BOOLEAN  BY <1>1
  <2> QED  BY <1>2, <1>3, <2>2, <2>3, <2>4, <2>5, <2>6, Zenon DEF Ch!TypeOK
<1>6. Now \in Pictures /\ ~In(Now)  BY <1>1, <1>2, <1>3 DEF Now, Pictures, In
<1>7. \E h : Recounts(h, wire, Now) /\ Starts(h)
  <2>1. PICK q \in Pictures : q = Now  BY <1>6
  <2>2. Clean(chan)  BY <1>1, CChanFacts
  <2> QED  BY <1>1, <1>6, <2>1, <2>2, OnePicture
<1>8. out \in Seq(ClientLines) /\ wire \in Seq(ChannelLines)  BY <1>1
<1> QED  BY <1>1, <1>2, <1>3, <1>5, <1>7, <1>8 DEF MirrorInv

LEMMA ConnectionInv ==
  ASSUME MirrorInv, Ch!Connect \/ Ch!Disconnect, events' \in 0..MaxEvents
  PROVE  MirrorInv'
<1>1. /\ members' = Ch!NoNicks /\ wire' = <<>> /\ out' = <<>>
      /\ me' \in Ch!Nicks /\ me' # other' /\ other' \in Ch!Nicks /\ nick' \in Ch!Nicks
      /\ connected' \in BOOLEAN /\ keep' \in BOOLEAN
      /\ (connected' => nick' = me') /\ UNCHANGED <<namesx, sticky, rejoin>>
  <2>1. CASE Ch!Connect
    <3>1. ~connected /\ connected' = TRUE /\ me' \in Ch!Nicks \ {other, Stranger} /\ nick' = me'
          /\ UNCHANGED <<members, other, namesx, out, wire, sticky, rejoin>>
      BY <2>1 DEF Ch!Connect
    <3>2. keep' \in BOOLEAN
      <4>1. keep' = (keep \/ me' # Conf)  BY <2>1 DEF Ch!Connect
      <4> QED  BY <4>1
    <3> QED  BY <3>1, <3>2, InvTypes
  <2>2. CASE Ch!Disconnect  BY <2>2, InvTypes DEF Ch!Disconnect
  <2> QED  BY <2>1, <2>2
<1>2. chan' \in Ch!CChans \cup {NoChan} /\ Tried(chan') /\ Clean(chan')
  <2>1. CASE Ch!Connect
    <3>1. ~connected /\ chan' = chan  BY <2>1 DEF Ch!Connect
    <3> QED  BY <3>1, CleanOffline, InvTypes
  <2>2. CASE Ch!Disconnect
    <3>1. chan' = IF chan = NoChan THEN NoChan ELSE Ch!Reset(chan)
      BY <2>2 DEF Ch!Disconnect
    <3>2. CASE chan = NoChan  BY <3>1, <3>2, CChanFacts DEF Tried
    <3>3. CASE chan # NoChan
      <4>1. chan \in Ch!CChans  BY <3>3, InvTypes
      <4>2. /\ chan' \in Ch!CChans /\ ~chan'.on /\ chan'.tries = 0
            /\ chan'.nicks = Ch!NoNicks /\ chan'.perms = {}
        BY <3>1, <3>3, <4>1, ChanFacts
      <4> QED  BY <4>2, BoundsAssumption DEF Tried, Clean
    <3> QED  BY <3>2, <3>3
  <2> QED  BY <2>1, <2>2
<1>3. members' \in Ch!NickMaps /\ DOMAIN members' = {}  BY <1>1, NoNicksFacts
<1>4. Now' \in Pictures  BY <1>1, <1>3, NowPicture
<1>5. ~In(Now')  BY <1>3, NowFacts
<1>6. (\E h : Recounts(h, wire, Now) /\ Starts(h))'
  <2>1. PICK q \in Pictures : q = Now'  BY <1>4
  <2> DEFINE h == <<q>>
  <2>2. h \in Seq(Pictures) /\ Len(h) = 1 /\ h[1] = q  OBVIOUS
  <2>3. q.me = me' /\ ~In(q)  BY <1>5, <2>1, NowFacts
  <2> HIDE DEF h
  <2>4. Len(wire') = 0  BY <1>1
  <2>5. Recounts(h, wire, Now)'  BY <2>1, <2>2, <2>4 DEF Recounts
  <2>6. Starts(h)'
    <3>1. (connected => nick = h[1].me)'  BY <1>1, <2>2, <2>3
    <3>2. ~In(h[1])  BY <2>2, <2>3
    <3>3. Sync(chan, h[1])'  BY <1>2, <3>2 DEF Sync, In, Clean
    <3>4. (In(h[1]) /\ Absent(chan) => Leaving(out) \/ EverOut(h))'  BY <3>2 DEF In
    <3> QED  BY <3>1, <3>3, <3>4 DEF Starts
  <2> QED  BY <2>5, <2>6
<1>7. Ch!TypeOK'
  <2>1. Len(wire') = 0  BY <1>1
  <2> QED  BY <1>1, <1>2, <1>3, <2>1, BoundsAssumption, InvTypes DEF Ch!TypeOK, Tried
<1>8. out' \in Seq(ClientLines) /\ wire' \in Seq(ChannelLines)  BY <1>1
<1> QED  BY <1>1, <1>3, <1>6, <1>7, <1>8 DEF MirrorInv

-----------------------------------------------------------------------------
LEMMA NextMirror == ASSUME MirrorInv, [Ch!Next]_chVars PROVE MirrorInv'
<1>1. CASE UNCHANGED chVars
  <2>1. /\ UNCHANGED <<members, me, other, namesx, wire, connected, nick>>
        /\ out' = out /\ chan' = chan /\ events' = events
        /\ keep' = keep /\ sticky' = sticky /\ rejoin' = rejoin
    BY <1>1 DEF chVars
  <2>2. PutsLines  BY <2>1, InvTypes, PutsNothing
  <2>3. Shows(chan')  BY <2>1, ShowsSame
  <2>4. keep' \in BOOLEAN /\ sticky' \in BOOLEAN /\ rejoin' \in BOOLEAN  BY <2>1, InvTypes
  <2>5. Acts  BY <2>1, <2>2, <2>3, <2>4, ActsShowing
  <2> QED  BY <2>1, <2>5, ActsInv, InvTypes
<1>2. CASE Ch!Handled  BY <1>2, HandledInv
<1>3. CASE Ch!Answered
  BY <1>3, ServeJoinInv, ServePartInv, ServeNickInv, ServeNamesInv DEF Ch!Answered, Ch!Serve
<1>4. CASE (Ch!JoinTimer \/ Ch!RejoinTimer \/ Ch!StickyTimer \/ Ch!KeepNickTimer) /\ UNCHANGED events
  BY <1>4, TimersAct, ActsInv, InvTypes
<1>5. CASE events < MaxEvents /\ events' = events + 1 /\ Ch!Unbidden
  <2>1. events' \in 0..MaxEvents  BY <1>5, InvTypes, BoundsAssumption
  <2>2. CASE \/ Ch!ClientJoin \/ Ch!ClientPart \/ Ch!ClientForwards \/ Ch!DelChan \/ Ch!AddChan
             \/ Ch!EnableChan \/ Ch!DisableChan \/ Ch!ModCommand
    BY <2>1, <2>2, ClientsAct, ActsInv
  <2>3. CASE Ch!Connect \/ Ch!Disconnect  BY <2>1, <2>3, ConnectionInv
  <2>4. CASE Ch!World
    BY <2>1, <2>4, KickedInv, ModeSetInv, OtherJoinsInv, OtherLeavesInv, OtherNickInv DEF Ch!World
  <2> QED  BY <1>5, <2>2, <2>3, <2>4 DEF Ch!Unbidden
<1> QED  BY <1>1, <1>2, <1>3, <1>4, <1>5 DEF Ch!Next, Ch!KeepNickFires

\* What holds when every line was read.
LEMMA MirrorFollows == MirrorInv => Mirror
<1> SUFFICES ASSUME MirrorInv PROVE Mirror
  OBVIOUS
<1>1. Ch!TypeOK  BY DEF MirrorInv
<1>2. SUFFICES ASSUME connected, wire = <<>> PROVE Ch!Mirror
  BY <1>1, Zenon DEF Mirror, Ch!Mirror
<1>3. PICK h : Recounts(h, wire, Now) /\ Starts(h)  BY DEF MirrorInv
<1>4. Len(h) = 1 /\ h[1] = Now  BY <1>2, <1>3, InvTypes, RecountsFacts
<1>5. /\ nick = me /\ Sync(chan, Now)
      /\ In(Now) /\ Absent(chan) => Leaving(out) \/ ~In(Now)
  <2>1. EverOut(h) => ~In(Now)  BY <1>4 DEF EverOut
  <2> QED  BY <1>2, <1>3, <1>4, <2>1, NowFacts DEF Starts
<1>6. \/ chan # NoChan /\ chan.on <=> Ch!InChan
      \/ \E i \in DOMAIN out : out[i][1] = "PART"
  <2>1. CASE Ch!InChan  BY <1>5, <2>1, NowFacts DEF Absent, Leaving, Ch!InChan
  <2>2. CASE ~Ch!InChan  BY <1>5, <2>2, NowFacts DEF Sync, Clean, Ch!InChan
  <2> QED  BY <2>1, <2>2
<1>7. ASSUME chan # NoChan, chan.on
      PROVE  /\ DOMAIN chan.nicks = DOMAIN members
             /\ \A n \in DOMAIN members : /\ chan.nicks[n] \subseteq members[n]
                                          /\ namesx => chan.nicks[n] = members[n]
             /\ chan.perms = chan.nicks[nick]
  <2>1. Full(chan, Now)  BY <1>5, <1>7 DEF Sync, Clean, Absent
  <2> QED  BY <1>5, <2>1, NowFacts DEF Full
<1> QED  BY <1>5, <1>6, <1>7 DEF Ch!Mirror

\* For any three nicks, any number of lines on the way and any number of events: when
\* ZNC has read all that the server sent, it knows its nick, whether it is in the channel,
\* who else is, and with which permissions (CIRCSock's handlers, CChan), whatever joins,
\* parts, kicks, modes and nick changes crossed each other on the way.
THEOREM MirrorHolds == PartsSpec => []Mirror
<1>1. PartsInit => MirrorInv  BY InitMirror DEF PartsInit
<1>2. MirrorInv /\ [PartsNext]_<<part, vars, chVars>> => MirrorInv'
  <2>1. [PartsNext]_<<part, vars, chVars>> => [Ch!Next]_chVars  BY DEF PartsNext
  <2> QED  BY <2>1, NextMirror
<1> QED  BY <1>1, <1>2, MirrorFollows, PTL DEF PartsSpec
=============================================================================
