----------------------------- MODULE ServerCap ------------------------------
(***************************************************************************)
(* Registration of a CIRCSock with an IRC server: the negotiation of       *)
(* capabilities (src/src/IRCSock.cpp) and the sasl module, which pauses it *)
(* to authenticate (src/modules/sasl.cpp).  Lines travel in order in both  *)
(* directions; the server may change what it offers while requests are     *)
(* under way.  A handler of a line is one action.                          *)
(*                                                                         *)
(* The server is external: it answers every request, once and in order.    *)
(* The module outlives the connection, so a connection follows another.    *)
(***************************************************************************)
EXTENDS Integers, Sequences, FiniteSets

CONSTANTS Caps,        \* capabilities a server may offer
          Wanted,      \* those that ZNC or a module asks for and are not blacklisted
          Dependent,   \* those of a module's AddServerDependentCapability
          Sasl,        \* the one that the sasl module asks for
          NumMechs,    \* length of the module's list of mechanisms
          UIntMod,     \* m_uCapPaused is counted modulo this
          MaxChanges,  \* bound: NEW and DEL lines in a connection
          MaxConns     \* bound: connections

ASSUME CapsAssumption == /\ IsFiniteSet(Caps) /\ Wanted \subseteq Caps
                         /\ Dependent \subseteq Wanted \ {Sasl} /\ Sasl \in Wanted
ASSUME CountsAssumption == /\ NumMechs \in Nat \ {0} /\ UIntMod \in Nat \ {0, 1}
                           /\ MaxChanges \in Nat /\ MaxConns \in Nat \ {0}

VARIABLES toServer, toZnc,  \* lines on their way
          pending,          \* m_ssPendingCaps
          phase2,           \* m_ssPendingCapsPhase2
          accepted,         \* m_ssAcceptedCaps
          paused,           \* m_uCapPaused
          authed,           \* m_bAuthed
          closing,          \* Quit() was called
          mech,             \* the mechanism in use, 0 before there was any
          authenticated,    \* m_bAuthenticated of the module
          requireAuth,      \* its setting require_auth
          offers, enabled,  \* server: what it offers, and what this client enabled
          stage,            \* server: "new", "negotiating" or "registered"
          exchange,         \* server: whether an authentication is under way
          loggedIn,         \* server: whether one succeeded
          saslStable,       \* it announced no change of Sasl in this connection
          changes, conns    \* counters for the bounds

capVars == <<pending, phase2, accepted, paused>>
saslVars == <<mech, authenticated>>
zncVars == <<capVars, saslVars, authed, closing>>
serverVars == <<offers, enabled, stage, exchange, loggedIn, saslStable, changes>>
vars == <<toServer, toZnc, zncVars, serverVars, conns, requireAuth>>

Line(cmd, caps) == [cmd |-> cmd, caps |-> caps]
Lines == [cmd : {"LS", "LS*", "NEW", "DEL", "ACK", "NAK", "REQ", "END", "AUTHENTICATE",
                 "MECH", "DATA", "903", "904", "906", "907", "001"},
          caps : SUBSET Caps]

\* The server's state for a new connection, whatever it offers.
NewServer(S) == /\ offers' = S /\ enabled' = {} /\ stage' = "new"
                /\ exchange' = FALSE /\ loggedIn' = FALSE
                /\ saslStable' = TRUE /\ changes' = 0

Init == /\ toServer = <<Line("LS", {})>> /\ toZnc = <<>>
        /\ pending = {} /\ phase2 = {} /\ accepted = {} /\ paused = 0
        /\ authed = FALSE /\ closing = FALSE
        /\ mech = 0 /\ authenticated = FALSE /\ requireAuth \in BOOLEAN
        /\ offers \in SUBSET Caps /\ enabled = {} /\ stage = "new"
        /\ exchange = FALSE /\ loggedIn = FALSE
        /\ saslStable = TRUE /\ changes = 0 /\ conns = 1
-----------------------------------------------------------------------------
(* CIRCSock and the sasl module *)

\* Slip: with the first list exhausted the caps of a refused request are given up.
SendNextCapOnePhase(pend, ph2, pause, out) ==
  \/ pause # 0 /\ pending' = pend /\ phase2' = ph2 /\ toServer' = out
  \/ /\ pause = 0
     /\ \E S \in (SUBSET pend) \ {{}} : pending' = pend \ S /\ toServer' = Append(out, Line("REQ", S))
     /\ phase2' = ph2
  \/ /\ pause = 0 /\ pend = {}
     /\ pending' = pend /\ phase2' = ph2
     /\ toServer' = IF authed THEN out ELSE Append(out, Line("END", {}))

\* Slip: a pause does not hold back CAP END.
SendNextCapUnpaused(pend, ph2, pause, out) ==
  \/ /\ \E S \in (SUBSET pend) \ {{}} : pending' = pend \ S /\ toServer' = Append(out, Line("REQ", S))
     /\ phase2' = ph2
  \/ /\ pend = {}
     /\ \E c \in ph2 : phase2' = ph2 \ {c} /\ toServer' = Append(out, Line("REQ", {c}))
     /\ pending' = pend
  \/ /\ pend = {} /\ ph2 = {}
     /\ pending' = pend /\ phase2' = ph2
     /\ toServer' = IF authed THEN out ELSE Append(out, Line("END", {}))

\* SendNextCap, called with m_ssPendingCaps = pend, m_ssPendingCapsPhase2 = ph2
\* and m_uCapPaused = pause, after the lines in out.  How many capabilities fit
\* in a request depends on their names.
SendNextCap(pend, ph2, pause, out) ==
  \/ pause # 0 /\ pending' = pend /\ phase2' = ph2 /\ toServer' = out
  \/ /\ pause = 0
     /\ \E S \in (SUBSET pend) \ {{}} : pending' = pend \ S /\ toServer' = Append(out, Line("REQ", S))
     /\ phase2' = ph2
  \/ /\ pause = 0 /\ pend = {}
     /\ \E c \in ph2 : phase2' = ph2 \ {c} /\ toServer' = Append(out, Line("REQ", {c}))
     /\ pending' = pend
  \/ /\ pause = 0 /\ pend = {} /\ ph2 = {}
     /\ pending' = pend /\ phase2' = ph2
     /\ toServer' = IF authed THEN out ELSE Append(out, Line("END", {}))

\* The next line from the server is cmd, and ZNC still listens.
Receives(cmd) == /\ ~closing /\ toZnc # <<>> /\ Head(toZnc).cmd = cmd
                 /\ toZnc' = Tail(toZnc)

\* CheckRequireAuth
Checked(auth) == closing \/ (requireAuth /\ ~auth)

\* What is to be asked for of the offered capabilities in S: a dependent one that
\* is enabled is not asked for again, the others are.
Requestable(S) == (S \cap Wanted) \ (Dependent \cap accepted)

\* CAP LS and CAP NEW.
OnAvailable(cmd) ==
  LET new == Requestable(Head(toZnc).caps) IN
  /\ Receives(cmd)
  /\ IF cmd = "LS*"
     THEN pending' = pending \cup new /\ UNCHANGED <<phase2, toServer>>
     ELSE SendNextCap(pending \cup new, phase2, paused, toServer)
  /\ UNCHANGED <<accepted, paused, authed, closing, saslVars, serverVars, conns, requireAuth>>

\* What OnServerCapResult of the sasl module leaves behind when S is acknowledged:
\* for sasl it pauses the negotiation and starts with the first mechanism.
AckResult(S) ==
  IF Sasl \in S
  THEN [paused |-> (paused + 1) % UIntMod, mech |-> 1, out |-> Append(toServer, Line("MECH", {}))]
  ELSE [paused |-> paused, mech |-> mech, out |-> toServer]

\* CAP ACK.
OnAck ==
  LET S == Head(toZnc).caps
      after == AckResult(S)
  IN
  /\ Receives("ACK")
  /\ accepted' = accepted \cup S
  /\ paused' = after.paused /\ mech' = after.mech
  /\ SendNextCap(pending, phase2, after.paused, after.out)
  /\ UNCHANGED <<authed, closing, authenticated, serverVars, conns, requireAuth>>

\* Slip: what the server takes back stays in the list of accepted capabilities.
RemoveCapsKept(S) ==
  /\ closing' = IF Sasl \in S THEN Checked(authenticated) ELSE closing
  /\ SendNextCap(pending \ S, phase2, paused, toServer)
  /\ UNCHANGED <<accepted, paused, authed, saslVars, serverVars, conns, requireAuth>>

\* RemoveCap for every capability in S, then SendNextCap.
RemoveCaps(S) ==
  /\ accepted' = accepted \ S
  /\ closing' = IF Sasl \in S THEN Checked(authenticated) ELSE closing
  /\ SendNextCap(pending \ S, phase2, paused, toServer)
  /\ UNCHANGED <<paused, authed, saslVars, serverVars, conns, requireAuth>>

\* CAP NAK: a request for several is tried again one by one.
OnNak ==
  LET S == Head(toZnc).caps IN
  /\ Receives("NAK")
  /\ \/ Cardinality(S) = 1 /\ RemoveCaps(S)
     \/ /\ Cardinality(S) > 1
        /\ SendNextCap(pending, phase2 \cup S, paused, toServer)
        /\ UNCHANGED <<accepted, paused, authed, closing, saslVars, serverVars, conns, requireAuth>>

OnDel == Receives("DEL") /\ RemoveCaps(Head(toZnc).caps)

\* Authenticate, for the server's AUTHENTICATE +.
OnAuthenticate ==
  /\ Receives("AUTHENTICATE")
  /\ toServer' = IF mech = 0 THEN toServer ELSE Append(toServer, Line("DATA", {}))
  /\ UNCHANGED <<zncVars, serverVars, conns, requireAuth>>

\* Slip: the module does not resume the negotiation.
ResumeCapForgotten == UNCHANGED <<pending, phase2, paused, toServer>>

ResumeCap == LET pause == (paused - 1) % UIntMod IN
             paused' = pause /\ SendNextCap(pending, phase2, pause, toServer)

\* 903 (success) and 907 (already authenticated)
OnSaslSuccess(cmd) ==
  /\ Receives(cmd)
  /\ IF mech = 0 THEN UNCHANGED <<pending, phase2, paused, toServer, authenticated>>
     ELSE ResumeCap /\ authenticated' = TRUE
  /\ UNCHANGED <<accepted, authed, closing, mech, serverVars, conns, requireAuth>>

\* Slip: every failure resumes the negotiation, also when another mechanism is tried.
OnSaslFailureResumes ==
  /\ Receives("904")
  /\ IF mech = 0 THEN UNCHANGED <<pending, phase2, paused, toServer, closing, mech>>
     ELSE IF mech < NumMechs
     THEN /\ mech' = mech + 1
          /\ paused' = (paused - 1) % UIntMod
          /\ SendNextCap(pending, phase2, paused', Append(toServer, Line("MECH", {})))
          /\ UNCHANGED closing
     ELSE ResumeCap /\ closing' = Checked(authenticated) /\ UNCHANGED mech
  /\ UNCHANGED <<accepted, authed, authenticated, serverVars, conns, requireAuth>>

\* 904 and 905: the next mechanism, or the end.
OnSaslFailure ==
  /\ Receives("904")
  /\ IF mech = 0 THEN UNCHANGED <<pending, phase2, paused, toServer, closing, mech>>
     ELSE IF mech < NumMechs
     THEN /\ mech' = mech + 1
          /\ toServer' = Append(toServer, Line("MECH", {}))
          /\ UNCHANGED <<pending, phase2, paused, closing>>
     ELSE ResumeCap /\ closing' = Checked(authenticated) /\ UNCHANGED mech
  /\ UNCHANGED <<accepted, authed, authenticated, serverVars, conns, requireAuth>>

\* 906: the server gave up an authentication.
OnSaslAborted ==
  /\ Receives("906")
  /\ closing' = IF mech = 0 THEN closing ELSE Checked(authenticated)
  /\ UNCHANGED <<toServer, capVars, saslVars, authed, serverVars, conns, requireAuth>>

\* 001, with the OnIRCConnected hook of the module.
OnWelcome ==
  /\ Receives("001")
  /\ authed' = TRUE
  /\ closing' = Checked(authenticated)
  /\ UNCHANGED <<toServer, capVars, saslVars, serverVars, conns, requireAuth>>

\* Slip: the module keeps its flag over a disconnection.
AuthenticatedKept == authenticated

\* m_bAuthenticated after OnIRCDisconnected.
AuthenticatedReset == FALSE

\* The connection ends, and there is another: a new CIRCSock, the same module.
Reconnect ==
  /\ conns < MaxConns
  /\ conns' = conns + 1
  /\ toServer' = <<Line("LS", {})>> /\ toZnc' = <<>>
  /\ pending' = {} /\ phase2' = {} /\ accepted' = {} /\ paused' = 0
  /\ authed' = FALSE /\ closing' = FALSE
  /\ authenticated' = AuthenticatedReset
  /\ requireAuth' \in BOOLEAN
  /\ \E S \in SUBSET Caps : NewServer(S)
  /\ UNCHANGED mech
-----------------------------------------------------------------------------
(* The server *)

Answers(cmd, out) == /\ toServer # <<>> /\ Head(toServer).cmd = cmd
                     /\ toServer' = Tail(toServer)
                     /\ toZnc' = toZnc \o out

\* The list may need two lines.
ServerLs ==
  /\ \E S \in SUBSET offers :
       Answers("LS", IF S = offers THEN <<Line("LS", S)>>
                     ELSE <<Line("LS*", S), Line("LS", offers \ S)>>)
  /\ stage' = "negotiating"
  /\ UNCHANGED <<zncVars, offers, enabled, exchange, loggedIn, saslStable, changes, conns, requireAuth>>

\* A server that does not know CAP takes the rest of the registration for all;
\* it sends no CAP line later either.
ServerWithoutCap ==
  /\ Answers("LS", <<Line("001", {})>>)
  /\ stage' = "registered" /\ offers' = {}
  /\ changes' = MaxChanges
  /\ UNCHANGED <<zncVars, enabled, exchange, loggedIn, saslStable, conns, requireAuth>>

ServerReq ==
  LET S == Head(toServer).caps IN
  /\ Answers("REQ", <<Line(IF S \subseteq offers THEN "ACK" ELSE "NAK", S)>>)
  /\ enabled' = IF S \subseteq offers THEN enabled \cup S ELSE enabled
  /\ UNCHANGED <<zncVars, offers, stage, exchange, loggedIn, saslStable, changes, conns, requireAuth>>

\* CAP END: an authentication under way is given up.
ServerEnd ==
  /\ Answers("END", IF stage = "registered" THEN <<>>
                    ELSE IF exchange THEN <<Line("906", {}), Line("001", {})>>
                    ELSE <<Line("001", {})>>)
  /\ stage' = "registered"
  /\ exchange' = (exchange /\ stage = "registered")
  /\ UNCHANGED <<zncVars, offers, enabled, loggedIn, saslStable, changes, conns, requireAuth>>

Success == /\ loggedIn' = TRUE /\ exchange' = FALSE
Failure == /\ exchange' = FALSE /\ UNCHANGED loggedIn

\* AUTHENTICATE: what starts an authentication names a mechanism, what comes
\* during one is data.
ServerAuthenticate(cmd) ==
  /\ \/ ~exchange /\ cmd = "MECH" /\ Sasl \in enabled
        /\ Answers(cmd, <<Line("AUTHENTICATE", {})>>) /\ exchange' = TRUE /\ UNCHANGED loggedIn
     \/ ~exchange /\ loggedIn /\ Answers(cmd, <<Line("907", {})>>) /\ Failure
     \/ exchange /\ cmd = "DATA" /\ Answers(cmd, <<Line("903", {})>>) /\ Success
     \/ Answers(cmd, <<Line("904", {})>>) /\ Failure
  /\ UNCHANGED <<zncVars, offers, enabled, stage, saslStable, changes, conns, requireAuth>>

\* CAP NEW, also for a new value of a capability that is offered.
ServerNew(c) ==
  /\ stage # "new" /\ changes < MaxChanges
  /\ changes' = changes + 1
  /\ saslStable' = (saslStable /\ c # Sasl)
  /\ offers' = offers \cup {c}
  /\ toZnc' = Append(toZnc, Line("NEW", {c}))
  /\ UNCHANGED <<toServer, zncVars, enabled, stage, exchange, loggedIn, conns, requireAuth>>

\* CAP DEL: an authentication fails when its capability goes.
ServerDel(c) ==
  LET fails == c = Sasl /\ exchange IN
  /\ stage # "new" /\ changes < MaxChanges
  /\ c \in offers
  /\ changes' = changes + 1
  /\ saslStable' = (saslStable /\ c # Sasl)
  /\ offers' = offers \ {c} /\ enabled' = enabled \ {c}
  /\ exchange' = (exchange /\ ~fails)
  /\ toZnc' = toZnc \o (IF fails THEN <<Line("904", {}), Line("DEL", {c})>>
                        ELSE <<Line("DEL", {c})>>)
  /\ UNCHANGED <<toServer, zncVars, stage, loggedIn, conns, requireAuth>>

ZncStep == \/ \E cmd \in {"LS", "LS*", "NEW"} : OnAvailable(cmd)
           \/ OnAck \/ OnNak \/ OnDel \/ OnAuthenticate
           \/ OnSaslSuccess("903") \/ OnSaslSuccess("907")
           \/ OnSaslFailure \/ OnSaslAborted \/ OnWelcome

ServerReply == \/ ServerLs \/ ServerWithoutCap \/ ServerReq \/ ServerEnd
               \/ ServerAuthenticate("MECH") \/ ServerAuthenticate("DATA")

Next == \/ ZncStep \/ ServerReply \/ Reconnect
        \/ \E c \in Caps : ServerNew(c) \/ ServerDel(c)

Spec == Init /\ [][Next]_vars

\* The event loop reads what has come in, and the server answers.
FairSpec == Spec /\ WF_vars(ZncStep) /\ WF_vars(ServerReply)
-----------------------------------------------------------------------------
(* Properties *)

\* Type of the state.
TypeOK == /\ toServer \in Seq(Lines) /\ toZnc \in Seq(Lines)
          /\ pending \subseteq Wanted /\ phase2 \subseteq Wanted /\ accepted \subseteq Wanted
          /\ paused \in 0..UIntMod - 1
          /\ authed \in BOOLEAN /\ closing \in BOOLEAN
          /\ mech \in 0..NumMechs /\ authenticated \in BOOLEAN /\ requireAuth \in BOOLEAN
          /\ offers \subseteq Caps /\ enabled \subseteq Wanted
          /\ stage \in {"new", "negotiating", "registered"}
          /\ exchange \in BOOLEAN /\ loggedIn \in BOOLEAN
          /\ saslStable \in BOOLEAN /\ changes \in 0..MaxChanges /\ conns \in 0..MaxConns

Has(line, cmds) == \E i \in DOMAIN line : line[i].cmd \in cmds

\* Nothing is on its way and the connection is not being closed.
Quiet == toServer = <<>> /\ toZnc = <<>> /\ ~closing

\* An authentication that the module started has not come to its end.
AuthUnderWay == \/ Has(toServer, {"MECH", "DATA"})
                \/ Has(toZnc, {"AUTHENTICATE", "903", "904", "907"})

\* ZNC and the server agree: when nothing is on its way, m_ssAcceptedCaps is what
\* the server has enabled, whatever was refused, withdrawn or announced anew while
\* requests were under way.
Agreement == Quiet => accepted = enabled

\* No capability is missed: when nothing is on its way and the negotiation is not
\* paused, everything wanted that the server offers is enabled, also what came in
\* a request that was refused for another capability.
NothingMissed == Quiet /\ (saslStable \/ paused = 0) => offers \cap Wanted \subseteq accepted

\* "Each call to PauseCap should be balanced with a call to ResumeCap": as long
\* as the server leaves sasl alone, the negotiation is paused once, and exactly
\* while an authentication is under way, whichever mechanisms fail.
PausesBalanced == saslStable => paused = IF AuthUnderWay THEN 1 ELSE 0

\* CAP END comes last: "We already got all needed ACK/NAK replies."  It is sent
\* once, after the answers to all requests and the end of an authentication, if
\* the server's list does not change meanwhile.
EndComesLast ==
  changes = 0 /\ Has(toServer, {"END"})
    => toServer = <<Line("END", {})>> /\ toZnc = <<>> /\ ~AuthUnderWay

\* require_auth: a connection that is up, and not being closed, is authenticated
\* with the server, whatever an earlier connection was.
AuthRequired == requireAuth /\ authed => loggedIn \/ closing

\* The order of the negotiation as a whole: it is paused exactly while an authentication
\* is under way, CAP END comes after the answers to all requests, and with require_auth no
\* connection stays up that is not authenticated.
NegotiationOrdered == TypeOK /\ PausesBalanced /\ EndComesLast /\ AuthRequired

\* A connection is registered in the end, or closed, or lost, whatever the server
\* offers and refuses; provided that it leaves sasl alone.
Registers == \A i \in 1..MaxConns :
  conns = i ~> authed \/ closing \/ conns > i \/ ~saslStable
=============================================================================
