------------------------------ MODULE Channels -------------------------------
(***************************************************************************)
(* What ZNC believes about a channel and about its own nick, against what   *)
(* the server knows: src/src/Chan.cpp, src/src/Nick.cpp, the handlers of    *)
(* src/src/IRCSock.cpp, the join timer of src/src/IRCNetwork.cpp, and the   *)
(* modules kickrejoin, stickychan, autocycle and keepnick.                 *)
(*                                                                         *)
(* One channel, one other user.  Lines in both directions are delivered in  *)
(* order and take time: clients, timers and commands act in ZNC while       *)
(* answers are on the way.  Idents, hosts, topics and channel modes other   *)
(* than op and voice are left out.                                          *)
(***************************************************************************)
EXTENDS Integers, Sequences

CONSTANTS NoChan,
          Conf, Alt, Stranger,  \* nicks: the configured one, ours at login, the other user's
          JoinTries,            \* a setting of the user
          MaxOut, MaxWire,      \* bounds: lines on the way to and from the server; what a
                                \* handler sends comes on top of MaxOut
          MaxEvents             \* bound: what clients, users and the network do by themselves

Perms == {"op", "voice"}
Nicks == {Conf, Alt, Stranger}

VARIABLES
  (* the server *)
  members,    \* who is in the channel, with their permissions
  me, other,  \* the nicks of ZNC and of the other user
  namesx,     \* multi-prefix: NAMES shows all permissions of a nick, not the highest
  (* the connection *)
  out, wire,
  (* ZNC *)
  connected,  \* IsIRCConnected
  nick,       \* m_Nick of the CIRCSock
  chan,       \* the CChan, if there is one
  keep,       \* keepnick: whether its timer runs
  sticky,     \* stickychan: whether the channel is in its registry
  rejoin,     \* kickrejoin: whether a CRejoinJob waits
  events      \* how many of the MaxEvents happened

server == <<members, me, other, namesx>>
mods == <<keep, sticky, rejoin>>
vars == <<server, out, wire, connected, nick, chan, mods, events>>

NoNicks == [n \in {} |-> {}]
CChan == [on |-> FALSE, disabled |-> FALSE, tries |-> 0, nicks |-> NoNicks, perms |-> {}]

Init == /\ members = NoNicks /\ me = Alt /\ other \in {Conf, Stranger} /\ namesx \in BOOLEAN
        /\ out = <<>> /\ wire = <<>> /\ connected = FALSE /\ nick = Alt /\ chan = CChan
        /\ keep = FALSE /\ sticky = FALSE /\ rejoin = FALSE /\ events = 0

Without(f, n) == [x \in DOMAIN f \ {n} |-> f[x]]
With(f, n, v) == [x \in DOMAIN f \cup {n} |-> IF x = n THEN v ELSE f[x]]
Renamed(f, old, new) ==
  IF old \notin DOMAIN f THEN f ELSE With(Without(f, old), new, f[old])

\* CIRCNetwork::PutIRC
PutIRC(lines) == out' = out \o lines
-----------------------------------------------------------------------------
(* CChan *)

Of(f, n) == IF n \in DOMAIN f THEN f[n] ELSE {}
AddNicks(c, f) ==
  [c EXCEPT !.nicks = [n \in DOMAIN @ \cup DOMAIN f |-> Of(@, n) \cup Of(f, n)],
            !.perms = @ \cup Of(f, nick)]
AddNick(c, n, perms) == AddNicks(c, With(NoNicks, n, perms))
RemNick(c, n) == [c EXCEPT !.nicks = Without(@, n)]
ChangeNick(c, old, new) == [c EXCEPT !.nicks = Renamed(@, old, new)]
\* Slip: the own permissions of the last stay on the channel are kept.
ResetKeepingPerms(c) == [c EXCEPT !.on = FALSE, !.tries = 0, !.nicks = NoNicks]
Reset(c) == [c EXCEPT !.on = FALSE, !.tries = 0, !.nicks = NoNicks, !.perms = {}]
Enable(c) == [c EXCEPT !.tries = 0, !.disabled = FALSE]
Disable(c) == [c EXCEPT !.disabled = TRUE]

ModeChange(c, n, p, add) ==
  LET Changed(s) == IF add THEN s \cup {p} ELSE s \ {p}
  IN  IF n \notin DOMAIN c.nicks THEN c
      ELSE [c EXCEPT !.nicks[n] = Changed(@), !.perms = IF n = nick THEN Changed(@) ELSE @]
-----------------------------------------------------------------------------
(* Modules *)

\* Slip: it asks for the nick that it has.
KeepNickOwn == IF keep /\ nick # Conf THEN <<<<"NICK", nick>>>> ELSE <<>>
\* CKeepNickMod::KeepNick: what it sends.
KeepNick == IF keep /\ nick # Conf THEN <<<<"NICK", Conf>>>> ELSE <<>>

\* CAutoCycleMod::AutoCycle: what it may send.  It does nothing for a channel that it
\* cycled a short time ago or that is not on its list.
AutoCycle(c) == {<<>>} \cup IF DOMAIN c.nicks = {nick} /\ "op" \notin c.nicks[nick]
                            THEN {<<<<"PART">>, <<"JOIN">>>>} ELSE {}
-----------------------------------------------------------------------------
(* CIRCSock: lines from the server.  Reads takes the next line off the wire. *)

Reads(type) == /\ wire # <<>> /\ Head(wire)[1] = type /\ wire' = Tail(wire)
               /\ UNCHANGED <<server, connected>>
Arg == Head(wire)[2]

OnJoinMessage ==
  /\ Reads("JOIN")
  /\ LET c == IF chan = NoChan THEN CChan ELSE chan
     IN  IF Arg = nick THEN chan' = AddNick([Enable(c) EXCEPT !.on = TRUE], nick, {})
         ELSE chan' = IF chan = NoChan THEN NoChan ELSE AddNick(chan, Arg, {})
  /\ UNCHANGED <<out, nick, mods>>

OnPartMessage ==
  /\ Reads("PART")
  /\ IF chan = NoChan THEN UNCHANGED <<out, chan>>
     ELSE /\ \E lines \in AutoCycle(RemNick(chan, Arg)) : PutIRC(lines)
          /\ chan' = IF Arg = nick THEN NoChan ELSE RemNick(chan, Arg)
  /\ UNCHANGED <<nick, mods>>

Rejoin == <<<<"JOIN">>>>
\* The modules see the kick while the kicked nick is still in the list.
OnKickMessage ==
  /\ Reads("KICK")
  /\ IF chan = NoChan THEN UNCHANGED <<out, chan, rejoin>>
     ELSE IF Arg # nick THEN /\ \E lines \in AutoCycle(chan) : PutIRC(lines)
                             /\ chan' = RemNick(chan, Arg) /\ UNCHANGED rejoin
     ELSE /\ chan' = Disable(Reset(RemNick(chan, Arg)))
          /\ \E lines \in AutoCycle(chan) :
               \/ PutIRC(lines) /\ rejoin' \in {rejoin, TRUE}      \* kickrejoin starts a timer
               \/ /\ PutIRC(lines \o Rejoin) \/ PutIRC(Rejoin \o lines)
                  /\ UNCHANGED rejoin                              \* or has a delay of 0
  /\ UNCHANGED <<nick, keep, sticky>>

OnQuitMessage ==
  /\ Reads("QUIT")
  /\ chan' = IF chan = NoChan THEN NoChan ELSE RemNick(chan, Arg)
  /\ \E lines \in IF chan # NoChan /\ Arg \in DOMAIN chan.nicks THEN AutoCycle(chan') ELSE {<<>>} :
       PutIRC(lines \o IF Arg = Conf THEN KeepNick ELSE <<>>)
  /\ UNCHANGED <<nick, mods>>

\* keepnick gives up when our nick changes from or to the configured one.
OnNickMessage ==
  /\ Reads("NICK")
  /\ LET new == Head(wire)[3]
     IN  /\ chan' = IF chan = NoChan THEN NoChan ELSE ChangeNick(chan, Arg, new)
         /\ IF Arg = nick
            THEN nick' = new /\ keep' = (keep /\ Arg # Conf /\ new # Conf) /\ UNCHANGED out
            ELSE PutIRC(IF Arg = Conf THEN KeepNick ELSE <<>>) /\ UNCHANGED <<nick, keep>>
  /\ UNCHANGED <<sticky, rejoin>>

OnModeMessage ==
  /\ Reads("MODE")
  /\ chan' = IF chan = NoChan THEN NoChan ELSE ModeChange(chan, Arg, Head(wire)[3], Head(wire)[4])
  /\ UNCHANGED <<out, nick, mods>>

\* 353
OnNames == /\ Reads("353") /\ chan' = IF chan = NoChan THEN NoChan ELSE AddNicks(chan, Arg)
           /\ UNCHANGED <<out, nick, mods>>

\* 470: the channel is linked to another one.
OnLinked == /\ Reads("470") /\ chan' = IF chan = NoChan THEN NoChan ELSE Disable(chan)
            /\ UNCHANGED <<out, nick, mods>>
\* 479: stickychan forgets the channel.
OnBadChan == Reads("479") /\ sticky' = FALSE /\ UNCHANGED <<out, nick, chan, keep, rejoin>>
\* 433: keepnick drops it.  435, 447: it gives up.
OnNickInUse == Reads("433") /\ UNCHANGED <<out, nick, chan, mods>>
OnNickRefused == Reads("435") /\ keep' = FALSE /\ UNCHANGED <<out, nick, chan, sticky, rejoin>>

ReadLine == \/ OnJoinMessage \/ OnPartMessage \/ OnKickMessage \/ OnQuitMessage \/ OnNickMessage
            \/ OnModeMessage \/ OnNames \/ OnLinked \/ OnBadChan \/ OnNickInUse \/ OnNickRefused
-----------------------------------------------------------------------------
(* Timers, commands and clients *)

Quiet == UNCHANGED <<server, wire, connected, nick>>

\* CIRCNetworkJoinTimer::RunJob and JoinChan.  Modules may hold a channel back, and
\* MaxJoins others may come first.
JoinTimer == /\ connected /\ chan # NoChan /\ ~chan.on /\ ~chan.disabled
             /\ IF JoinTries # 0 /\ chan.tries >= JoinTries THEN chan' = Disable(chan) /\ UNCHANGED out
                ELSE /\ chan' = [chan EXCEPT !.tries = @ + 1]
                     /\ PutIRC(<<<<"JOIN">>>>) \/ UNCHANGED out
             /\ UNCHANGED mods /\ Quiet

\* CRejoinJob::RunJob
RejoinTimer == /\ rejoin /\ rejoin' = FALSE
               /\ IF chan = NoChan THEN UNCHANGED <<out, chan>>
                  ELSE chan' = Enable(chan) /\ PutIRC(IF connected THEN <<<<"JOIN">>>> ELSE <<>>)
               /\ UNCHANGED <<keep, sticky>> /\ Quiet

\* CStickyChan::RunJob
StickyTimer == /\ sticky /\ connected
               /\ chan' = IF chan = NoChan THEN CChan ELSE chan
               /\ PutIRC(IF chan'.on THEN <<>> ELSE <<<<"JOIN">>>>)
               /\ UNCHANGED mods /\ Quiet

KeepNickTimer == keep /\ connected /\ KeepNick # <<>> /\ PutIRC(KeepNick) /\ UNCHANGED <<chan, mods>> /\ Quiet

\* CClient::OnJoinMessage and CChan::JoinUser
ClientJoin == /\ chan' = IF chan = NoChan THEN CChan ELSE chan
              /\ PutIRC(IF connected THEN <<<<"JOIN">>>> ELSE <<>>)
              /\ UNCHANGED mods /\ Quiet

\* CClient::OnPartMessage; for a channel in its registry stickychan joins instead.
ClientPart == /\ IF sticky /\ chan # NoChan
                 THEN PutIRC(IF connected THEN <<<<"JOIN">>>> ELSE <<>>) /\ UNCHANGED chan
                 ELSE IF chan # NoChan /\ ~chan.on THEN chan' = NoChan /\ UNCHANGED out
                 ELSE PutIRC(IF connected THEN <<<<"PART">>>> ELSE <<>>) /\ UNCHANGED chan
              /\ UNCHANGED mods /\ Quiet

\* NICK and NAMES of a client are forwarded.
ClientForwards == /\ connected /\ \E n \in {Conf, Alt} : PutIRC(<<<<"NICK", n>>>>) \/ PutIRC(<<<<"NAMES">>>>)
                  /\ UNCHANGED <<chan, mods>> /\ Quiet

\* controlpanel's and webadmin's DelChan; controlpanel's AddChan; EnableChan and DisableChan.
DelChan == /\ chan # NoChan /\ chan' = NoChan
           /\ PutIRC(IF connected THEN <<<<"PART">>>> ELSE <<>>) /\ UNCHANGED mods /\ Quiet
AddChan == chan = NoChan /\ chan' = CChan /\ UNCHANGED <<out, mods>> /\ Quiet
EnableChan == chan # NoChan /\ chan.disabled /\ chan' = Enable(chan) /\ UNCHANGED <<out, mods>> /\ Quiet
DisableChan == chan # NoChan /\ ~chan.disabled /\ chan' = Disable(chan) /\ UNCHANGED <<out, mods>> /\ Quiet

\* Stick and Unstick; Enable and Disable of keepnick.
ModCommand == /\ \/ sticky' = ~sticky /\ UNCHANGED keep
                 \/ keep' = ~keep /\ UNCHANGED sticky
              /\ UNCHANGED <<out, chan, rejoin>> /\ Quiet

\* 001: the nick is the server's word.  keepnick starts if it is not the configured one.
Connect == /\ ~connected /\ connected' = TRUE
           /\ me' \in Nicks \ {other, Stranger} /\ nick' = me' /\ keep' = (keep \/ me' # Conf)
           /\ UNCHANGED <<members, other, namesx, out, wire, chan, sticky, rejoin>>

\* ~CIRCSock; what was on the way is lost.
Disconnect == /\ connected /\ connected' = FALSE /\ out' = <<>> /\ wire' = <<>>
              /\ chan' = IF chan = NoChan THEN NoChan ELSE Reset(chan)
              /\ members' = NoNicks /\ keep' = FALSE
              /\ UNCHANGED <<me, other, namesx, nick, sticky, rejoin>>
-----------------------------------------------------------------------------
(* The server *)

InChan == me \in DOMAIN members
Served(type) == /\ out # <<>> /\ Head(out)[1] = type /\ out' = Tail(out)
                /\ UNCHANGED <<namesx, connected, nick, chan, mods>>
Sends(lines) == Len(wire) + Len(lines) <= MaxWire /\ wire' = wire \o lines

\* What NAMES shows of a nick.
Prefixes(perms) == IF namesx THEN perms ELSE IF "op" \in perms THEN {"op"} ELSE perms
Names(ms) == <<"353", [n \in DOMAIN ms |-> Prefixes(ms[n])]>>

\* While ZNC is not in the channel, anybody else may be.
ServeJoin == /\ Served("JOIN") /\ UNCHANGED <<me, other>>
             /\ IF InChan THEN UNCHANGED <<members, wire>>
                ELSE \/ \E ms \in {With(NoNicks, me, {"op"})} \cup
                                  {With(With(NoNicks, me, {}), other, p) : p \in SUBSET Perms} :
                          members' = ms /\ Sends(<<<<"JOIN", me>>, Names(ms)>>)
                     \/ UNCHANGED members /\ \E e \in {"470", "479"} : Sends(<<<<e>>>>)
                     \/ UNCHANGED <<members, wire>>
ServePart == /\ Served("PART") /\ UNCHANGED <<me, other>>
             /\ IF InChan THEN members' = NoNicks /\ Sends(<<<<"PART", me>>>>)
                ELSE UNCHANGED <<members, wire>>
ServeNick == /\ Served("NICK") /\ UNCHANGED other
             /\ LET new == Head(out)[2]
                IN  IF new = me THEN UNCHANGED <<members, me, wire>>
                    ELSE IF new = other THEN Sends(<<<<"433">>>>) /\ UNCHANGED <<members, me>>
                    ELSE \/ me' = new /\ members' = Renamed(members, me, new)
                            /\ Sends(<<<<"NICK", me, new>>>>)
                         \/ Sends(<<<<"435">>>>) /\ UNCHANGED <<members, me>>
ServeNames == /\ Served("NAMES") /\ UNCHANGED <<members, me, other>>
              /\ IF InChan THEN Sends(<<Names(members)>>) ELSE UNCHANGED wire
Serve == ServeJoin \/ ServePart \/ ServeNick \/ ServeNames

ByOthers == connected /\ UNCHANGED <<namesx, out, connected, nick, chan, mods>>
\* Somebody removes us or changes a permission.
Kicked == /\ ByOthers /\ InChan /\ members' = NoNicks /\ Sends(<<<<"KICK", me>>>>)
          /\ UNCHANGED <<me, other>>
ModeSet == /\ ByOthers /\ InChan /\ UNCHANGED <<me, other>>
           /\ \E n \in DOMAIN members, p \in Perms :
                /\ members' = [members EXCEPT ![n] = IF p \in @ THEN @ \ {p} ELSE @ \cup {p}]
                /\ Sends(<<<<"MODE", n, p, p \notin members[n]>>>>)
\* The other user comes, goes and changes nick; ZNC hears of it while both are in the channel.
OtherJoins == /\ ByOthers /\ InChan /\ other \notin DOMAIN members
              /\ members' = With(members, other, {}) /\ Sends(<<<<"JOIN", other>>>>)
              /\ UNCHANGED <<me, other>>
OtherLeaves == /\ ByOthers /\ other \in DOMAIN members /\ members' = Without(members, other)
               /\ UNCHANGED me
               /\ \/ \E t \in {"PART", "KICK"} : Sends(<<<<t, other>>>>) /\ UNCHANGED other
                  \/ Sends(<<<<"QUIT", other>>>>) /\ other' = Stranger /\ me # Stranger
OtherNick == /\ ByOthers /\ UNCHANGED me
             /\ \E n \in {Conf, Stranger} \ {me, other} :
                  /\ other' = n /\ members' = Renamed(members, other, n)
                  /\ IF other \in DOMAIN members THEN Sends(<<<<"NICK", other, n>>>>) ELSE UNCHANGED wire
World == Kicked \/ ModeSet \/ OtherJoins \/ OtherLeaves \/ OtherNick
-----------------------------------------------------------------------------
Unbidden == \/ ClientJoin \/ ClientPart \/ ClientForwards \/ DelChan \/ AddChan \/ EnableChan \/ DisableChan
            \/ ModCommand \/ Connect \/ Disconnect \/ World
Handled == ReadLine /\ UNCHANGED events
Answered == Serve /\ UNCHANGED events
Room == Len(out) < MaxOut
KeepNickFires == Room /\ KeepNickTimer /\ UNCHANGED events
Next == \/ Handled \/ Answered \/ KeepNickFires
        \/ Room /\ (JoinTimer \/ RejoinTimer \/ StickyTimer) /\ UNCHANGED events
        \/ Room /\ events < MaxEvents /\ events' = events + 1 /\ Unbidden

Spec == Init /\ [][Next]_vars

\* Lines arrive and are answered; a timer that runs fires.
Fairness == WF_vars(Handled) /\ WF_vars(Answered) /\ SF_vars(KeepNickFires)
FairSpec == Spec /\ Fairness
-----------------------------------------------------------------------------
NickMaps == UNION {[D -> SUBSET Perms] : D \in SUBSET Nicks}
CChans == [on : BOOLEAN, disabled : BOOLEAN, tries : Nat, nicks : NickMaps, perms : SUBSET Perms]

TypeOK == /\ members \in NickMaps /\ me \in Nicks /\ other \in Nicks /\ nick \in Nicks
          /\ namesx \in BOOLEAN /\ connected \in BOOLEAN
          /\ keep \in BOOLEAN /\ sticky \in BOOLEAN /\ rejoin \in BOOLEAN
          /\ Len(wire) <= MaxWire /\ events \in 0..MaxEvents
          /\ chan \in CChans \cup {NoChan}
          /\ chan # NoChan /\ JoinTries # 0 => chan.tries <= JoinTries

\* When every line from the server was handled, ZNC knows where it is: it has its nick
\* right; it is on the channel exactly when the server has it there, unless the channel
\* was deleted and the PART is on the way; the nick list is the server's; no permission
\* is made up, and with multi-prefix none is missed; and the permissions of the CChan
\* are those of its own nick in the list.
Mirror ==
  connected /\ wire = <<>> =>
    /\ nick = me
    /\ \/ chan # NoChan /\ chan.on <=> InChan
       \/ \E i \in DOMAIN out : out[i][1] = "PART"
    /\ chan # NoChan /\ chan.on =>
         /\ DOMAIN chan.nicks = DOMAIN members
         /\ \A n \in DOMAIN members : /\ chan.nicks[n] \subseteq members[n]
                                      /\ namesx => chan.nicks[n] = members[n]
         /\ chan.perms = chan.nicks[nick]

\* keepnick gets the configured nick once it stays free, unless the server refuses it.
KeepNickGets == ~<>[](keep /\ connected /\ other # Conf /\ nick # Conf)
=============================================================================
