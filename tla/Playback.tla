------------------------------ MODULE Playback -------------------------------
(***************************************************************************)
(* Where a line goes that the server or a client sends: to the clients that *)
(* are attached, and into the buffers of a channel, of queries and of       *)
(* notices, until it is played back.  src/src/Buffer.cpp, Query.cpp and     *)
(* Chan.cpp, the message handlers of IRCSock.cpp and Client.cpp, the        *)
(* attaching of clients in IRCNetwork.cpp, and the modules autoattach,      *)
(* flooddetach, clearbufferonmsg, buffextras and savebuff, of which one is  *)
(* loaded.                                                                  *)
(*                                                                         *)
(* One channel that ZNC is on.  A line is its number; formats, tags and     *)
(* batches are left out.  Handlers are functions of the network's state.    *)
(***************************************************************************)
EXTENDS Integers, Sequences, Functions

CONSTANTS Clients, Peers,   \* client connections; nicks that queries are with
          Mods,             \* modules of which one is loaded
          Sizes, DefaultSize,   \* sizes a buffer may be given
          MaxQueryBuffers, NoticeLines, FloodLines,
          MaxLines,         \* bound: lines sent
          MaxChanges        \* bound: commands and changes of settings

ASSUME SizesAssumption == Sizes \subseteq Nat /\ DefaultSize \in Sizes
ASSUME LimitsAssumption == MaxQueryBuffers \in Nat /\ NoticeLines \in Nat /\ FloodLines \in Nat \ {0}

VARIABLES clients, away,    \* m_vClients of the network, and those that are away
          multi, mod,       \* MultiClients of the user; the module loaded
          net,              \* the network: channel, queries, notices, and ghosts
          saved,            \* savebuff: what its files hold
          lines, changes    \* how many there were

vars == <<clients, away, multi, mod, net, saved, lines, changes>>

\* CIRCNetwork::IsUserOnline
IsUserOnline == clients \ away # {}

Network == [detached |-> FALSE, auto |-> TRUE, size |-> DefaultSize, buffer |-> <<>>,  \* the CChan
            queries |-> <<>>, autoQuery |-> TRUE, notices |-> <<>>,
            flood |-> 0,           \* flooddetach: lines counted
            seen |-> {},           \* ghost: lines sent to some client
            gone |-> {},           \* ghost: lines dropped at a limit or on request
            unheard |-> {},        \* ghost: lines cleared by a playback to nobody
            got |-> [c \in Clients |-> {}],  \* ghost: what a client was sent while not away
            twice |-> FALSE]       \* ghost: it was sent a line again without asking

Init == /\ clients = {} /\ away = {} /\ multi \in BOOLEAN /\ mod \in Mods /\ net = Network
        /\ saved = [buffer |-> <<>>, queries |-> <<>>] /\ lines = 0 /\ changes = 0
-----------------------------------------------------------------------------
(* CBuffer, CQuery and the buffers of CChan *)

\* CBuffer::SetLineCount and AddLine: the oldest lines give way.
Shrunk(buf, n) == IF Len(buf) <= n THEN buf ELSE SubSeq(buf, Len(buf) - n + 1, Len(buf))
AddLine(buf, n, l) == IF n = 0 THEN buf ELSE Append(Shrunk(buf, n - 1), l)
Lines(qs) == UNION {Range(q.buffer) : q \in Range(qs)}

Dropped(s, ls) == [s EXCEPT !.gone = @ \cup ls]
SetBuffer(s, buf, offered) == Dropped([s EXCEPT !.buffer = buf], offered \ Range(buf))
AddBuffer(s, l) == SetBuffer(s, AddLine(s.buffer, s.size, l), Range(s.buffer) \cup {l})
ClearBuffer(s) == SetBuffer(s, <<>>, Range(s.buffer))
SetBufferCount(s, n) == SetBuffer([s EXCEPT !.size = n], Shrunk(s.buffer, n), Range(s.buffer))
SetQueries(s, qs, offered) == Dropped([s EXCEPT !.queries = qs], offered \ Lines(qs))

\* CIRCNetwork::AddQuery and CQuery::AddBuffer: MaxQueryBuffers limits the queries if it is not 0.
Few(qs) == MaxQueryBuffers = 0 \/ Len(qs) <= MaxQueryBuffers
AddQuery(qs, who) ==
  LET more == Append(qs, [name |-> who, size |-> DefaultSize, buffer |-> <<>>])
  IN  IF \E q \in Range(qs) : q.name = who THEN qs
      ELSE IF Few(more) THEN more ELSE Shrunk(more, MaxQueryBuffers)
QueryLine(s, who, l) ==
  LET qs == AddQuery(s.queries, who)
  IN  SetQueries(s, [i \in DOMAIN qs |-> IF qs[i].name # who THEN qs[i]
                        ELSE [qs[i] EXCEPT !.buffer = AddLine(@, qs[i].size, l)]],
                 Lines(s.queries) \cup {l})
\* CIRCNetwork::ClearQueryBuffer and DelQuery
ClearQueries(s) == SetQueries(s, <<>>, Lines(s.queries))
AddNotice(s, l) == LET buf == AddLine(s.notices, NoticeLines, l)
                   IN  Dropped([s EXCEPT !.notices = buf], (Range(s.notices) \cup {l}) \ Range(buf))
-----------------------------------------------------------------------------
(* Sending to clients *)

Told(s, cs, ls) ==
  [s EXCEPT !.seen = IF cs = {} THEN @ ELSE @ \cup ls,
            !.got = [c \in Clients |-> IF c \in cs \ away THEN @[c] \cup ls ELSE @[c]]]
Again(s, cs, ls) == s.auto /\ s.autoQuery /\ \E c \in cs : s.got[c] \cap ls # {}
\* CIRCNetwork::PutUser
PutUser(s, cs, ls) == [Told(s, cs, ls) EXCEPT !.twice = @ \/ Again(s, cs, ls)]

\* CChan::SendBuffer: played to the clients cs, then cleared.
SendBuffer(s, cs) ==
  LET t == PutUser(s, cs, Range(s.buffer))
  IN  IF ~s.auto THEN t
      ELSE [t EXCEPT !.buffer = <<>>, !.unheard = IF cs = {} THEN @ \cup Range(s.buffer) ELSE @]

\* CChan::AttachUser and DetachUser
AttachUser(s, cs) == SendBuffer([s EXCEPT !.detached = FALSE], cs)
DetachUser(s) == [s EXCEPT !.detached = TRUE]

\* CQuery::SendBuffer; the replay of notices
SendQueries(s, c) == LET t == PutUser(s, {c}, Lines(s.queries))
                     IN  IF s.autoQuery THEN [t EXCEPT !.queries = <<>>] ELSE t
SendNotices(s, c) == [PutUser(s, {c}, Range(s.notices)) EXCEPT !.notices = <<>>]

\* Slip: queries are replayed again by an attached channel's AttachUser.
ReplayTwice(s, c) == SendNotices(SendQueries(PutUser(IF s.detached THEN s ELSE AttachUser(s, {c}),
                                                     {c}, Lines(s.queries)), c), c)
\* What CIRCNetwork::ClientConnected replays.
Replay(s, c) == SendNotices(SendQueries(IF s.detached THEN s ELSE AttachUser(s, {c}), c), c)

\* CChan::SetAutoClearChanBuffer.  What was sent before the change does not count as
\* sent twice.
SetAutoClear(s, b) ==
  LET t == [s EXCEPT !.auto = b, !.got = [c \in Clients |-> {}]]
  IN  IF b /\ ~s.detached /\ IsUserOnline THEN ClearBuffer(t) ELSE t
SetAutoClearQuery(s, b) == [s EXCEPT !.autoQuery = b, !.got = [c \in Clients |-> {}]]
-----------------------------------------------------------------------------
(* Modules *)

\* autoattach: TryAttach, with or without a match.
TryAttach(s) == IF s.detached THEN {s, AttachUser(s, clients)} ELSE {s}

\* flooddetach: Message.  Channels that are detached are not tracked, but one that the
\* user detaches while its lines are counted is.  The first line only starts the count.
FloodMessage(s) ==
  IF s.flood = 0 /\ s.detached THEN s
  ELSE IF s.flood >= FloodLines THEN s
  ELSE LET t == [s EXCEPT !.flood = @ + 1]
       IN  IF s.flood = 0 \/ t.flood < FloodLines THEN t ELSE DetachUser(t)

\* flooddetach: Cleanup, once the time is over.
FloodOver(s) ==
  LET t == [s EXCEPT !.flood = 0]
  IN  IF s.flood >= FloodLines /\ s.detached THEN AttachUser(ClearBuffer(t), clients) ELSE t

\* clearbufferonmsg: ClearAllBuffers
ClearAllBuffers(s) ==
  SetAutoClearQuery(ClearQueries(IF s.detached THEN s ELSE SetAutoClear(ClearBuffer(s), FALSE)), FALSE)

\* What the module's hook for a message in the channel leaves.
Hooked(s) == CASE mod = "autoattach" -> TryAttach(s)
               [] mod = "flooddetach" -> {FloodMessage(s)}
               [] OTHER -> {s}
-----------------------------------------------------------------------------
(* CIRCSock *)

NewLine == /\ lines < MaxLines /\ lines' = lines + 1
           /\ UNCHANGED <<clients, away, multi, mod, saved, changes>>

\* Slip: a detached channel is buffered only when nobody is there.
BufferedOffline(s, l) == IF ~s.auto \/ ~IsUserOnline THEN AddBuffer(s, l) ELSE s
Buffered(s, l) == IF ~s.auto \/ ~IsUserOnline \/ s.detached THEN AddBuffer(s, l) ELSE s

\* The channel's part of OnTextMessage, OnActionMessage, OnNoticeMessage, OnTagMessage.
ChanMessage ==
  /\ NewLine
  /\ \E s \in Hooked(net) :
       LET t == Buffered(s, lines')
       IN  net' = IF t.detached THEN t ELSE PutUser(t, clients, {lines'})

\* Their part for a message to ZNC's nick.
PrivMessage ==
  /\ NewLine
  /\ \E who \in Peers :
       net' = PutUser(IF ~IsUserOnline \/ ~net.autoQuery THEN QueryLine(net, who, lines') ELSE net,
                      clients, {lines'})

\* OnNoticeMessage to ZNC's nick, OnWallopsMessage
PrivNotice ==
  /\ NewLine
  /\ net' = PutUser(IF IsUserOnline THEN net ELSE AddNotice(net, lines'), clients, {lines'})

\* buffextras: a join, part, kick, quit, nick, mode or topic.  While a client is there,
\* those in a detached channel are not kept.
ExtraLine ==
  /\ mod = "buffextras" /\ NewLine
  /\ LET s == IF net.auto /\ IsUserOnline THEN net ELSE AddBuffer(net, lines')
     IN  net' = IF ~s.detached THEN PutUser(s, clients, {lines'})
                ELSE IF net.auto /\ IsUserOnline THEN Dropped(s, {lines'}) ELSE s
-----------------------------------------------------------------------------
(* CClient *)

Attached(c) == c \in clients /\ UNCHANGED <<clients, away, multi, mod, saved>>
Command == changes < MaxChanges /\ changes' = changes + 1 /\ UNCHANGED lines

\* AddBuffer and EchoMessage, after the hook of clearbufferonmsg.  The one who sent a
\* line has seen it.
ClientMessage(c) ==
  /\ c \in clients /\ NewLine
  /\ LET s == IF mod = "clearbufferonmsg" THEN ClearAllBuffers(net) ELSE net
     IN  \/ net' = PutUser(IF ~s.auto \/ ~IsUserOnline THEN AddBuffer(s, lines') ELSE s,
                           clients, {lines'})
         \/ \E who \in Peers :
              net' = PutUser(IF ~s.autoQuery \/ ~IsUserOnline THEN QueryLine(s, who, lines') ELSE s,
                             clients, {lines'})

\* CIRCNetwork::ClientConnected, on login or JumpNetwork.  Without MultiClients the
\* others are bounced.
ClientConnected(c) ==
  /\ c \notin clients
  /\ clients' = (IF multi THEN clients ELSE {}) \cup {c} /\ away' = away \cap clients'
  /\ net' = Replay([net EXCEPT !.got = [d \in Clients |-> IF d \in clients' \ {c} THEN @[d] ELSE {}]], c)
  /\ UNCHANGED <<multi, mod, saved, lines, changes>>

\* CIRCNetwork::ClientDisconnected
ClientDisconnected(c) ==
  /\ c \in clients /\ clients' = clients \ {c} /\ away' = away \ {c}
  /\ net' = [net EXCEPT !.got[c] = {}]
  /\ UNCHANGED <<multi, mod, saved, lines, changes>>

\* CClient::SetAway
ClientAway(c) == /\ c \in clients /\ away' = IF c \in away THEN away \ {c} ELSE away \cup {c}
                 /\ Command /\ UNCHANGED <<clients, multi, mod, net, saved>>

\* CClient::OnJoinMessage for a detached channel attaches the client that asks.
ClientJoin(c) == Attached(c) /\ Command /\ net.detached /\ net' = AttachUser(net, {c})
\* The commands Attach and Detach: AttachChans and DetachChans.
Attach(c) == Attached(c) /\ Command /\ net.detached /\ net' = AttachUser(net, clients)
Detach(c) == Attached(c) /\ Command /\ ~net.detached /\ net' = DetachUser(net)

\* PlayBuffer: of the channel, of a query.
PlayBuffer(c) ==
  /\ Attached(c) /\ Command
  /\ \/ net.buffer # <<>> /\ net' = [SendBuffer(net, {c}) EXCEPT !.twice = net.twice]
     \/ \E q \in Range(net.queries) : q.buffer # <<>> /\ net' = Told(net, {c}, Range(q.buffer))

\* ClearBuffer, ClearAllChannelBuffers, ClearAllQueryBuffers, ClearAllBuffers
ClearBuffers(c) == /\ Attached(c) /\ Command
                   /\ net' \in {ClearBuffer(net), ClearQueries(net), ClearBuffer(ClearQueries(net))}

\* SetBuffer, for the channel and for queries.
SetBufferCommand(c) ==
  /\ Attached(c) /\ Command
  /\ \E n \in Sizes :
       \/ net' = SetBufferCount(net, n)
       \/ net' = SetQueries(net, [i \in DOMAIN net.queries |->
                                    [net.queries[i] EXCEPT !.size = n, !.buffer = Shrunk(@, n)]],
                            Lines(net.queries))

\* controlpanel, webadmin: AutoClearChanBuffer, AutoClearQueryBuffer
SetAutoClearCommand ==
  /\ Command /\ net' \in {SetAutoClear(net, ~net.auto), SetAutoClearQuery(net, ~net.autoQuery)}
  /\ UNCHANGED <<clients, away, multi, mod, saved>>
-----------------------------------------------------------------------------
(* flooddetach's time is over, and a message in some channel runs Cleanup *)
FloodCleanup == /\ mod = "flooddetach" /\ net.flood # 0 /\ net' = FloodOver(net)
                /\ UNCHANGED <<clients, away, multi, mod, saved, lines, changes>>
\* flooddetach: OnIRCDisconnected
FloodForgets == /\ mod = "flooddetach" /\ net.flood # 0 /\ net' = [net EXCEPT !.flood = 0] /\ Command
                /\ UNCHANGED <<clients, away, multi, mod, saved>>

\* savebuff: SaveBuffersToDisk
SaveBuffers == /\ mod = "savebuff" /\ saved' = [buffer |-> net.buffer, queries |-> net.queries]
               /\ UNCHANGED <<clients, away, multi, mod, net, lines, changes>>

\* ZNC restarts; savebuff saves first if ZNC was not killed.  What OnBoot does not find
\* in the files is gone.
Restart ==
  /\ Command /\ UNCHANGED <<multi, mod>> /\ clients' = {} /\ away' = {}
  /\ saved' \in IF mod = "savebuff" THEN {saved, [buffer |-> net.buffer, queries |-> net.queries]}
                ELSE {saved}
  /\ LET qs == [i \in DOMAIN saved'.queries |->
                  [saved'.queries[i] EXCEPT !.size = DefaultSize, !.buffer = Shrunk(@, DefaultSize)]]
         buf == Shrunk(saved'.buffer, net.size)
     IN  net' = Dropped([net EXCEPT !.buffer = buf, !.queries = qs, !.notices = <<>>, !.flood = 0,
                                    !.got = [c \in Clients |-> {}]],
                        (Range(net.buffer) \cup Lines(net.queries) \cup Range(net.notices))
                          \ (Range(buf) \cup Lines(qs)))

ByClient(c) == \/ ClientMessage(c) \/ ClientConnected(c) \/ ClientDisconnected(c) \/ ClientAway(c)
               \/ ClientJoin(c) \/ Attach(c) \/ Detach(c) \/ PlayBuffer(c) \/ ClearBuffers(c)
               \/ SetBufferCommand(c)
Next == \/ ChanMessage \/ PrivMessage \/ PrivNotice \/ ExtraLine
        \/ \E c \in Clients : ByClient(c)
        \/ SetAutoClearCommand \/ FloodCleanup \/ FloodForgets \/ SaveBuffers \/ Restart

Spec == Init /\ [][Next]_vars
-----------------------------------------------------------------------------
TypeOK == /\ clients \subseteq Clients /\ away \subseteq clients /\ mod \in Mods
          /\ Range(net.buffer) \subseteq 1..lines /\ Len(net.buffer) <= net.size
          /\ Few(net.queries) /\ net.flood \in 0..FloodLines

\* Every line sent so far was sent to some client, or waits in a buffer, or was dropped
\* at the limit of a buffer or on request, or by a playback to nobody (autoattach).
Kept == 1..lines \subseteq net.seen \cup net.gone \cup net.unheard \cup Range(net.buffer)
                            \cup Lines(net.queries) \cup Range(net.notices)

\* With buffers that clear themselves, no client that is not away is sent a line that it
\* was sent before, unless it asks for a playback.
NotTwice == ~net.twice

\* A line for a channel or a query reaches some client or waits in a buffer, unless a
\* limit or the user dropped it, and a client that did not ask for a playback gets it
\* only once (CBuffer, CChan, CQuery and the modules that touch buffers).
NoLineLost == TypeOK /\ Kept /\ NotTwice
=============================================================================
