------------------------------ MODULE Settings -------------------------------
(***************************************************************************)
(* What ZNC does with the value of one setting of a user, of a network or  *)
(* of a channel: the defaults of the constructors, the setters and getters, *)
(* the lines that ToConfig writes and ParseConfig reads, Clone, and the    *)
(* places where a user changes it (controlpanel, webadmin, the commands of *)
(* *status).                                                               *)
(*                                                                         *)
(* A value is one of a few classes: "empty", "def" (what a constructor     *)
(* or a getter supplies), "a" and "A" (two spellings that Equals does not  *)
(* tell apart), "b", "bad" (what a setter refuses), "big" (above            *)
(* MaxBufferSize), "fine" (a number with more than two decimals).           *)
(***************************************************************************)

\* Settings of a network that fall back to the user's.
NetworkOverUser == {"Nick", "AltNick", "Ident", "RealName", "BindHost", "QuitMsg"}
\* Settings of a channel that follow the user's until they are set.
ChanOverUser == {"ChanBufferSize", "AutoClearChanBuffer"}
DenyFlags == {"DenyLoadMod", "DenySetBindHost", "DenySetIdent", "DenySetNetwork",
              "DenySetRealName", "DenySetQuitMsg", "DenySetCTCPReplies"}
UserFlags == DenyFlags \cup {"Admin", "AuthOnlyViaModule", "MultiClients", "AutoClearQueryBuffer",
                             "AppendTimestamp", "PrependTimestamp"}
UserNumbers == {"QueryBufferSize", "JoinTries", "MaxNetworks", "MaxQueryBuffers", "MaxJoins",
                "NoTrafficTimeout"}
UserTexts == {"DCCBindHost", "StatusPrefix", "Skin", "ChanModes", "TimestampFormat", "Timezone",
              "ClientEncoding", "Language", "CTCPReply", "Allow"}
NetworkOnly == {"Encoding", "IRCConnectEnabled", "TrustAllCerts", "TrustPKI", "FloodRate",
                "FloodBurst", "JoinDelay"}
ChanOnly == {"Key", "Modes", "Detached", "Disabled"}
UserKeys == NetworkOverUser \cup ChanOverUser \cup UserFlags \cup UserNumbers \cup UserTexts
NetworkKeys == NetworkOverUser \cup NetworkOnly
ChanKeys == ChanOverUser \cup ChanOnly
Keys == UserKeys \cup NetworkOnly \cup ChanOnly

Flags == UserFlags \cup {"AutoClearChanBuffer", "IRCConnectEnabled", "TrustAllCerts", "TrustPKI",
                         "Detached", "Disabled"}
Numbers == UserNumbers \cup {"ChanBufferSize", "FloodBurst", "JoinDelay"}
BufferSizes == {"ChanBufferSize", "QueryBufferSize"}

\* What a setting may be given, "empty" where a form leaves it empty.
Inputs(k) == CASE k \in Flags -> {"true", "false"}
               [] k \in BufferSizes -> {"empty", "a", "def", "big"}
               [] k \in Numbers \ BufferSizes -> {"empty", "0", "a", "def"}
               [] k = "FloodRate" -> {"a", "def", "fine", "off"}
               [] OTHER -> {"empty", "a", "A", "def", "bad"}

\* CString::Equals ignores case.
Same(v, w) == v = w \/ {v, w} = {"a", "A"}

\* A setting in memory: the user's value, the value of a network or channel of
\* his, and whether a channel's value was set (m_bHas...Set).
Values == {"empty", "0", "a", "A", "b", "bad", "def", "big", "fine", "off", "true", "false"}
Settings == [user : Values, own : Values, set : BOOLEAN]
-----------------------------------------------------------------------------
(* Classes CUser, CIRCNetwork and CChan *)

\* The constructor of CUser.
UserDefault(k) ==
  CASE k \in {"MultiClients", "AutoClearChanBuffer", "AutoClearQueryBuffer", "PrependTimestamp"} -> "true"
    [] k \in UserFlags \ {"MultiClients", "AutoClearQueryBuffer", "PrependTimestamp"} -> "false"
    [] k \in Numbers \cup {"Nick", "Ident", "StatusPrefix", "TimestampFormat"} -> "def"
    [] OTHER -> "empty"

\* The constructors of CIRCNetwork and, for its own settings, of CChan.
NetworkDefault(k) == CASE k \in {"IRCConnectEnabled", "TrustPKI"} -> "true"
                       [] k \in {"TrustAllCerts", "Detached", "Disabled"} -> "false"
                       [] k \in {"FloodRate", "FloodBurst", "JoinDelay"} -> "def"
                       [] OTHER -> "empty"

\* The setters of CUser: SetStatusPrefix and SetLanguage check their argument,
\* the sizes of buffers are limited unless forced.
UserStored(k, old, v, force) ==
  CASE k = "StatusPrefix" /\ v \in {"empty", "bad"} -> old
    [] k = "Language" /\ v = "bad" -> old
    [] k \in BufferSizes /\ v = "big" /\ ~force -> old
    [] OTHER -> v

\* A setter of CUser on a setting m: a channel that did not set the value inherits it.
UserSet(k, m, v, force) ==
  LET new == UserStored(k, m.user, v, force) IN
  [m EXCEPT !.user = new, !.own = IF k \in ChanOverUser /\ ~m.set THEN new ELSE @]

\* The getters of CUser.
UserEffective(k, v) ==
  IF v = "empty" /\ k \in {"Nick", "AltNick", "Ident", "RealName", "QuitMsg"} THEN "def" ELSE v

\* The setters of CIRCNetwork: what the user has already is stored as "empty".
NetworkSet(k, m, v) ==
  [m EXCEPT !.own = IF k \in NetworkOverUser /\ Same(UserEffective(k, m.user), v) THEN "empty" ELSE v]

\* The getters of CIRCNetwork and CChan.
Effective(k, m) == CASE k \in NetworkOverUser -> IF m.own = "empty" THEN UserEffective(k, m.user) ELSE m.own
                     [] k \in NetworkOnly \cup ChanKeys -> m.own
                     [] OTHER -> UserEffective(k, m.user)

\* CChan::SetBufferCount marks the size as set even when it refuses it.
ChanSet(k, m, v, force) == [m EXCEPT !.set = TRUE,
                                     !.own = IF k = "ChanBufferSize" THEN UserStored(k, @, v, force) ELSE v]

\* ResetBufferCount and ResetAutoClearChanBuffer.
ChanReset(k, m) == [ChanSet(k, m, m.user, FALSE) EXCEPT !.set = FALSE]

\* A user with a network and a channel that were just created.
NewSetting(k) ==
  [user |-> IF k \in UserKeys THEN UserDefault(k) ELSE "empty",
   own |-> IF k \in ChanOverUser THEN UserDefault(k)
           ELSE IF k \in NetworkOnly \cup ChanOnly THEN NetworkDefault(k) ELSE "empty",
   set |-> FALSE]
-----------------------------------------------------------------------------
(* The configuration file.  A line with an empty value is not written. *)

\* Slip: a prefix that is the default is not written, whatever the global one is.
UserWrittenUnlessDefault(k, v, prefix) ==
  IF k = "StatusPrefix" /\ v = UserDefault(k) THEN "empty" ELSE UserEffective(k, v)

\* CUser::ToConfig
UserWritten(k, v, prefix) == IF k = "StatusPrefix" /\ v = prefix THEN "empty" ELSE UserEffective(k, v)

\* CIRCNetwork::ToConfig; a double is written with two decimals.
NetworkWritten(k, v) == IF k = "FloodRate" /\ v = "fine" THEN "a" ELSE v

\* CChan::ToConfig
ChanWritten(k, m) == CASE k \in ChanOverUser -> IF m.set THEN m.own ELSE "empty"
                       [] k \in {"Detached", "Disabled"} -> IF m.own = "true" THEN "true" ELSE "empty"
                       [] OTHER -> m.own

Written(k, m, prefix) ==
  [user |-> IF k \in UserKeys THEN UserWritten(k, m.user, prefix) ELSE "empty",
   own |-> IF k \in ChanKeys THEN ChanWritten(k, m) ELSE NetworkWritten(k, m.own)]

\* CUser::ParseConfig, after the global prefix was applied.
UserParsed(k, w, prefix) == IF w # "empty" THEN UserStored(k, UserDefault(k), w, TRUE)
                            ELSE IF k = "StatusPrefix" THEN prefix ELSE UserDefault(k)

\* CIRCNetwork::ParseConfig, with the user's settings in place.
NetworkParsed(k, user, w) ==
  LET m == [user |-> user, own |-> NetworkDefault(k), set |-> FALSE] IN
  IF w = "empty" THEN m ELSE NetworkSet(k, m, w)

\* The constructor of CChan with a CConfig.
ChanParsed(k, user, w) ==
  IF w = "empty" THEN [user |-> user, set |-> FALSE,
                  own |-> IF k \in ChanOverUser THEN user ELSE NetworkDefault(k)]
  ELSE [user |-> user, set |-> k \in ChanOverUser, own |-> w]

Parsed(k, w, prefix) ==
  LET user == IF k \in UserKeys THEN UserParsed(k, w.user, prefix) ELSE "empty" IN
  IF k \in ChanKeys THEN ChanParsed(k, user, w.own) ELSE NetworkParsed(k, user, w.own)
-----------------------------------------------------------------------------
(* Clone *)

\* Slip: Clone forgets the time zone.
UserClonedOmitting(k, v) == IF k = "Timezone" THEN "empty" ELSE v

\* CUser::Clone into a new user.
UserCloned(k, v) ==
  UserStored(k, UserDefault(k), IF k \in {"RealName", "QuitMsg"} THEN UserEffective(k, v) ELSE v, TRUE)

\* CIRCNetwork::Clone into a new network does not copy the two settings of trust.
NetworkCloned(k, m, user) ==
  LET new == [user |-> user, own |-> NetworkDefault(k), set |-> FALSE] IN
  IF k \in {"TrustAllCerts", "TrustPKI"} THEN new ELSE NetworkSet(k, new, Effective(k, m))

\* CChan::Clone into a new channel does not copy whether it is disabled.
ChanCloned(k, m, user) ==
  [user |-> user, set |-> k \in ChanOverUser, own |-> IF k = "Disabled" THEN "false" ELSE m.own]

Cloned(k, m) ==
  LET user == IF k \in UserKeys THEN UserCloned(k, m.user) ELSE "empty" IN
  IF k \in ChanKeys THEN ChanCloned(k, m, user)
  ELSE IF k \in NetworkKeys THEN NetworkCloned(k, m, user)
  ELSE [m EXCEPT !.user = user]
-----------------------------------------------------------------------------
(* Who may change what.  admin is whether the one who asks is an admin (and *)
(* not the user himself), deny the flag of the user that guards the setting. *)

Guarded == {"Ident", "RealName", "BindHost", "DCCBindHost", "QuitMsg", "CTCPReply"}
AdminOnly == DenyFlags \cup {"MaxNetworks", "AuthOnlyViaModule", "Admin"}

\* controlpanel: AddCTCP, and DelCTCP (v = "empty").
PanelCTCP(m, v, admin, deny) == IF deny /\ ~admin THEN m ELSE UserSet("CTCPReply", m, v, admin)

\* controlpanel: what Set refuses.
PanelRefuses(k, v, admin, deny) == \/ v = "empty" \/ k \in {"Skin", "Allow"}
                                   \/ k \in AdminOnly /\ ~admin
                                   \/ k \in Guarded /\ deny /\ ~admin
                                   \/ k = "NoTrafficTimeout" /\ v = "0"

\* controlpanel: Set on the user.
PanelSetUser(k, m, v, admin, deny) ==
  IF k = "CTCPReply" THEN PanelCTCP(m, v, admin, deny)
  ELSE IF PanelRefuses(k, v, admin, deny) THEN m ELSE UserSet(k, m, v, admin)

\* controlpanel: SetNetwork.
PanelSetNetwork(k, m, v, admin, deny) ==
  IF v = "empty" \/ k = "IRCConnectEnabled" \/ (k \in Guarded /\ deny /\ ~admin) THEN m
  ELSE NetworkSet(k, m, v)

\* controlpanel: SetChan, "-" given as "empty".
PanelSetChan(k, m, v, admin) ==
  CASE k = "Disabled" -> m
    [] k \in ChanOverUser -> IF v = "empty" THEN ChanReset(k, m) ELSE ChanSet(k, m, v, admin)
    [] OTHER -> IF v = "empty" THEN m ELSE [m EXCEPT !.own = v]

\* Slip: the flags of the form are taken from it whoever sends it.
NewUserReservedUnchecked(k, m, p, admin) == IF p = "empty" THEN UserDefault(k) ELSE p

\* webadmin: what only an admin changes in the form of a user.
NewUserReserved(k, m, p, admin) ==
  IF ~admin THEN m.user ELSE IF p = "empty" THEN UserDefault(k) ELSE p

\* webadmin: the value in the user that GetNewUser makes of a submitted form.  A
\* setting that he may not change is taken from the user, the CTCP replies are not.
NewUser(k, m, p, admin, deny) ==
  CASE k \in AdminOnly -> NewUserReserved(k, m, p, admin)
    [] k = "CTCPReply" -> IF deny /\ ~admin THEN "empty" ELSE p
    [] k \in Guarded \ {"CTCPReply"} /\ deny /\ ~admin -> UserEffective(k, m.user)
    [] k = "Allow" -> IF p = "empty" THEN "def" ELSE p
    [] k \in BufferSizes -> IF p = "empty" THEN UserDefault(k) ELSE UserStored(k, m.user, p, admin)
    [] k = "NoTrafficTimeout" -> IF p \in {"empty", "0"} THEN "a" ELSE p
    [] k = "Language" -> IF p = "bad" THEN "empty" ELSE p
    [] k \in {"Skin", "Timezone"} \cup (Flags \ AdminOnly) -> p
    [] k \in Numbers \ (AdminOnly \cup BufferSizes \cup {"NoTrafficTimeout"}) -> IF p = "empty" THEN "0" ELSE p
    [] OTHER -> IF p = "empty" THEN UserDefault(k) ELSE UserStored(k, UserDefault(k), p, TRUE)

\* webadmin: UserPage for an existing user.
WebSetUser(k, m, p, admin, deny) == UserSet(k, m, UserCloned(k, NewUser(k, m, p, admin, deny)), TRUE)

\* webadmin: NetworkPage; a new name first makes a clone of the network, whose
\* modules and channels come along.
WebSetNetwork(k, m, p, admin, deny, rename) ==
  LET n == IF rename THEN NetworkCloned(k, m, m.user) ELSE m IN
  IF k \in Guarded /\ deny /\ ~admin THEN n
  ELSE NetworkSet(k, n, IF k \in Numbers /\ p = "empty" THEN "0" ELSE p)

\* webadmin: ChanPage.
WebSetChan(k, m, p, admin) ==
  CASE k = "ChanBufferSize" -> IF p = "empty" THEN ChanReset(k, m) ELSE IF p = m.own THEN m
                               ELSE ChanSet(k, m, p, admin)
    [] k = "AutoClearChanBuffer" -> IF p = m.own THEN m ELSE ChanSet(k, m, p, admin)
    [] OTHER -> [m EXCEPT !.own = p]

\* *status: SetBindHost, ClearBindHost (v = "empty") and SetBuffer; EnableChan, DisableChan,
\* Attach and Detach, Connect and Disconnect.
CommandNetwork(k, m, v, deny) ==
  IF (k = "BindHost" /\ ~deny) \/ k = "IRCConnectEnabled" THEN NetworkSet(k, m, v) ELSE m
CommandUser(k, m, v, deny) == IF k = "BindHost" /\ ~deny THEN UserSet(k, m, v, FALSE) ELSE m
CommandChan(k, m, v) ==
  CASE k = "ChanBufferSize" -> ChanSet(k, m, IF v = "empty" THEN "0" ELSE v, FALSE)
    [] k \in {"Detached", "Disabled"} -> [m EXCEPT !.own = v]
    [] OTHER -> m
=============================================================================
