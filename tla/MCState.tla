------------------------------- MODULE MCState -------------------------------
(***************************************************************************)
(* Instances of the parts that keep state for users: buffers, settings,     *)
(* web sessions, listeners, the list of modules, and the data of modules.   *)
(* They share no variable: in a behaviour one of them moves, and the others *)
(* stay in an initial state.  Playback is the module extended.              *)
(***************************************************************************)
EXTENDS Playback

CONSTANTS Socks, Browsers, IPs, m_uiMaxSessions, ProtectWebSessions, MaxSessions,   \* of Web
          Plugins, Overrides, Events, Kinds,                                        \* of ModuleHost
          Conns, AnonIPLimit, MaxListeners,                                         \* of Listeners
          MaxEntries, MaxMessages                                                   \* of ModLists, AwayStore

ASSUME WebAssumption == Browsers # {} /\ IPs # {}

\* Bounds are numbers, and there is a listener to start with.
ASSUME KeptAssumption == MaxListeners \in Nat \ {0} /\ MaxEntries \in Nat /\ MaxMessages \in Nat

\* What the three modules of a list override.
HookOverridden == [a |-> "OnUserMsg", b |-> "OnChanPermission", c |-> "OnUserTextMessage"]

VARIABLES part,
          sock, sess, msp, act, live, jar, shown, fault,
          key, mem, deny, prefix, file, inForce, by,
          slots, size, own, manager, reg, disk, call, said,
          list, entries, entriesReg, args, known, skew,
          listeners, section, conns, wanted, written, failed, doubled,
          irc, attached, server, keeper, store, idle, msgs, foreign

Wb == INSTANCE Web
Sl == INSTANCE SettingLife WITH saved <- inForce
Mh == INSTANCE ModuleHost WITH Mods <- Plugins
Ml == INSTANCE ModLists WITH mod <- list, mem <- entries, reg <- entriesReg
Ls == INSTANCE Listeners WITH disk <- section, saved <- written
As == INSTANCE AwayStore WITH clients <- attached, m <- keeper, file <- store, kept <- msgs

\* Hooks have a loop over the modules.
ASSUME HostAssumption == Events \subseteq Mh!HaltHooks \cup Mh!VoidHooks

wbVars == <<sock, sess, msp, act, live, jar, shown, fault>>
slVars == <<key, mem, deny, prefix, file, inForce, by>>
mhVars == <<slots, size, own, manager, reg, disk, call, said>>
mlVars == <<list, entries, entriesReg, args, known, skew>>
lsVars == <<listeners, section, conns, wanted, written, failed, doubled>>
asVars == <<irc, attached, server, keeper, store, idle, msgs, foreign>>
ownVars == <<mlVars, lsVars, asVars>>

PartsInit ==
        /\ part \in {"playback", "web", "settings", "host", "lists", "listeners", "awaystore"}
        /\ Init /\ (part # "playback" => ~multi /\ mod = "none")
        /\ Wb!Init
        /\ Sl!Init /\ (part # "settings" => key = "BindHost")
        /\ Mh!Init
        /\ Ml!Init /\ (part # "lists" => list = "watch")
        /\ Ls!Init
        /\ As!Init

PartsNext ==
  \/ part = "playback" /\ Next /\ UNCHANGED <<part, wbVars, slVars, mhVars, ownVars>>
  \/ part = "web" /\ Wb!Next /\ UNCHANGED <<part, vars, slVars, mhVars, ownVars>>
  \/ part = "settings" /\ Sl!Next /\ UNCHANGED <<part, vars, wbVars, mhVars, ownVars>>
  \/ part = "host" /\ Mh!Next /\ UNCHANGED <<part, vars, wbVars, slVars, ownVars>>
  \/ /\ UNCHANGED <<part, vars, wbVars, slVars, mhVars>>
     /\ \/ part = "lists" /\ Ml!Next /\ UNCHANGED <<lsVars, asVars>>
        \/ part = "listeners" /\ Ls!Next /\ UNCHANGED <<mlVars, asVars>>
        \/ part = "awaystore" /\ As!Next /\ UNCHANGED <<mlVars, lsVars>>

PartsSpec == PartsInit /\ [][PartsNext]_<<part, vars, wbVars, slVars, mhVars, ownVars>>
-----------------------------------------------------------------------------
\* What a Deny flag or a user's being no admin guards is not changed by that user,
\* through no command and no form.
DenyHolds == Sl!DenyHolds

\* What was saved is there again after a restart, a clone, or a reload: the settings,
\* the lists of modules, the listeners, and the messages of awaystore, as long as their
\* file can be read and written.
Durable == /\ part = "settings" => Sl!TypeOK /\ Sl!SurvivesRestart /\ Sl!CloneKeeps
           /\ part = "lists" => Ml!TypeOK /\ Ml!RestartKeeps
           /\ part = "awaystore" => As!TypeOK /\ As!MessagesKept
           /\ part = "listeners" => Ls!TypeOK /\ Ls!PortsKept

\* What a module or a user leaves behind is not found any more.  Timers, sockets and jobs
\* end with their module, what it stored is saved, and a hook reaches every module as long
\* as none throws UNLOAD in the loop.  No cookie leads to a session of a deleted user, and
\* no one else is shown a user's pages (CWebSession); a session that an open socket holds
\* outlives the user, which is the finding of the run web_deleted and ends what is claimed.
NoOrphans == /\ part = "host" => Mh!TypeOK /\ Mh!NoOrphans /\ Mh!HookReachesAll
             /\ part = "web" => Wb!PagesRight
=============================================================================
