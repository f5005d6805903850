----------------------------- MODULE ModuleHost ------------------------------
(***************************************************************************)
(* One list of modules (CModules): loading and unloading, the calling of    *)
(* hooks, and what a module owns in the socket manager and thread pool.     *)
(* src/src/Modules.cpp, src/include/znc/Modules.h, CSocket, and             *)
(* CZNC::UpdateModule.                                                      *)
(*                                                                         *)
(* Hooks are their names.  What the code of a module does in a hook is      *)
(* chosen; arguments of hooks, descriptions and paths are left out.         *)
(***************************************************************************)
EXTENDS Integers, Sequences, Functions

CONSTANTS Mods,
          Overrides,   \* for each module, the hook it overrides
          Events,      \* hooks that are called
          Kinds        \* what a module may own: timers, sockets, jobs

VARIABLES slots, size,     \* the vector of modules: its memory and its size
          own, manager,    \* m_sTimers, m_sSockets, m_sJobs; what manager and pool hold
          reg, disk,       \* m_mssRegistry, and its file
          call,            \* the loop over the modules that is under way
          said             \* ghost: what each module stored last

resources == <<own, manager>>
registry == <<reg, disk, said>>
vars == <<slots, size, resources, registry, call>>

Loaded == SubSeq(slots, 1, size)
Idle == [hook |-> "none", pos |-> 0, end |-> 0, start |-> {}, called |-> <<>>,
         halted |-> FALSE, core |-> TRUE, threw |-> FALSE, wild |-> FALSE]

Init == /\ slots = <<>> /\ size = 0 /\ own = [m \in Mods |-> {}] /\ manager = {}
        /\ reg = [m \in Mods |-> 0] /\ disk = [m \in Mods |-> 0] /\ said = [m \in Mods |-> 0]
        /\ call = Idle
-----------------------------------------------------------------------------
(* Hooks *)

\* Hooks that return nothing: MODUNLOADCHK.
SessionHooks == {"OnPreRehash", "OnPostRehash", "OnIRCConnected", "OnIRCConnectionError",
                 "OnIRCDisconnected"}
PermissionHooks == {"OnChanPermission3", "OnChanPermission2", "OnChanPermission", "OnOp2", "OnOp",
                    "OnDeop2", "OnDeop", "OnVoice2", "OnVoice", "OnDevoice2", "OnDevoice",
                    "OnRawMode2", "OnRawMode", "OnMode2", "OnMode"}
MemberHooks == {"OnQuit", "OnQuitMessage", "OnNick", "OnNickMessage", "OnKick", "OnKickMessage",
                "OnJoin", "OnJoinMessage", "OnPart", "OnPartMessage"}
ModHooks == {"OnModCommand", "OnModNotice", "OnModCTCP", "OnClientAttached", "OnClientDetached",
             "OnServerCapResult"}
LoginHooks == {"OnClientConnect", "OnFailedLogin", "OnClientCapLs", "OnClientCapRequest",
               "OnClientGetSASLMechanisms", "OnClientSASLAborted", "OnGetAvailableMods"}
VoidHooks == SessionHooks \cup PermissionHooks \cup MemberHooks \cup ModHooks \cup LoginHooks
             \cup {"OnClientLogin", "OnClientDisconnect"}

\* Hooks that return an EModRet: MODHALTCHK.
UserHooks == {"OnUserRaw", "OnUserRawMessage", "OnUserCTCPReply", "OnUserCTCPReplyMessage",
              "OnUserCTCP", "OnUserCTCPMessage", "OnUserAction", "OnUserActionMessage",
              "OnUserMsg", "OnUserTextMessage", "OnUserNotice", "OnUserNoticeMessage",
              "OnUserJoin", "OnUserJoinMessage", "OnUserPart", "OnUserPartMessage",
              "OnUserTopic", "OnUserTopicMessage", "OnUserTopicRequest", "OnUserQuit",
              "OnUserQuitMessage", "OnUserTagMessage", "OnPrivTagMessage", "OnChanTagMessage",
              "OnInviteMessage"}
BufferHooks == {"OnChanBufferStarting", "OnChanBufferEnding", "OnChanBufferPlayLine2",
                "OnChanBufferPlayLine", "OnPrivBufferStarting", "OnPrivBufferEnding",
                "OnPrivBufferPlayLine2", "OnPrivBufferPlayLine", "OnChanBufferPlayMessage",
                "OnPrivBufferPlayMessage"}
TextHooks == {"OnCTCPReply", "OnCTCPReplyMessage", "OnPrivCTCP", "OnPrivCTCPMessage",
              "OnChanCTCP", "OnChanCTCPMessage", "OnPrivAction", "OnPrivActionMessage",
              "OnChanAction", "OnChanActionMessage", "OnPrivMsg", "OnPrivTextMessage",
              "OnChanMsg", "OnChanTextMessage", "OnPrivNotice", "OnPrivNoticeMessage",
              "OnChanNotice", "OnChanNoticeMessage", "OnTopic", "OnTopicMessage",
              "OnSendToClient", "OnSendToClientMessage", "OnSendToIRC", "OnSendToIRCMessage"}
HaltHooks == UserHooks \cup BufferHooks \cup TextHooks
             \cup {"OnRaw", "OnRawMessage", "OnNumericMessage", "OnJoining", "OnStatusCommand",
                   "OnLoginAttempt", "OnUnknownUserRaw", "OnModuleLoading", "OnModuleUnloading"}

\* What the default of a hook of the newer kind calls.
ModeForwards == [OnChanPermission3 |-> "OnChanPermission2", OnChanPermission2 |-> "OnChanPermission",
                 OnOp2 |-> "OnOp", OnDeop2 |-> "OnDeop", OnVoice2 |-> "OnVoice",
                 OnDevoice2 |-> "OnDevoice", OnRawMode2 |-> "OnRawMode", OnMode2 |-> "OnMode"]
MemberForwards == [OnQuitMessage |-> "OnQuit", OnNickMessage |-> "OnNick",
                   OnKickMessage |-> "OnKick", OnJoinMessage |-> "OnJoin",
                   OnPartMessage |-> "OnPart", OnInviteMessage |-> "OnInvite",
                   OnChanBufferPlayMessage |-> "OnChanBufferPlayLine2",
                   OnPrivBufferPlayMessage |-> "OnPrivBufferPlayLine2"]
UserForwards == [OnUserCTCPReplyMessage |-> "OnUserCTCPReply", OnUserCTCPMessage |-> "OnUserCTCP",
                 OnUserActionMessage |-> "OnUserAction", OnUserTextMessage |-> "OnUserMsg",
                 OnUserNoticeMessage |-> "OnUserNotice", OnUserJoinMessage |-> "OnUserJoin",
                 OnUserPartMessage |-> "OnUserPart", OnUserTopicMessage |-> "OnUserTopic",
                 OnUserQuitMessage |-> "OnUserQuit"]
TextForwards == [OnCTCPReplyMessage |-> "OnCTCPReply", OnPrivCTCPMessage |-> "OnPrivCTCP",
                 OnChanCTCPMessage |-> "OnChanCTCP", OnPrivActionMessage |-> "OnPrivAction",
                 OnChanActionMessage |-> "OnChanAction", OnPrivTextMessage |-> "OnPrivMsg",
                 OnChanTextMessage |-> "OnChanMsg", OnPrivNoticeMessage |-> "OnPrivNotice",
                 OnChanNoticeMessage |-> "OnChanNotice", OnTopicMessage |-> "OnTopic"]
Forwards == {ModeForwards, MemberForwards, UserForwards, TextForwards}
Next1(h) == {f[h] : f \in {g \in Forwards : h \in DOMAIN g}}
Reaches(h) == LET one == Next1(h) IN {h} \cup one \cup UNION {Next1(x) : x \in one}

\* What calling hook h of module m may give; the default is CONTINUE.
Results(m, h) ==
  IF Overrides[m] \notin Reaches(h) THEN {"CONTINUE"}
  ELSE {"CONTINUE", "UNLOAD"} \cup IF h \in HaltHooks THEN {"HALT", "HALTMODS", "HALTCORE"} ELSE {}
-----------------------------------------------------------------------------
(* Loading and unloading *)

\* CModule::~CModule: timers, sockets and jobs go, the registry is saved.
\* Slip: only timers and sockets are removed.
DestroyedKeepingJobs(m) ==
  /\ manager' = {r \in manager : r[1] # m \/ r[2] = "job"} /\ own' = [own EXCEPT ![m] = {}]
  /\ disk' = [disk EXCEPT ![m] = reg[m]] /\ UNCHANGED <<reg, said>>
Destroyed(m) ==
  /\ manager' = {r \in manager : r[1] # m} /\ own' = [own EXCEPT ![m] = {}]
  /\ disk' = [disk EXCEPT ![m] = reg[m]] /\ UNCHANGED <<reg, said>>

\* The list without m.
Without(m) == LET i == CHOOSE k \in 1..size : slots[k] = m
              IN  SubSeq(slots, 1, i - 1) \o SubSeq(slots, i + 1, size)
\* vector::erase moves the later elements down and leaves the last slot as it is.
Erased(m) == Without(m) \o SubSeq(slots, size, Len(slots))
UnloadModule(m) == /\ m \in Range(Loaded)
                   /\ slots' = Erased(m) /\ size' = size - 1 /\ Destroyed(m)

Quiet == call = Idle
\* LoadModule: the registry is read, the module joins the list, and OnLoad may fail.
LoadModule(m) ==
  /\ Quiet /\ m \notin Range(Loaded)
  /\ \/ /\ slots' = Append(Loaded, m) /\ size' = size + 1
        /\ reg' = [reg EXCEPT ![m] = disk[m]] /\ UNCHANGED <<disk, said>>
        /\ \E ks \in SUBSET Kinds : /\ own' = [own EXCEPT ![m] = ks]
                                    /\ manager' = manager \cup {<<m, k>> : k \in ks}
     \/ slots' = Loaded /\ UNCHANGED <<size, resources, registry>>
  /\ UNCHANGED call
\* /znc UnloadMod, and UnloadAll, which starts with the last module.
Unload(m) == Quiet /\ UnloadModule(m) /\ UNCHANGED call
\* ReloadModule, and UpdateModule for this list: unloaded, then loaded at the end of the
\* list with what OnLoad adds; a module whose OnLoad fails stays unloaded (Unload).
ReloadModule(m) ==
  /\ Quiet /\ m \in Range(Loaded)
  /\ slots' = Append(Without(m), m) /\ size' = size
  /\ \E ks \in SUBSET Kinds :
       /\ own' = [own EXCEPT ![m] = ks]
       /\ manager' = {r \in manager : r[1] # m} \cup {<<m, k>> : k \in ks}
  /\ disk' = [disk EXCEPT ![m] = reg[m]] /\ UNCHANGED <<reg, said, call>>
\* /znc ReloadMod: a module that cannot be loaded again stays unloaded.
ReloadMod(m) == ReloadModule(m) \/ Unload(m)
\* controlpanel: LoadModule and LoadNetModule reload a module that has other arguments;
\* UnloadModule and UnloadNetModule of any module but controlpanel itself.
PanelLoad(m) == LoadModule(m) \/ ReloadModule(m)
PanelUnload(m) == Unload(m)
-----------------------------------------------------------------------------
(* What modules own *)

\* AddTimer, AddSocket, AddJob
Add(m, k) == /\ m \in Range(Loaded) /\ k \notin own[m]
             /\ own' = [own EXCEPT ![m] = @ \cup {k}] /\ manager' = manager \cup {<<m, k>>}
             /\ UNCHANGED <<slots, size, registry, call>>
\* RemTimer, RemSocket, CancelJob; or the last cycle of a timer, the end of a connection,
\* the end of a job: the destructors of CTimer, CSocket and CModuleJob unlink them.
Remove_(m, k) == /\ m \in Range(Loaded) /\ k \in own[m] /\ <<m, k>> \in manager
                 /\ own' = [own EXCEPT ![m] = @ \ {k}] /\ manager' = manager \ {<<m, k>>}
                 /\ UNCHANGED <<slots, size, registry, call>>
\* SetNV and DelNV, written to disk at once or not
SetNV(m, now) == /\ m \in Range(Loaded)
                 /\ \E v \in {0, 1} : /\ reg' = [reg EXCEPT ![m] = v]
                                      /\ said' = [said EXCEPT ![m] = v]
                                      /\ disk' = IF now THEN [disk EXCEPT ![m] = v] ELSE disk
                 /\ UNCHANGED <<slots, size, resources, call>>
-----------------------------------------------------------------------------
(* Calling hooks *)

\* The loop's end is read once, before the first module is called.
Begin == /\ Quiet /\ size > 0
         /\ \E h \in Events : call' = [Idle EXCEPT !.hook = h, !.pos = 1, !.end = size,
                                                  !.start = Range(Loaded)]
         /\ UNCHANGED <<slots, size, resources, registry>>

Finished == call # Idle /\ (call.halted \/ call.pos > call.end)
Called(e) == [call EXCEPT !.pos = @ + 1, !.called = Append(@, slots[call.pos]),
                          !.halted = e \in {"HALT", "HALTMODS"},
                          !.core = @ /\ e \notin {"HALT", "HALTCORE"},
                          !.threw = @ \/ e = "UNLOAD"]
\* One round of MODUNLOADCHK or MODHALTCHK.  A module that throws is unloaded inside the
\* loop; a slot may then name a module twice, or one that was deleted.
Round == /\ call # Idle /\ ~Finished
         /\ LET m == slots[call.pos]
            IN  IF m \notin Range(Loaded)
                THEN /\ call' = [call EXCEPT !.pos = @ + 1, !.wild = TRUE]
                     /\ UNCHANGED <<slots, size, resources, registry>>
                ELSE \E e \in Results(m, call.hook) :
                       /\ call' = Called(e)
                       /\ IF e = "UNLOAD" THEN UnloadModule(m)
                          ELSE UNCHANGED <<slots, size, resources, registry>>
Return == /\ Finished /\ call' = Idle /\ slots' = Loaded
          /\ UNCHANGED <<size, resources, registry>>

Next == \/ \E m \in Mods : \/ LoadModule(m) \/ Unload(m) \/ ReloadMod(m)
                       \/ PanelLoad(m) \/ PanelUnload(m)
        \/ \E m \in Mods, k \in Kinds : Add(m, k) \/ Remove_(m, k)
        \/ \E m \in Mods, b \in BOOLEAN : SetNV(m, b)
        \/ Begin \/ Round \/ Return
Spec == Init /\ [][Next]_vars
-----------------------------------------------------------------------------
\* Every variable holds a value of its kind.
TypeOK == /\ size \in 0..Len(slots) /\ Range(slots) \subseteq Mods
          /\ own \in [Mods -> SUBSET Kinds] /\ manager \subseteq Mods \X Kinds
          /\ call.hook \in Events \cup {"none"} /\ Events \subseteq HaltHooks \cup VoidHooks

\* The event loop and the thread pool never hold a timer, socket or job of a module that
\* is not loaded, and hold all those of the others, whichever way they end; the file of an
\* unloaded module holds what it stored last.
NoOrphans == /\ manager = {r \in Mods \X Kinds : r[1] \in Range(Loaded) /\ r[2] \in own[r[1]]}
             /\ \A m \in Mods \ Range(Loaded) : disk[m] = said[m]

\* "These function will then be called by ZNC when the associated event happens": a hook
\* that no module halts is called once in every loaded module, and no deleted module is
\* called, as long as no module throws UNLOAD inside the loop.
HookReachesAll ==
  /\ ~call.threw => ~call.wild
  /\ (Finished /\ ~call.halted /\ ~call.threw) =>
       \A m \in call.start \cap Range(Loaded) :
         \E i \in DOMAIN call.called : \A j \in DOMAIN call.called : call.called[j] = m <=> j = i
==============================================================================
