----------------------------- MODULE SettingLife ------------------------------
(***************************************************************************)
(* The life of one setting: an admin and the user himself change it, ZNC   *)
(* saves and restarts, the user is cloned.  Settings do not depend on each *)
(* other, except for the global status prefix and the flag that guards a   *)
(* setting, so a behaviour follows one of them, chosen at the start.       *)
(***************************************************************************)
EXTENDS Settings

VARIABLES key,     \* the setting
          mem,     \* its value in memory
          deny,    \* the Deny flag of the user that guards it
          prefix,  \* m_sStatusPrefix of CZNC
          file,    \* what znc.conf holds: the setting's lines and the prefix
          saved,   \* ghost: what was in force when the file was written, and whether
                   \* it can differ after a restart because of an oversized default
          by       \* ghost: who took the last step

vars == <<key, mem, deny, prefix, file, saved, by>>

\* An inherited size above the limit: ResetBufferCount could not apply it.
Oversized(k, m) == k = "ChanBufferSize" /\ ~m.set /\ m.own # m.user

Init == /\ key \in Keys /\ mem = NewSetting(key) /\ deny = FALSE /\ prefix = "def"
        /\ file = [lines |-> Written(key, mem, prefix), prefix |-> prefix]
        /\ saved = [value |-> Effective(key, mem), over |-> FALSE] /\ by = "znc"

\* What the commands of the one who asks make of the setting with the value v.
Changed(v, admin) ==
  UNION {IF key \in UserKeys THEN {PanelSetUser(key, mem, v, admin, deny),
                                   CommandUser(key, mem, v, deny /\ ~admin)} ELSE {},
         IF key \in NetworkKeys THEN {PanelSetNetwork(key, mem, v, admin, deny),
                                      CommandNetwork(key, mem, v, deny /\ ~admin)} ELSE {},
         IF key \in ChanKeys THEN {PanelSetChan(key, mem, v, admin), CommandChan(key, mem, v)} ELSE {}}

\* What the forms of webadmin make of it.
Submitted(p, admin) ==
  UNION {IF key \in UserKeys THEN {WebSetUser(key, mem, p, admin, deny)} ELSE {},
         IF key \in NetworkKeys THEN {WebSetNetwork(key, mem, p, admin, deny, r) : r \in BOOLEAN} ELSE {},
         IF key \in ChanKeys THEN {WebSetChan(key, mem, p, admin), ChanCloned(key, mem, mem.user)} ELSE {}}

\* WriteConfig with m in memory.
Saved(m) == /\ file' = [lines |-> Written(key, m, prefix), prefix |-> prefix]
            /\ saved' = [value |-> Effective(key, m), over |-> Oversized(key, m)]

\* A command: nothing is saved.
Change(admin) == /\ \E v \in Inputs(key) : mem' \in Changed(v, admin)
                 /\ by' = IF admin THEN "admin" ELSE "self"
                 /\ UNCHANGED <<key, deny, prefix, file, saved>>

\* A form: webadmin saves at once.
Submit(admin) == /\ \E p \in Inputs(key) : \E m \in Submitted(p, admin) : mem' = m /\ Saved(m)
                 /\ by' = IF admin THEN "admin" ELSE "self"
                 /\ UNCHANGED <<key, deny, prefix>>

\* An admin sets or clears the Deny flag that guards the setting.
SetDeny == /\ key \in Guarded /\ deny' = ~deny /\ by' = "admin"
           /\ UNCHANGED <<key, mem, prefix, file, saved>>

\* SettingsPage: a new global prefix, then WriteConfig.  SetStatusPrefix of CZNC
\* turns "empty" into the default and takes anything else.
SetGlobalPrefix == /\ key = "StatusPrefix"
                   /\ \E p \in {"def", "a"} :
                        /\ prefix' = p
                        /\ file' = [lines |-> Written(key, mem, p), prefix |-> p]
                   /\ saved' = [value |-> Effective(key, mem), over |-> FALSE] /\ by' = "admin"
                   /\ UNCHANGED <<key, mem, deny>>

Save == Saved(mem) /\ by' = "znc" /\ UNCHANGED <<key, mem, deny, prefix>>

\* ZNC stops, in whatever way, and reads the file again.
Restart == /\ mem' = Parsed(key, file.lines, file.prefix) /\ prefix' = file.prefix
           /\ by' = "restart" /\ UNCHANGED <<key, deny, file, saved>>

Next == \/ \E admin \in BOOLEAN : Change(admin) \/ Submit(admin)
        \/ SetDeny \/ SetGlobalPrefix \/ Save \/ Restart

Spec == Init /\ [][Next]_vars
-----------------------------------------------------------------------------
TypeOK == /\ key \in Keys /\ mem \in Settings /\ deny \in BOOLEAN /\ prefix \in {"def", "a"}
          /\ by \in {"znc", "admin", "self", "restart"}

\* After a restart every setting has the value it had when the configuration was
\* last written, whatever path gave it that value (CUser, CIRCNetwork and CChan:
\* ToConfig and ParseConfig).  Three things get lost, and nothing else: the case of
\* a network's value that only differs in case from the user's, decimals of
\* FloodRate, and the size of a channel's buffer that ResetBufferCount could not
\* set to the user's.
SurvivesRestart ==
  by = "restart" => \/ Same(Effective(key, mem), saved.value)
                    \/ key = "FloodRate" /\ saved.value = "fine"
                    \/ saved.over

\* A clone of the user (controlpanel's CloneUser; webadmin's rename of a network)
\* has the same settings in force, except that certificates are trusted as in a new
\* network and that no channel is disabled.
CloneKeeps ==
  key \notin {"TrustAllCerts", "TrustPKI", "Disabled"} =>
    Same(Effective(key, Cloned(key, mem)), Effective(key, mem))

\* No command and no form of a user who is not an admin changes what is reserved to
\* admins, or what a Deny flag of his guards, or exceeds the limit of buffers; the
\* form of webadmin erases CTCP replies that he may not set.
DenyHolds ==
  [][by' = "self" =>
       /\ key \in AdminOnly => mem' = mem
       /\ key \in Guarded /\ deny => \/ Same(Effective(key, mem'), Effective(key, mem))
                                     \/ key = "CTCPReply" /\ mem'.user = "empty"
       /\ key \in BufferSizes /\ mem'.user = "big" => mem.user = "big"]_vars
=============================================================================
