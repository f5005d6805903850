------------------------------- MODULE Config --------------------------------
(***************************************************************************)
(* znc.conf and the main loop (src/src/znc.cpp, src/src/main.cpp): who asks *)
(* for a save or a rehash and when it happens, the steps of WriteConfig, a  *)
(* crash between any two of them, restarts, the deferred deletion of users. *)
(*                                                                         *)
(* The thread that handles signals only stores a request in the one slot   *)
(* m_eConfigState, at any moment; everything else runs in the main thread. *)
(* What a user's section holds is the business of Settings; here it is the  *)
(* ghost owed that tells whether it differs from what the file holds.      *)
(***************************************************************************)
EXTENDS FiniteSets

CONSTANTS Admins, Others,   \* users
          Listeners,
          Signals,          \* those that ZNC may get
          NoFile, Partial   \* a file that does not exist, or is not complete

ASSUME SignalsAssumption == Signals \subseteq {"SIGHUP", "SIGUSR1", "SIGTERM"}

Users == Admins \cup Others

\* The configuration that ZNC is first started with (--makeconf) has a user and a listener.
ASSUME FreshAssumption == Users # {} /\ Listeners # {}

VARIABLES pc,        \* where the main thread is
          ret,       \* where WriteConfig returns to
          eState,    \* Loop's copy of the request
          slot,      \* m_eConfigState
          timer,     \* whether m_pConfigTimer exists
          mem,       \* what is in memory
          doomed,    \* m_msDelUsers
          disk, tmp, \* znc.conf and znc.conf~
          owed,      \* ghost: a delayed save was asked for and has not happened
          disturbed, \* ghost: since then a signal came or a file operation failed
          spoiled    \* ghost: ZNC was brought into a state it cannot start from

fileVars == <<disk, tmp>>
ghosts == <<owed, disturbed, spoiled>>
vars == <<pc, ret, eState, slot, timer, mem, doomed, fileVars, ghosts>>

Content == [users : SUBSET Users, listeners : SUBSET Listeners, prefix : {"valid", "bad"}]
States == {"NOTHING", "NEED_REHASH", "NEED_WRITE", "NEED_VERBOSE_WRITE", "DELAYED_WRITE", "NEED_QUIT"}

\* What the handler of a signal stores.
SignalState == [SIGHUP |-> "NEED_REHASH", SIGUSR1 |-> "NEED_VERBOSE_WRITE", SIGTERM |-> "NEED_QUIT"]

Fresh == [users |-> Users, listeners |-> Listeners, prefix |-> "valid"]

Init == /\ pc = "top" /\ ret = "top" /\ eState = "NOTHING" /\ slot = "NOTHING" /\ timer = FALSE
        /\ mem = Fresh /\ doomed = {} /\ disk = Fresh /\ tmp = NoFile
        /\ owed = FALSE /\ disturbed = FALSE /\ spoiled = FALSE

\* A state of memory that a restart would not accept is a spoiled one.
Unusable(m) == m.users = {} \/ m.listeners = {} \/ m.prefix = "bad"
InMemory(m) == mem' = m /\ spoiled' = (spoiled \/ Unusable(m))
-----------------------------------------------------------------------------
(* Start and end of the process *)

\* ReadConfig, LoadGlobal, LoadListeners and LoadUsers accept the file.
Accepts(c) == c \in Content /\ ~Unusable(c)

Start == /\ pc = "down" /\ Accepts(disk)
         /\ pc' = "top" /\ mem' = disk
         /\ UNCHANGED <<ret, eState, slot, timer, doomed, fileVars, ghosts>>

\* The process ends, by QUIT, an exception or a crash: what was in memory is gone.
Down == /\ pc' = "down" /\ slot' = "NOTHING" /\ timer' = FALSE /\ doomed' = {}
        /\ mem' = Fresh /\ eState' = "NOTHING" /\ ret' = "top"
        /\ owed' = FALSE /\ disturbed' = FALSE /\ UNCHANGED spoiled

Crash == pc # "down" /\ Down /\ UNCHANGED fileVars

\* CSignalHandler::HandleSignals
Signal == /\ pc # "down"
          /\ \E s \in Signals : slot' = SignalState[s]
          /\ disturbed' = owed
          /\ UNCHANGED <<pc, ret, eState, timer, mem, doomed, fileVars, owed, spoiled>>
-----------------------------------------------------------------------------
(* CZNC::Loop *)

GetConfigState == /\ pc = "top" /\ eState' = slot /\ pc' = "act"
                  /\ UNCHANGED <<ret, slot, timer, mem, doomed, fileVars, ghosts>>

\* LoadGlobal: modules may fail to load before anything is changed; LoadListeners
\* closes all listeners, and a port may not be available any more.
RehashConfig == \/ InMemory(mem)
                \/ \E L \in SUBSET disk.listeners :
                     InMemory([mem EXCEPT !.prefix = disk.prefix, !.listeners = L])

\* The switch of Loop.  The request is taken out of the slot after it was read.  A
\* delayed write is a write at once when ConfigWriteDelay is 0.
ActNothing == /\ pc = "act" /\ eState = "NOTHING" /\ pc' = "del"
              /\ UNCHANGED <<ret, eState, slot, timer, mem, doomed, fileVars, ghosts>>
ActRehash == /\ pc = "act" /\ eState = "NEED_REHASH" /\ slot' = "NOTHING" /\ eState' = "NOTHING"
             /\ RehashConfig /\ pc' = "del"
             /\ UNCHANGED <<ret, timer, doomed, fileVars, owed, disturbed>>
\* Slip: a second request while the timer runs stops it.
ActDelayedStopping == /\ pc = "act" /\ eState = "DELAYED_WRITE" /\ slot' = "NOTHING" /\ eState' = "NOTHING"
                      /\ timer' = ~timer /\ pc' = "del"
                      /\ UNCHANGED <<ret, mem, doomed, fileVars, ghosts>>
ActDelayed == /\ pc = "act" /\ eState = "DELAYED_WRITE" /\ slot' = "NOTHING" /\ eState' = "NOTHING"
              /\ timer' = TRUE /\ pc' = "del"
              /\ UNCHANGED <<ret, mem, doomed, fileVars, ghosts>>
ActWrite == /\ pc = "act" /\ eState \in {"NEED_WRITE", "NEED_VERBOSE_WRITE", "DELAYED_WRITE"}
            /\ slot' = "NOTHING" /\ eState' = "NOTHING" /\ timer' = FALSE /\ pc' = "open" /\ ret' = "del"
            /\ UNCHANGED <<mem, doomed, fileVars, ghosts>>
ActQuit == pc = "act" /\ eState = "NEED_QUIT" /\ Down /\ UNCHANGED fileVars

\* HandleUserDeletion: a module may refuse.  The config is written afterwards.
HandleUserDeletion ==
  /\ pc = "del"
  /\ IF doomed = {} THEN pc' = "select" /\ UNCHANGED <<ret, mem, doomed, spoiled>>
     ELSE /\ \E gone \in SUBSET doomed : InMemory([mem EXCEPT !.users = @ \ gone])
          /\ doomed' = {} /\ pc' = "open" /\ ret' = "select"
  /\ UNCHANGED <<eState, slot, timer, fileVars, owed, disturbed>>
-----------------------------------------------------------------------------
(* CZNC::WriteConfig *)

WriteFails(step) == /\ pc = step /\ tmp' = NoFile /\ disturbed' = owed
                    /\ pc' = IF ret = "exit" THEN "select" ELSE ret
                    /\ UNCHANGED <<ret, eState, slot, timer, mem, doomed, disk, owed, spoiled>>

OpenTemp == /\ pc = "open" /\ tmp' = Partial /\ pc' = "write"
            /\ UNCHANGED <<ret, eState, slot, timer, mem, doomed, disk, ghosts>>

WriteTemp == /\ pc = "write" /\ tmp' = mem /\ pc' = "move"
             /\ UNCHANGED <<ret, eState, slot, timer, mem, doomed, disk, ghosts>>

\* With "exit" the command Shutdown or Restart was waiting for the save.
Saved == /\ tmp' = NoFile
         /\ IF ret = "exit" THEN Down
            ELSE /\ pc' = ret /\ owed' = FALSE /\ disturbed' = FALSE
                 /\ UNCHANGED <<ret, eState, slot, timer, mem, doomed, spoiled>>
\* Slip: the temporary file may not be complete when it replaces znc.conf.
MoveTempUnsynced == pc = "move" /\ disk' \in {tmp, Partial} /\ Saved
MoveTemp == pc = "move" /\ disk' = tmp /\ Saved

ForcedExit == pc = "select" /\ ret = "exit" /\ Down /\ UNCHANGED fileVars
-----------------------------------------------------------------------------
(* DynamicSelectLoop: events of sockets and timers, any number in a round *)

InSelect == pc = "select" /\ UNCHANGED <<eState, fileVars>>
Stays == pc' = pc /\ UNCHANGED ret
\* Handlers of webadmin save before they answer, commands do not.
Saves == pc' = "open" /\ ret' = "select"
Quietly == UNCHANGED <<slot, timer, owed, disturbed>>

LeaveSelect == /\ InSelect /\ pc' = "top" /\ ret' = "top"
               /\ UNCHANGED <<slot, timer, mem, doomed, ghosts>>

\* CConfigWriteTimer::RunJob
TimerFires == /\ InSelect /\ Stays /\ timer /\ timer' = FALSE /\ slot' = "NEED_WRITE"
              /\ UNCHANGED <<mem, doomed, ghosts>>

\* CChan::SetInConfig
SetInConfig == /\ InSelect /\ Stays
               /\ slot' = "DELAYED_WRITE" /\ owed' = TRUE /\ disturbed' = FALSE
               /\ UNCHANGED <<timer, mem, doomed, spoiled>>

\* controlpanel's DelUser and webadmin's deluser: not oneself.
DeleteUser == /\ InSelect /\ Stays /\ Quietly
              /\ \E a \in mem.users \cap Admins : \E u \in mem.users \ {a} : doomed' = doomed \cup {u}
              /\ UNCHANGED <<mem, spoiled>>

\* CZNC::AddUser, from controlpanel or webadmin; a module may refuse.
AddUser == /\ InSelect /\ Quietly /\ (Stays \/ Saves)
           /\ mem.users \cap Admins # {}
           /\ \E u \in Users \ mem.users : mem' = [mem EXCEPT !.users = @ \cup {u}]
           /\ UNCHANGED <<doomed, spoiled>>

\* webadmin's SettingsPage: the prefix of CZNC is not checked.
SettingsPage == /\ InSelect /\ Quietly /\ Saves /\ mem.users \cap Admins # {}
                /\ \E p \in {"valid", "bad"} : InMemory([mem EXCEPT !.prefix = p])
                /\ UNCHANGED doomed

\* AddPort and DelPort of *status, add_listener and del_listener of webadmin.
ChangeListeners == /\ InSelect /\ Quietly /\ (Stays \/ Saves) /\ mem.users \cap Admins # {}
                   /\ \E l \in Listeners : InMemory([mem EXCEPT !.listeners =
                                             IF l \in @ THEN @ \ {l} ELSE @ \cup {l}])
                   /\ UNCHANGED doomed

\* The commands SaveConfig, Rehash, Shutdown and Restart.
SaveConfig == /\ InSelect /\ Quietly /\ Saves /\ mem.users \cap Admins # {}
              /\ UNCHANGED <<mem, doomed, spoiled>>
RehashCommand == /\ InSelect /\ Quietly /\ Stays /\ mem.users \cap Admins # {}
                 /\ RehashConfig /\ UNCHANGED doomed
Shutdown == /\ InSelect /\ Quietly /\ pc' = "open" /\ ret' = "exit" /\ mem.users \cap Admins # {}
            /\ UNCHANGED <<mem, doomed, spoiled>>

Events == \/ TimerFires \/ SetInConfig \/ DeleteUser \/ AddUser \/ SettingsPage \/ ChangeListeners
          \/ SaveConfig \/ RehashCommand \/ Shutdown \/ ForcedExit
LoopStep == \/ GetConfigState \/ ActNothing \/ ActRehash \/ ActDelayed \/ ActWrite \/ ActQuit
            \/ HandleUserDeletion \/ OpenTemp \/ WriteTemp \/ MoveTemp \/ LeaveSelect
Next == \/ LoopStep \/ Events \/ Start \/ Crash \/ Signal
        \/ \E step \in {"open", "write", "move"} : WriteFails(step)

Spec == Init /\ [][Next]_vars

\* The main thread goes on, and a timer that exists fires.
FairSpec == Spec /\ WF_vars(LoopStep) /\ SF_vars(TimerFires)
-----------------------------------------------------------------------------
TypeOK == /\ pc \in {"down", "top", "act", "del", "select", "open", "write", "move"}
          /\ ret \in {"top", "del", "select", "exit"} /\ eState \in States /\ slot \in States
          /\ timer \in BOOLEAN /\ mem \in Content /\ doomed \subseteq Users
          /\ disk \in Content \cup {Partial} /\ tmp \in Content \cup {Partial, NoFile}

\* Whenever ZNC dies, it can start again: znc.conf is complete and accepted, unless
\* it was made unusable while ZNC ran (no listener left after a rehash or by command,
\* the last users deleted, a global StatusPrefix that LoadUsers refuses).
Loadable == spoiled \/ Accepts(disk)

\* A save that CChan::SetInConfig asked for happens although it is delayed, unless a
\* signal takes the slot or writing fails.  Only requests that keep coming can put it
\* off: one that comes in the round in which the timer fired replaces NEED_WRITE by
\* another delay.
SaveHappens == <>[](owed /\ ~disturbed) => []<>(slot = "DELAYED_WRITE")
=============================================================================
