------------------------------ MODULE AwayStore -------------------------------
(***************************************************************************)
(* awaystore: sets the user away when idle or detached, collects the       *)
(* messages that come meanwhile, and keeps them in an encrypted file.      *)
(* src/modules/awaystore.cpp.                                              *)
(*                                                                         *)
(* The file is the key it was encrypted with and the messages; a file of   *)
(* another key does not start with the verification token, nor does one    *)
(* that was cut ("torn").  A message is "text", or "empty" when it has no   *)
(* words after the sender.                                                 *)
(***************************************************************************)
EXTENDS Naturals, Sequences, SequencesExt, FiniteSets

CONSTANTS MaxMessages   \* bound: messages in the buffer

VARIABLES irc,          \* "none", "registering" or "connected"
          clients,      \* a client is attached
          server,       \* the server has the user as away
          m,            \* the module's members
          file,         \* [key, msgs], with key "none" for no file or an empty one
          idle,         \* m_iLastSentData is longer ago than m_iAutoAway
          kept,         \* ghost: the messages that came while away and were not deleted
          foreign       \* ghost: someone else than the module told the server last

vars == <<irc, clients, server, m, file, idle, kept, foreign>>
world == <<irc, clients>>
ghosts == <<kept, foreign>>

\* Keys: MD5 of a phrase, or what the command Pass took as it is.
Phrases == {"md5a", "md5b"}
NoFile == [key |-> "none", msgs |-> <<>>]
Gone == [loaded |-> FALSE, away |-> FALSE, pass |-> "none", save |-> TRUE, chans |-> FALSE,
         auto |-> TRUE, msgs |-> <<>>]

Init == /\ irc = "none" /\ clients = FALSE /\ server = FALSE /\ m = Gone /\ file = NoFile
        /\ idle = FALSE /\ kept = <<>> /\ foreign = FALSE

\* PutIRC: dropped without a connection, refused before the 001.
Put(away) == IF irc' = "connected" THEN server' = away /\ foreign' = FALSE
             ELSE UNCHANGED <<server, foreign>>

\* Away(bForce) and Back; both leave the buffer alone.
Away(force) == IF ~m.away \/ force THEN m' = [m EXCEPT !.away = TRUE] /\ Put(TRUE)
               ELSE UNCHANGED <<m, server, foreign>>
Back == m' = [m EXCEPT !.away = FALSE] /\ Put(FALSE)

\* Mutant: an empty buffer is not written.
SaveBufferToDiskUnlessEmpty(x) ==
  IF x.pass = "none" \/ x.msgs = <<>> THEN file ELSE [key |-> x.pass, msgs |-> x.msgs]
SaveBufferToDisk(x) == IF x.pass = "none" THEN file ELSE [key |-> x.pass, msgs |-> x.msgs]

\* The file is not opened, or it is truncated and the write fails: what is left of it has
\* some of the messages, or not even the token.  SaveBufferToDisk does not tell.
FailedSave(x) ==
  IF x.pass = "none" THEN {}
  ELSE {file, NoFile, [key |-> "torn", msgs |-> <<>>]}
         \cup {[key |-> x.pass, msgs |-> SubSeq(x.msgs, 1, n)] : n \in 0..Len(x.msgs)}
Save(x) == file' = SaveBufferToDisk(x) \/ file' \in FailedSave(x)

\* DecryptMessages: the token must be right, but what can not be opened or read counts
\* as no file, and no file is a success with no messages.
DecryptMessages(pass) == file.key \in {"none", pass}
Unreadable == file.key # "none"
-----------------------------------------------------------------------------
\* A module that can not decrypt the file is not loaded and does not write it.
OnLoad ==
  /\ ~m.loaded
  /\ \E store, chans, auto \in BOOLEAN, p \in Phrases :
       LET x == [Gone EXCEPT !.loaded = TRUE, !.save = store, !.chans = chans, !.auto = auto]
       IN  \/ /\ UNCHANGED kept
              /\ IF ~store THEN m' = x
                 ELSE IF DecryptMessages(p) THEN m' = [x EXCEPT !.pass = p, !.msgs = file.msgs]
                 ELSE UNCHANGED m
           \/ store /\ Unreadable /\ m' = [x EXCEPT !.pass = p] /\ kept' = <<>>
  /\ idle' = FALSE
  /\ UNCHANGED <<world, server, file, foreign>>

\* Pass made a module that stores nothing write the file, or one that stores not write it.
Repassed(x) == x.save # (x.pass # "none")
\* ~CAway, which saves; the server keeps what it was told.
Destroy == /\ m.loaded /\ m' = Gone /\ foreign' = server
           /\ \/ file' = SaveBufferToDisk(m) /\ kept' = IF Repassed(m) THEN file'.msgs ELSE kept
              \/ file' \in FailedSave(m) /\ kept' = file'.msgs
           /\ UNCHANGED <<world, server, idle>>

\* ZNC dies: what is not in the file is lost, which may be all of it while it is written.
Die == /\ m.loaded /\ m' = Gone /\ irc' = "none" /\ clients' = FALSE /\ server' = FALSE
       /\ foreign' = FALSE /\ idle' = FALSE
       /\ file' \in {file} \cup FailedSave(m) /\ kept' = file'.msgs

\* AddMessage.
AddMessage(t) == IF m.away /\ m.save
                 THEN m' = [m EXCEPT !.msgs = Append(@, t)] /\ kept' = Append(kept, t)
                 ELSE UNCHANGED <<m, kept>>
\* OnPrivMsg, OnPrivAction, and OnChanMsg with -chans and the nick in it, not from self.
OnMsg == /\ m.loaded /\ irc = "connected" /\ Len(m.msgs) < MaxMessages
         /\ \/ \E t \in {"text", "empty"} : AddMessage(t)
            \/ m.chans /\ AddMessage("text")
         /\ UNCHANGED <<world, server, file, idle, foreign>>

\* OnUserMsg, OnUserNotice, OnUserAction and the command Ping.
OnUser == /\ m.loaded /\ clients /\ idle' = FALSE /\ UNCHANGED <<world, file, kept>>
          /\ IF m.away THEN Back ELSE UNCHANGED <<m, server, foreign>>

AwayCommand == /\ m.loaded /\ clients /\ UNCHANGED <<world, file, idle, kept>> /\ Away(FALSE)
\* Also the command Messages.
BackCommand == /\ m.loaded /\ clients /\ idle' = FALSE /\ UNCHANGED <<world, file, kept>>
               /\ Back

\* Delete: all of them, or one, after which the file is written.
DeleteCommand ==
  /\ m.loaded /\ clients
  /\ \/ m' = [m EXCEPT !.msgs = <<>>] /\ UNCHANGED file
     \/ \E i \in DOMAIN m.msgs :
          m' = [m EXCEPT !.msgs = RemoveAt(@, i)] /\ Save(m')
  /\ kept' = IF m.save THEN m'.msgs ELSE kept
  /\ UNCHANGED <<world, server, idle, foreign>>
\* Show drops what it can not read.
ShowCommand ==
  /\ m.loaded /\ clients
  /\ m' = [m EXCEPT !.msgs = [i \in 1..Cardinality({j \in DOMAIN @ : @[j] = "text"}) |-> "text"]]
  /\ kept' = IF m.save THEN m'.msgs ELSE kept
  /\ UNCHANGED <<world, server, file, idle, foreign>>
SaveCommand == /\ m.loaded /\ clients /\ m.save /\ Save(m)
               /\ UNCHANGED <<world, server, m, idle, ghosts>>
\* The new password is not hashed as the one of OnLoad is: no argument opens the file.
\* Without one nothing is saved; with one also a module that stores nothing writes.
PassCommand == /\ m.loaded /\ clients /\ \E p \in {"plain", "none"} : m' = [m EXCEPT !.pass = p]
               /\ kept' = IF m.save THEN kept ELSE file.msgs
               /\ UNCHANGED <<world, server, file, idle, foreign>>
SetAwayTime == /\ m.loaded /\ clients /\ \E on \in BOOLEAN : m' = [m EXCEPT !.auto = on]
               /\ UNCHANGED <<world, server, file, idle, ghosts>>

\* Every minute.
RunJob == /\ m.loaded /\ Save(m) /\ UNCHANGED <<world, idle, kept>>
          /\ IF idle /\ m.auto THEN Away(FALSE) ELSE UNCHANGED <<m, server, foreign>>
Idle == /\ ~idle /\ m.loaded /\ idle' = TRUE /\ UNCHANGED <<world, server, m, file, ghosts>>
-----------------------------------------------------------------------------
Hook(A) == IF m.loaded THEN A ELSE UNCHANGED <<m, server, foreign>>

Connect == /\ irc = "none" /\ irc' = "registering" /\ server' = FALSE /\ foreign' = FALSE
           /\ UNCHANGED <<clients, m, file, idle, kept>>
OnIRCConnected == /\ irc = "registering" /\ irc' = "connected"
                  /\ Hook(IF m.away THEN Away(TRUE) ELSE Back)
                  /\ UNCHANGED <<clients, file, idle, kept>>
Disconnect == /\ irc # "none" /\ irc' = "none" /\ server' = FALSE /\ foreign' = FALSE
              /\ UNCHANGED <<clients, m, file, idle, kept>>
OnClientLogin == /\ clients' = TRUE /\ UNCHANGED irc /\ Hook(Back)
                 /\ UNCHANGED <<file, idle, kept>>
OnClientDisconnect == /\ clients /\ clients' \in BOOLEAN /\ UNCHANGED irc /\ Hook(Away(FALSE))
                      /\ UNCHANGED <<file, idle, kept>>
\* JUMPNETWORK to another network or from there calls neither hook.
ClientJumps == /\ clients' = ~clients
               /\ UNCHANGED <<irc, server, m, file, idle, kept, foreign>>
\* A client's own AWAY passes the module by.
ClientAway == /\ clients /\ irc = "connected" /\ server' \in BOOLEAN /\ foreign' = TRUE
              /\ UNCHANGED <<world, m, file, idle, kept>>

Next == \/ OnLoad \/ Destroy \/ Die \/ OnMsg \/ OnUser \/ AwayCommand \/ BackCommand
        \/ DeleteCommand \/ ShowCommand \/ SaveCommand \/ PassCommand \/ SetAwayTime
        \/ RunJob \/ Idle \/ Connect \/ OnIRCConnected \/ Disconnect \/ OnClientLogin
        \/ OnClientDisconnect \/ ClientJumps \/ ClientAway

Spec == Init /\ [][Next]_vars
-----------------------------------------------------------------------------
TypeOK == /\ irc \in {"none", "registering", "connected"} /\ m.pass \in Phrases \cup {"none", "plain"}
          /\ Len(m.msgs) <= MaxMessages /\ Len(file.msgs) <= MaxMessages

\* Whatever keys a load was tried with, however often the module came and went, and
\* whichever saves failed in between, the messages that came while the user was away and
\* were not deleted are in the buffer, and in the file when the module is not loaded; a
\* deleted one does not come back.  Three things may lose them: a file that can not be
\* read at a load, one that can not be written at an unload or that Pass made be written
\* or not, and a death of ZNC; then this goes on with what is left.
\* And the server has the away state the module has, unless a client set its own.
MessagesKept ==
  /\ m.loaded /\ m.save => m.msgs = kept
  /\ ~m.loaded => file.msgs = kept
  /\ m.loaded /\ irc = "connected" /\ ~foreign => m.away = server
=============================================================================
