-------------------------------- MODULE MCIrc --------------------------------
(***************************************************************************)
(* An instance of the two parts that answer the IRC server: Channels and    *)
(* ServerCap.  They share no state: in a behaviour one of them moves, and   *)
(* the other stays in an initial state.                                     *)
(***************************************************************************)
EXTENDS ServerCap

CONSTANTS NoChan, Conf, Alt, Stranger, JoinTries, MaxOut, MaxWire, MaxEvents

VARIABLES part,
          members, me, other, namesx, out, wire, connected, nick, chan, keep, sticky, rejoin, events

Ch == INSTANCE Channels

ASSUME NicksAssumption == Conf # Alt /\ Stranger \notin {Conf, Alt}
ASSUME NoChanAssumption == NoChan \notin Ch!CChans
ASSUME BoundsAssumption == {JoinTries, MaxOut, MaxWire, MaxEvents} \subseteq Nat

chVars == <<members, me, other, namesx, out, wire, connected, nick, chan, keep, sticky, rejoin,
            events>>

PartsInit == /\ part \in {"channels", "cap"}
             /\ Ch!Init /\ (part # "channels" => other = Stranger /\ namesx)
             /\ Init /\ (part # "cap" => requireAuth /\ offers = {})

PartsNext == \/ part = "channels" /\ Ch!Next /\ UNCHANGED <<part, vars>>
             \/ part = "cap" /\ Next /\ UNCHANGED <<part, chVars>>

PartsFairness ==
  /\ WF_chVars(part = "channels" /\ Ch!Handled) /\ WF_chVars(part = "channels" /\ Ch!Answered)
  /\ SF_chVars(part = "channels" /\ Ch!KeepNickFires)
  /\ WF_vars(part = "cap" /\ ZncStep) /\ WF_vars(part = "cap" /\ ServerReply)

PartsSpec == PartsInit /\ [][PartsNext]_<<part, vars, chVars>> /\ PartsFairness
-----------------------------------------------------------------------------
\* Channels: what ZNC knows of the channel is what the server would say, also when kicks,
\* parts, modes and nick changes cross ZNC's own lines.
Mirror == Ch!TypeOK /\ Ch!Mirror

\* keepnick gets the configured nick once it stays free, unless the server refuses it.
KeepNickGets == Ch!KeepNickGets

\* ServerCap: every connection is registered in the end, or closed, or lost, provided that
\* the server leaves sasl alone.
NegotiationEnds == part = "cap" => Registers
=============================================================================
