------------------------------ MODULE MCDaemon -------------------------------
(***************************************************************************)
(* An instance of the main loop with the configuration file (Config) and    *)
(* of the login of a client (ClientLogin).  They share no state: in a       *)
(* behaviour one of them moves, and the other stays in an initial state.    *)
(***************************************************************************)
EXTENDS Config, Integers

CONSTANTS User, Nobody, Networks, Mods, AllowedFailed, MaxConns, MaxLines, MaxFails

VARIABLES part,
          mod, exists, nets, blocked, attempts, client, listed, pending, lines, conns, superseded,
          late, wild

Cl == INSTANCE ClientLogin

ASSUME LoginAssumption ==
  /\ MaxConns \in Nat /\ MaxLines \in Nat /\ MaxFails \in Nat
  /\ Cl!None \notin Networks \cup {User}
  /\ Mods \subseteq {"imapauth", "cyrusauth", "certauth", "blockuser", "fail2ban"}

clVars == <<mod, exists, nets, blocked, attempts, client, listed, pending, lines, conns, superseded,
            late, wild>>

PartsInit == /\ part \in {"config", "login"}
             /\ Init
             /\ Cl!Init /\ (part # "login" => mod = "imapauth")

PartsNext == \/ part = "config" /\ Next /\ UNCHANGED <<part, clVars>>
             \/ part = "login" /\ Cl!Next /\ UNCHANGED <<part, vars>>

PartsFairness ==
  /\ WF_vars(part = "config" /\ LoopStep) /\ SF_vars(part = "config" /\ TimerFires)
  /\ WF_clVars(part = "login" /\ Cl!Answer)
  /\ WF_clVars(part = "login" /\ client.phase = "closing" /\ Cl!Closed)

PartsSpec == PartsInit /\ [][PartsNext]_<<part, vars, clVars>> /\ PartsFairness
-----------------------------------------------------------------------------
\* The client's pointers, the lists that hold it and the authentications that are under
\* way fit together, whatever is deleted meanwhile (CClient, CAuthBase).
Consistent == /\ part = "config" => TypeOK
              /\ part = "login" => Cl!TypeOK /\ Cl!Consistent

\* A login that has all it needs is accepted or refused in the end.
LoginCompletes == Cl!LoginCompletes
=============================================================================
