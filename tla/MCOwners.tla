------------------------------ MODULE MCOwners -------------------------------
(***************************************************************************)
(* An instance of the parts in which objects go away while others refer to  *)
(* them: sockets and their owners (Resolver), users and networks            *)
(* (Accounts).  They share no state: in a behaviour one of them moves, and  *)
(* the other stays in its initial state.                                    *)
(***************************************************************************)
EXTENDS Resolver

CONSTANTS Users, Names, Values, MaxNetworks, MaxNets, MaxClients

VARIABLES part,
          users, nets, dying, at, disk, kept, halfway

Ac == INSTANCE Accounts

acVars == <<users, nets, dying, at, disk, kept, halfway>>

PartsInit == part \in {"lookups", "accounts"} /\ Init /\ Ac!Init

\* Nothing more is said once a hook stopped a move in the middle.
Stopped == halfway /\ UNCHANGED <<part, vars, acVars>>

PartsNext == \/ part = "lookups" /\ Next /\ UNCHANGED <<part, acVars>>
             \/ part = "accounts" /\ Ac!Next /\ UNCHANGED <<part, vars>>
             \/ Stopped

\* As in FairSpec: every lookup ends.
PartsFairness == \A k \in Socks, b \in BOOLEAN :
  WF_vars(part = "lookups" /\ ~crashed /\ \E r \in SUBSET Families : JobFinished(k, b, r))

PartsSpec == PartsInit /\ [][PartsNext]_<<part, vars, acVars>> /\ PartsFairness
-----------------------------------------------------------------------------
\* Nothing refers to a user, a network or a registry that was deleted, renamed or moved
\* (CUser, CIRCNetwork, MoveRegistry).
References == /\ part = "lookups" => TypeOK
              /\ part = "accounts" => Ac!Owned
=============================================================================
