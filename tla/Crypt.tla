-------------------------------- MODULE Crypt ---------------------------------
(***************************************************************************)
(* crypt: two users who both run the module agree on a key (DH1080) and    *)
(* encrypt what they send each other.  src/modules/crypt.cpp.              *)
(*                                                                         *)
(* A pair of DH keys is the number of its generation; the secret two of    *)
(* them give is the set of both, each with its owner.  The server delivers *)
(* what one user sends the other in order; what is sent while the other    *)
(* ZNC is down is lost.                                                    *)
(***************************************************************************)
EXTENDS Naturals, Sequences

CONSTANTS Users,       \* two of them
          MaxKeys,     \* bound: pairs of DH keys of a user
          MaxWire      \* bound: messages on the way to a user, and one answer more

ASSUME UsersAssumption == \E a, b \in Users : a # b /\ Users = {a, b}
ASSUME BoundsAssumption == MaxKeys \in Nat /\ MaxWire \in Nat

VARIABLES dh,          \* m_sPrivKey and m_sPubKey: 0 before the first exchange
          made,        \* pairs made so far
          nv,          \* the key stored for the other's nick, or NoKey
          wire,        \* messages on the way to each user
          upset,       \* ghost: an exchange was cut short, or a key set by hand
          rekeyed,     \* ghost: a key was replaced by another one
          garbled      \* ghost: a message was decrypted with another key, or not at all

vars == <<dh, made, nv, wire, upset, rekeyed, garbled>>
ghosts == <<upset, rekeyed, garbled>>

NoKey == {}
Other(u) == CHOOSE v \in Users : v # u

Init == /\ dh = [u \in Users |-> 0] /\ made = dh /\ nv = [u \in Users |-> NoKey]
        /\ wire = [u \in Users |-> <<>>]
        /\ upset = FALSE /\ rekeyed = FALSE /\ garbled = FALSE

Msg(kind, data) == [kind |-> kind, data |-> data]
IsDH(m) == m.kind \in {"DH1080_INIT", "DH1080_FINISH"}

\* Mutant: a new pair for every exchange.
DH1080_genAnew(u) == IF made[u] < MaxKeys THEN made[u] + 1 ELSE dh[u]
\* A pair is made once and used again.
DH1080_gen(u) == IF dh[u] = 0 THEN made[u] + 1 ELSE dh[u]
DH1080_comp(u, pub) == {<<u, dh'[u]>>, pub}

Generated(u) == /\ DH1080_gen(u) <= MaxKeys
                /\ dh' = [dh EXCEPT ![u] = DH1080_gen(u)]
                /\ made' = [made EXCEPT ![u] = IF dh'[u] > @ THEN dh'[u] ELSE @]

\* SetNV of the other's nick.
SetKey(u, k) == /\ nv' = [nv EXCEPT ![u] = k]
                /\ rekeyed' = (rekeyed \/ nv[u] \notin {NoKey, k})
-----------------------------------------------------------------------------
\* KeyX
OnKeyXCommand == \E u \in Users :
  /\ Len(wire[Other(u)]) < MaxWire /\ Generated(u)
  /\ wire' = [wire EXCEPT ![Other(u)] = Append(@, Msg("DH1080_INIT", <<u, dh'[u]>>))]
  /\ UNCHANGED <<nv, ghosts>>

\* OnPrivNoticeMessage: INIT is answered with our public key, both set the key.
OnInit(u) ==
  LET m == Head(wire[u])
  IN  /\ m.kind = "DH1080_INIT" /\ Len(wire[Other(u)]) <= MaxWire /\ Generated(u)
      /\ wire' = [wire EXCEPT ![u] = Tail(@),
                              ![Other(u)] = Append(@, Msg("DH1080_FINISH", <<u, dh'[u]>>))]
      /\ SetKey(u, DH1080_comp(u, m.data)) /\ UNCHANGED <<upset, garbled>>
OnFinish(u) ==
  LET m == Head(wire[u])
  IN  /\ m.kind = "DH1080_FINISH" /\ Generated(u) /\ wire' = [wire EXCEPT ![u] = Tail(@)]
      /\ SetKey(u, DH1080_comp(u, m.data)) /\ UNCHANGED <<upset, garbled>>

\* FilterOutgoing: encrypted if there is a key, and not when it starts with ``.
FilterOutgoing == \E u \in Users, plain \in BOOLEAN :
  /\ Len(wire[Other(u)]) < MaxWire
  /\ wire' = [wire EXCEPT ![Other(u)] = Append(@, Msg("text", IF plain THEN NoKey ELSE nv[u]))]
  /\ UNCHANGED <<dh, made, nv, ghosts>>

\* FilterIncoming: what is encrypted is decrypted with the key there is.
FilterIncoming(u) ==
  LET m == Head(wire[u])
  IN  /\ m.kind = "text" /\ wire' = [wire EXCEPT ![u] = Tail(@)]
      /\ garbled' = (garbled \/ m.data \notin {NoKey, nv[u]})
      /\ UNCHANGED <<dh, made, nv, upset, rekeyed>>

Deliver == \E u \in Users : /\ wire[u] # <<>>
                            /\ OnInit(u) \/ OnFinish(u) \/ FilterIncoming(u)

\* SetKey and DelKey of the user.
OnSetKeyCommand == \E u \in Users :
  /\ SetKey(u, {<<"by hand", 0>>}) /\ upset' = TRUE /\ UNCHANGED <<dh, made, wire, garbled>>
OnDelKeyCommand == \E u \in Users :
  /\ nv[u] # NoKey /\ nv' = [nv EXCEPT ![u] = NoKey] /\ upset' = TRUE
  /\ UNCHANGED <<dh, made, wire, rekeyed, garbled>>

\* ZNC is started again: the keys of the registry stay, the DH pair is forgotten.  What
\* was on the way to the user is lost.  An exchange that was under way is cut short.
Restart == \E u \in Users :
  /\ dh' = [dh EXCEPT ![u] = 0] /\ wire' = [wire EXCEPT ![u] = <<>>]
  /\ upset' = (upset \/ \E v \in Users : \E i \in DOMAIN wire[v] : IsDH(wire[v][i]))
  /\ UNCHANGED <<made, nv, rekeyed, garbled>>

Next == OnKeyXCommand \/ Deliver \/ FilterOutgoing \/ OnSetKeyCommand \/ OnDelKeyCommand \/ Restart

Spec == Init /\ [][Next]_vars
-----------------------------------------------------------------------------
TypeOK == /\ \A u \in Users : dh[u] \in 0..made[u] /\ Len(wire[u]) <= MaxWire + 1
          /\ made \in [Users -> 0..MaxKeys]

\* When no message of an exchange is on the way both users have the same key, also if
\* both started one at once, several ran, or a ZNC was restarted between them; and as
\* long as keys are not replaced by others every message can be read.
KeysAgree ==
  /\ TypeOK
  /\ ~upset =>
       /\ (\A u \in Users : \A i \in DOMAIN wire[u] : ~IsDH(wire[u][i])) =>
            \A u, v \in Users : nv[u] = nv[v]
       /\ garbled => rekeyed
=============================================================================
