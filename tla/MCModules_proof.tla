----------------------------- MODULE MCModules_proof ------------------------------
(***************************************************************************)
(* Proofs about crypt (Crypt) and about the parts MCModules runs side by   *)
(* side: the send queue, route_replies, the away modules, the DCC          *)
(* transfers and autoop.  Each part has an inductive invariant of its own, *)
(* kept by its own actions and by the stutters of the others; TrafficInv   *)
(* is their conjunction and implies TrafficRight.                          *)
(***************************************************************************)
EXTENDS MCModules, Integers, SequenceTheorems, WellFoundedInduction, TLAPS

-----------------------------------------------------------------------------
(* Sequences *)

LEMMA AppendFacts ==
  ASSUME NEW S, NEW s \in Seq(S), NEW e \in S
  PROVE  /\ Append(s, e) \in Seq(S) /\ Len(Append(s, e)) = Len(s) + 1
         /\ DOMAIN Append(s, e) = 1..(Len(s) + 1) /\ DOMAIN s = 1..Len(s) /\ Len(s) \in Nat
         /\ \A i \in 1..Len(s) : Append(s, e)[i] = s[i]
         /\ Append(s, e)[Len(s) + 1] = e
  OBVIOUS

LEMMA TailFacts ==
  ASSUME NEW S, NEW s \in Seq(S), s # <<>>
  PROVE  /\ Tail(s) \in Seq(S) /\ Len(Tail(s)) = Len(s) - 1 /\ Head(s) = s[1] /\ Head(s) \in S
         /\ DOMAIN Tail(s) = 1..(Len(s) - 1) /\ DOMAIN s = 1..Len(s) /\ Len(s) \in Nat \ {0}
         /\ \A i \in 1..(Len(s) - 1) : Tail(s)[i] = s[i + 1]
  OBVIOUS
-----------------------------------------------------------------------------
(* The invariant *)

Pubs == Users \X Nat
Secrets == SUBSET (Pubs \cup {<<"by hand", 0>>})
Messages == [kind : {"DH1080_INIT", "DH1080_FINISH"}, data : Pubs] \cup [kind : {"text"}, data : Secrets]

\* The secret of both users' pairs d.
Secret(d) == {<<u, d[u]>> : u \in Users}

\* An answer is in s, what is on the way to a user.
HasFinish(s) == \E i \in DOMAIN s : s[i].kind = "DH1080_FINISH"

\* What is in s of an exchange names the pair n of its sender v.
Names(s, v, n) == \A i \in DOMAIN s : IsDH(s[i]) => s[i].data = <<v, n>> /\ n # 0

\* A text in s has the key of its sender; the receiver has that key, too, or gets it with
\* an answer in front of the text.
Readable(s, mine, his) == \A i \in DOMAIN s : s[i].kind = "text" /\ s[i].data # {} =>
  /\ s[i].data = his
  /\ mine = his \/ \E j \in 1..(i - 1) : s[j].kind = "DH1080_FINISH"

\* What is on the way of an exchange names the pair that its sender still has.
Fresh(d, w) == \A u \in Users : Names(w[u], Other(u), d[Other(u)])

\* Who answered has the secret of both pairs, as the one who gets the answer will have.
Answered(d, k, w) == \A u \in Users : HasFinish(w[u]) => k[Other(u)] = Secret(d) /\ d[u] # 0

\* While the keys differ an answer is on its way.
Closing(k, w) == \A u \in Users : k[u] # k[Other(u)] => HasFinish(w[u]) \/ HasFinish(w[Other(u)])

\* As long as no key is replaced, two keys are the same and every text can be read.
SameKeys(k) == \A u \in Users : k[u] = {} \/ k[Other(u)] = {} \/ k[u] = k[Other(u)]
AllReadable(k, w) == \A u \in Users : Readable(w[u], k[u], k[Other(u)])

CryptTypes == /\ dh \in [Users -> Nat] /\ made \in [Users -> 0..MaxKeys]
              /\ \A u \in Users : dh[u] <= made[u] /\ Len(wire[u]) <= MaxWire + 1
              /\ nv \in [Users -> Secrets] /\ wire \in [Users -> Seq(Messages)]
              /\ upset \in BOOLEAN /\ rekeyed \in BOOLEAN /\ garbled \in BOOLEAN

\* The inductive invariant of crypt.
CryptInv == /\ CryptTypes
            /\ ~upset => /\ Fresh(dh, wire) /\ Answered(dh, nv, wire) /\ Closing(nv, wire)
                         /\ ~rekeyed => SameKeys(nv) /\ AllReadable(nv, wire) /\ ~garbled

LEMMA OtherFacts ==
  ASSUME NEW u \in Users
  PROVE  /\ Other(u) \in Users /\ Other(u) # u /\ Other(Other(u)) = u
         /\ \A v \in Users : v = u \/ v = Other(u)
<1>1. PICK a, b \in Users : a # b /\ Users = {a, b}  BY UsersAssumption
<1>2. Other(a) = b /\ Other(b) = a  BY <1>1 DEF Other
<1> QED  BY <1>1, <1>2

\* The secret as the code computes it, from its own pair and what the other sent.
LEMMA SecretFacts ==
  ASSUME NEW u \in Users, NEW d \in [Users -> Nat]
  PROVE  /\ {<<u, d[u]>>, <<Other(u), d[Other(u)]>>} = Secret(d)
         /\ Secret(d) \in Secrets /\ Secret(d) # {}
<1>1. \A v \in Users : v = u \/ v = Other(u)  BY OtherFacts
<1>2. Other(u) \in Users  BY OtherFacts
<1>3. {<<u, d[u]>>, <<Other(u), d[Other(u)]>>} = Secret(d)  BY <1>1, <1>2 DEF Secret
<1>4. Secret(d) \in Secrets
  <2>1. \A v \in Users : <<v, d[v]>> \in Users \X Nat  OBVIOUS
  <2> QED  BY <2>1 DEF Secret, Secrets, Pubs
<1>5. <<u, d[u]>> \in Secret(d)  BY DEF Secret
<1> QED  BY <1>3, <1>4, <1>5

\* A new pair of u is not mentioned anywhere.
LEMMA GeneratedKeeps ==
  ASSUME NEW u \in Users, NEW d, NEW e, NEW k, NEW w, Fresh(d, w), Answered(d, k, w),
         e[Other(u)] = d[Other(u)], e[u] # 0, d[u] # 0 => e = d
  PROVE  Fresh(e, w) /\ Answered(e, k, w)
<1>0. /\ Other(u) \in Users /\ Other(u) # u /\ Other(Other(u)) = u
      /\ \A v \in Users : v = u \/ v = Other(u)
  BY OtherFacts
<1>1. CASE d[u] # 0  BY <1>1
<1>2. CASE d[u] = 0
  <2>1. ~HasFinish(w[u])  BY <1>2 DEF Answered
  <2>2. Names(w[Other(u)], u, 0)  BY <1>0, <1>2 DEF Fresh
  <2>3. ~HasFinish(w[Other(u)])  BY <2>2 DEF HasFinish, Names, IsDH
  <2>4. Answered(e, k, w)  BY <1>0, <2>1, <2>3 DEF Answered
  <2>5. Names(w[Other(u)], u, e[u])  BY <2>2 DEF Names
  <2>6. Names(w[u], Other(u), e[Other(u)])  BY DEF Fresh
  <2>7. Fresh(e, w)  BY <1>0, <2>5, <2>6 DEF Fresh
  <2> QED  BY <2>4, <2>7
<1> QED  BY <1>1, <1>2

LEMMA GeneratedFacts ==
  ASSUME CryptTypes, NEW u \in Users, Generated(u)
  PROVE  /\ dh' \in [Users -> Nat] /\ made' \in [Users -> 0..MaxKeys]
         /\ \A v \in Users : dh'[v] <= made'[v]
         /\ dh'[Other(u)] = dh[Other(u)] /\ dh'[u] # 0 /\ (dh[u] # 0 => dh' = dh)
<1> DEFINE g == DH1080_gen(u)
<1>1. g \in Nat /\ g <= MaxKeys /\ g # 0 /\ (dh[u] # 0 => g = dh[u])
  BY BoundsAssumption DEF Generated, DH1080_gen, CryptTypes
<1>2. dh' = [dh EXCEPT ![u] = g]  BY DEF Generated
<1> HIDE DEF g
<1>3. dh' \in [Users -> Nat] /\ dh'[u] = g /\ (\A v \in Users : v # u => dh'[v] = dh[v])
  BY <1>1, <1>2 DEF CryptTypes
<1>4. made' = [made EXCEPT ![u] = IF g > made[u] THEN g ELSE made[u]]
  BY <1>3 DEF Generated, CryptTypes
<1>5. made' \in [Users -> 0..MaxKeys] /\ \A v \in Users : dh'[v] <= made'[v]
  BY <1>1, <1>3, <1>4, BoundsAssumption DEF CryptTypes
<1>6. dh[u] # 0 => dh' = dh  BY <1>1, <1>2 DEF CryptTypes
<1> QED  BY <1>1, <1>3, <1>5, <1>6, OtherFacts
\* A message msg from u is added to what is on the way to the other, and the first message
\* on the way to u is taken off.
Sent(u, w, x, msg) == x = [w EXCEPT ![Other(u)] = Append(@, msg)]
Taken(u, w, x) == x = [w EXCEPT ![u] = Tail(@)]

LEMMA SentFacts ==
  ASSUME NEW u \in Users, NEW w \in [Users -> Seq(Messages)], NEW msg \in Messages, NEW x, Sent(u, w, x, msg)
  PROVE  /\ x \in [Users -> Seq(Messages)] /\ w[Other(u)] \in Seq(Messages)
         /\ x[u] = w[u] /\ x[Other(u)] = Append(w[Other(u)], msg)
         /\ Len(x[Other(u)]) = Len(w[Other(u)]) + 1
<1>1. Other(u) \in Users /\ Other(u) # u  BY OtherFacts
<1>2. Append(w[Other(u)], msg) \in Seq(Messages)  BY <1>1, AppendFacts
<1>3. x \in [Users -> Seq(Messages)]  BY <1>2 DEF Sent
<1>4. x[u] = w[u] /\ x[Other(u)] = Append(w[Other(u)], msg)  BY <1>1 DEF Sent
<1>5. w[Other(u)] \in Seq(Messages)  BY <1>1
<1>6. Len(Append(w[Other(u)], msg)) = Len(w[Other(u)]) + 1  BY <1>5, AppendFacts
<1> QED  BY <1>3, <1>4, <1>5, <1>6

LEMMA TakenFacts ==
  ASSUME NEW u \in Users, NEW w \in [Users -> Seq(Messages)], w[u] # <<>>, NEW x, Taken(u, w, x)
  PROVE  /\ x \in [Users -> Seq(Messages)] /\ Head(w[u]) \in Messages
         /\ x[Other(u)] = w[Other(u)] /\ x[u] = Tail(w[u]) /\ Len(x[u]) = Len(w[u]) - 1
<1>1. Tail(w[u]) \in Seq(Messages) /\ Head(w[u]) \in Messages /\ Len(Tail(w[u])) = Len(w[u]) - 1
  BY TailFacts
<1>2. x \in [Users -> Seq(Messages)]  BY <1>1 DEF Taken
<1>3. Other(u) \in Users /\ Other(u) # u  BY OtherFacts
<1>4. x[Other(u)] = w[Other(u)] /\ x[u] = Tail(w[u])  BY <1>3 DEF Taken
<1> QED  BY <1>1, <1>2, <1>4

LEMMA AppendKeeps ==
  ASSUME NEW s \in Seq(Messages), NEW msg \in Messages
  PROVE  /\ HasFinish(Append(s, msg)) <=> HasFinish(s) \/ msg.kind = "DH1080_FINISH"
         /\ \A v, n : Names(s, v, n) /\ (IsDH(msg) => msg.data = <<v, n>> /\ n # 0) =>
                       Names(Append(s, msg), v, n)
         /\ \A mine, his :
              /\ Readable(s, mine, his)
              /\ msg.kind = "text" /\ msg.data # {} => msg.data = his /\ (mine = his \/ HasFinish(s))
              => Readable(Append(s, msg), mine, his)
<1> DEFINE nx == Append(s, msg)
<1>1. /\ DOMAIN nx = 1..(Len(s) + 1) /\ DOMAIN s = 1..Len(s) /\ Len(s) \in Nat
      /\ (\A i \in 1..Len(s) : nx[i] = s[i]) /\ nx[Len(s) + 1] = msg
  BY AppendFacts
<1> HIDE DEF nx
<1>2. HasFinish(nx) <=> HasFinish(s) \/ msg.kind = "DH1080_FINISH"  BY <1>1 DEF HasFinish
<1>3. ASSUME NEW v, NEW n, Names(s, v, n), IsDH(msg) => msg.data = <<v, n>> /\ n # 0
      PROVE  Names(nx, v, n)
  <2> SUFFICES ASSUME NEW i \in DOMAIN nx, IsDH(nx[i]) PROVE nx[i].data = <<v, n>> /\ n # 0
    BY DEF Names
  <2>1. (i \in DOMAIN s /\ nx[i] = s[i]) \/ nx[i] = msg  BY <1>1
  <2> QED  BY <1>3, <2>1 DEF Names
<1>4. ASSUME NEW mine, NEW his, Readable(s, mine, his),
             msg.kind = "text" /\ msg.data # {} => msg.data = his /\ (mine = his \/ HasFinish(s))
      PROVE  Readable(nx, mine, his)
  <2> SUFFICES ASSUME NEW i \in DOMAIN nx, nx[i].kind = "text", nx[i].data # {}, mine # his
               PROVE  nx[i].data = his /\ \E j \in 1..(i - 1) : nx[j].kind = "DH1080_FINISH"
    <3>1. ASSUME NEW i \in DOMAIN nx, nx[i].kind = "text", nx[i].data # {}, mine = his
          PROVE  nx[i].data = his
      <4>1. (i \in DOMAIN s /\ nx[i] = s[i]) \/ nx[i] = msg  BY <1>1
      <4> QED  BY <1>4, <3>1, <4>1 DEF Readable
    <3> QED  BY <3>1 DEF Readable
  <2>1. CASE i # Len(s) + 1
    <3>1. i \in DOMAIN s /\ nx[i] = s[i] /\ \A j \in 1..(i - 1) : nx[j] = s[j]  BY <1>1, <2>1
    <3>2. s[i].data = his /\ \E j \in 1..(i - 1) : s[j].kind = "DH1080_FINISH"
      BY <1>4, <3>1 DEF Readable
    <3> QED  BY <3>1, <3>2
  <2>2. CASE i = Len(s) + 1
    <3>1. msg.data = his /\ HasFinish(s)  BY <1>1, <1>4, <2>2
    <3>2. PICK j \in DOMAIN s : s[j].kind = "DH1080_FINISH"  BY <3>1 DEF HasFinish
    <3>3. j \in 1..(i - 1) /\ nx[j] = s[j]  BY <1>1, <2>2
    <3> QED  BY <1>1, <2>2, <3>1, <3>2, <3>3
  <2> QED  BY <2>1, <2>2
<1> QED  BY <1>2, <1>3, <1>4 DEF nx

LEMMA TailKeeps ==
  ASSUME NEW s \in Seq(Messages), s # <<>>
  PROVE  /\ HasFinish(s) <=> HasFinish(Tail(s)) \/ Head(s).kind = "DH1080_FINISH"
         /\ \A v, n : Names(s, v, n) => /\ Names(Tail(s), v, n)
                                        /\ IsDH(Head(s)) => Head(s).data = <<v, n>> /\ n # 0
         /\ \A mine, his : Readable(s, mine, his) =>
              /\ Head(s).kind # "DH1080_FINISH" => Readable(Tail(s), mine, his)
              /\ Readable(Tail(s), his, his)
              /\ Head(s).kind = "text" => Head(s).data \in {{}, mine}
<1> DEFINE nx == Tail(s)
<1>1. /\ Head(s) = s[1] /\ DOMAIN nx = 1..(Len(s) - 1) /\ DOMAIN s = 1..Len(s) /\ Len(s) \in Nat \ {0}
      /\ \A i \in 1..(Len(s) - 1) : nx[i] = s[i + 1]
  BY TailFacts
<1> HIDE DEF nx
<1>2. \A i \in DOMAIN nx : i + 1 \in DOMAIN s /\ nx[i] = s[i + 1]  BY <1>1
<1>3. \A i \in DOMAIN s : i # 1 => i - 1 \in DOMAIN nx /\ nx[i - 1] = s[i]  BY <1>1
<1>4. 1 \in DOMAIN s  BY <1>1
<1>5. HasFinish(s) <=> HasFinish(nx) \/ Head(s).kind = "DH1080_FINISH"
  BY <1>1, <1>2, <1>3, <1>4 DEF HasFinish
<1>6. ASSUME NEW v, NEW n, Names(s, v, n)
      PROVE  Names(nx, v, n) /\ (IsDH(Head(s)) => Head(s).data = <<v, n>> /\ n # 0)
  BY <1>1, <1>2, <1>4, <1>6 DEF Names
<1>7. ASSUME NEW mine, NEW his, Readable(s, mine, his)
      PROVE  /\ Head(s).kind # "DH1080_FINISH" => Readable(nx, mine, his)
             /\ Readable(nx, his, his)
             /\ Head(s).kind = "text" => Head(s).data \in {{}, mine}
  <2>1. Readable(nx, his, his)  BY <1>2, <1>7 DEF Readable
  <2>2. ASSUME Head(s).kind = "text", Head(s).data # {} PROVE Head(s).data = mine
    <3>1. s[1].data = his /\ (mine = his \/ \E j \in 1..(1 - 1) : s[j].kind = "DH1080_FINISH")
      BY <1>1, <1>4, <1>7, <2>2 DEF Readable
    <3> QED  BY <1>1, <3>1
  <2>3. ASSUME Head(s).kind # "DH1080_FINISH" PROVE Readable(nx, mine, his)
    <3> SUFFICES ASSUME NEW i \in DOMAIN nx, nx[i].kind = "text", nx[i].data # {}, mine # his
                 PROVE  \E j \in 1..(i - 1) : nx[j].kind = "DH1080_FINISH"
      BY <2>1 DEF Readable
    <3>1. i + 1 \in DOMAIN s /\ nx[i] = s[i + 1] /\ i \in 1..(Len(s) - 1)  BY <1>1, <1>2
    <3>2. PICK j \in 1..((i + 1) - 1) : s[j].kind = "DH1080_FINISH"  BY <3>1, <1>7 DEF Readable
    <3>3. j # 1  BY <3>2, <2>3, <1>1
    <3>4. j - 1 \in 1..(i - 1) /\ nx[j - 1] = s[j]  BY <1>1, <3>1, <3>3
    <3> QED  BY <3>2, <3>4
  <2> QED  BY <2>1, <2>2, <2>3
<1> QED  BY <1>5, <1>6, <1>7 DEF nx
-----------------------------------------------------------------------------
LEMMA MsgFacts ==
  ASSUME NEW kind, NEW data
  PROVE  Msg(kind, data).kind = kind /\ Msg(kind, data).data = data
  BY DEF Msg

LEMMA MsgTypes ==
  /\ \A p \in Pubs : Msg("DH1080_INIT", p) \in Messages /\ Msg("DH1080_FINISH", p) \in Messages
  /\ \A s \in Secrets : Msg("text", s) \in Messages
  BY DEF Msg, Messages

\* The two parts of the invariant beside the types, of the keys k and what is under way.
Agreed(d, k, w) == Fresh(d, w) /\ Answered(d, k, w) /\ Closing(k, w)
Legible(k, w) == SameKeys(k) /\ AllReadable(k, w)

LEMMA InvParts == CryptInv <=> /\ CryptTypes
                               /\ ~upset => /\ Agreed(dh, nv, wire)
                                            /\ ~rekeyed => Legible(nv, wire) /\ ~garbled
  BY DEF CryptInv, Agreed, Legible

LEMMA KeyXKeeps == ASSUME CryptInv, OnKeyXCommand PROVE CryptInv'
<1>1. PICK u \in Users :
        /\ Len(wire[Other(u)]) < MaxWire /\ Generated(u)
        /\ wire' = [wire EXCEPT ![Other(u)] = Append(@, Msg("DH1080_INIT", <<u, dh'[u]>>))]
        /\ UNCHANGED <<nv, ghosts>>
  BY Zenon DEF OnKeyXCommand
<1> DEFINE msg == Msg("DH1080_INIT", <<u, dh'[u]>>)
           v == Other(u)
<1>0. v \in Users /\ v # u /\ Other(v) = u /\ \A y \in Users : y = u \/ y = v  BY OtherFacts
<1>2. UNCHANGED <<nv, upset, rekeyed, garbled>>  BY <1>1 DEF ghosts
<1>3. CryptTypes  BY DEF CryptInv
<1>4. /\ dh' \in [Users -> Nat] /\ made' \in [Users -> 0..MaxKeys]
      /\ \A y \in Users : dh'[y] <= made'[y]
      /\ dh'[v] = dh[v] /\ dh'[u] # 0 /\ (dh[u] # 0 => dh' = dh)
  BY <1>1, <1>3, GeneratedFacts
<1>5. msg.kind = "DH1080_INIT" /\ msg.data = <<u, dh'[u]>>  BY MsgFacts
<1>6. <<u, dh'[u]>> \in Pubs  BY <1>4 DEF Pubs
<1>7. msg \in Messages  BY <1>6, MsgTypes
<1>8. Sent(u, wire, wire', msg)  BY <1>1 DEF Sent
<1> HIDE DEF msg
<1>9. wire \in [Users -> Seq(Messages)] /\ Len(wire[u]) <= MaxWire + 1  BY <1>3 DEF CryptTypes
<1>10. /\ wire' \in [Users -> Seq(Messages)] /\ wire[v] \in Seq(Messages)
       /\ wire'[u] = wire[u] /\ wire'[v] = Append(wire[v], msg) /\ Len(wire'[v]) = Len(wire[v]) + 1
  BY <1>7, <1>8, <1>9, SentFacts
<1>11. Len(wire[v]) < MaxWire /\ Len(wire[v]) \in Nat  BY <1>1, <1>10
<1> HIDE DEF v
<1>12. \A y \in Users : Len(wire'[y]) <= MaxWire + 1
  <2>1. Len(wire[v]) + 1 <= MaxWire + 1  BY <1>11, BoundsAssumption
  <2>2. Len(wire'[u]) <= MaxWire + 1 /\ Len(wire'[v]) <= MaxWire + 1  BY <1>9, <1>10, <2>1
  <2> QED  BY <1>0, <2>2
<1>13. CryptTypes'  BY <1>2, <1>3, <1>4, <1>10, <1>12 DEF CryptTypes
<1>14. \A y \in Users : HasFinish(wire'[y]) <=> HasFinish(wire[y])
  <2>1. HasFinish(wire'[v]) <=> HasFinish(wire[v])  BY <1>5, <1>7, <1>10, AppendKeeps
  <2> QED  BY <1>0, <1>10, <2>1
<1>15. ASSUME ~upset PROVE Agreed(dh', nv', wire')
  <2>1. Fresh(dh, wire) /\ Answered(dh, nv, wire) /\ Closing(nv, wire)
    BY <1>15, InvParts DEF Agreed
  <2>2. Fresh(dh', wire) /\ Answered(dh', nv, wire)  BY <1>4, <2>1, GeneratedKeeps DEF v
  <2>3. Names(wire'[v], u, dh'[u])
    <3>1. Names(wire[v], u, dh'[u])  BY <1>0, <2>2 DEF Fresh
    <3> QED  BY <3>1, <1>4, <1>5, <1>7, <1>10, AppendKeeps
  <2>4. Fresh(dh', wire')  BY <1>0, <1>10, <2>2, <2>3 DEF Fresh
  <2>5. Answered(dh', nv', wire')  BY <1>0, <1>2, <1>10, <1>14, <2>2 DEF Answered
  <2>6. Closing(nv', wire')  BY <1>2, <1>14, <2>1, OtherFacts DEF Closing
  <2> QED  BY <2>4, <2>5, <2>6 DEF Agreed
<1>16. ASSUME ~upset, ~rekeyed PROVE Legible(nv', wire')
  <2>1. SameKeys(nv) /\ AllReadable(nv, wire)  BY <1>16, InvParts DEF Legible
  <2>2. Readable(wire[v], nv[v], nv[u])  BY <1>0, <2>1 DEF AllReadable
  <2>3. Readable(wire'[v], nv[v], nv[u])  BY <2>2, <1>5, <1>7, <1>10, AppendKeeps
  <2>4. AllReadable(nv, wire')  BY <1>0, <1>10, <2>1, <2>3 DEF AllReadable
  <2> QED  BY <1>2, <2>1, <2>4 DEF Legible
<1> QED  BY <1>2, <1>13, <1>15, <1>16, InvParts DEF CryptInv, Agreed, Legible

LEMMA SetKeyFacts ==
  ASSUME CryptTypes, NEW u \in Users, NEW k \in Secrets, SetKey(u, k)
  PROVE  /\ nv' \in [Users -> Secrets] /\ nv'[u] = k /\ nv'[Other(u)] = nv[Other(u)]
         /\ rekeyed' \in BOOLEAN /\ (~rekeyed' => ~rekeyed /\ (nv[u] = {} \/ nv[u] = k))
<1>1. nv \in [Users -> Secrets] /\ rekeyed \in BOOLEAN  BY DEF CryptTypes
<1>2. nv' = [nv EXCEPT ![u] = k] /\ rekeyed' = (rekeyed \/ nv[u] \notin {{}, k})
  BY DEF SetKey, NoKey
<1>3. nv' \in [Users -> Secrets] /\ nv'[u] = k /\ nv'[Other(u)] = nv[Other(u)]
  BY <1>1, <1>2, OtherFacts
<1>4. rekeyed' \in BOOLEAN /\ (~rekeyed' => ~rekeyed /\ (nv[u] = {} \/ nv[u] = k))
  BY <1>2, Zenon
<1> QED  BY <1>3, <1>4

\* What u makes of the pair that came with msg.
LEMMA CompFacts ==
  ASSUME NEW u \in Users, dh' \in [Users -> Nat], NEW msg \in Messages, IsDH(msg)
  PROVE  /\ DH1080_comp(u, msg.data) \in Secrets
         /\ msg.data = <<Other(u), dh'[Other(u)]>> => DH1080_comp(u, msg.data) = Secret(dh')
<1>1. msg.data \in Pubs  BY DEF IsDH, Messages
<1>2. <<u, dh'[u]>> \in Pubs  BY DEF Pubs
<1>3. DH1080_comp(u, msg.data) \in Secrets  BY <1>1, <1>2 DEF DH1080_comp, Secrets
<1>4. ASSUME msg.data = <<Other(u), dh'[Other(u)]>>
      PROVE  DH1080_comp(u, msg.data) = Secret(dh')
  BY <1>4, SecretFacts DEF DH1080_comp
<1> QED  BY <1>3, <1>4

LEMMA OnInitKeeps == ASSUME CryptInv, NEW u \in Users, wire[u] # <<>>, OnInit(u) PROVE CryptInv'
<1> DEFINE msg == Head(wire[u])
           fin == Msg("DH1080_FINISH", <<u, dh'[u]>>)
           v == Other(u)
           mid == [wire EXCEPT ![u] = Tail(@)]
           key2 == DH1080_comp(u, msg.data)
<1>0. v \in Users /\ v # u /\ Other(v) = u /\ \A y \in Users : y = u \/ y = v  BY OtherFacts
<1>1. /\ msg.kind = "DH1080_INIT" /\ Len(wire[v]) <= MaxWire /\ Generated(u)
      /\ wire' = [wire EXCEPT ![u] = Tail(@), ![v] = Append(@, fin)]
      /\ SetKey(u, key2) /\ UNCHANGED <<upset, garbled>>
  BY DEF OnInit
<1>2. CryptTypes  BY DEF CryptInv
<1>3. /\ dh' \in [Users -> Nat] /\ made' \in [Users -> 0..MaxKeys]
      /\ \A y \in Users : dh'[y] <= made'[y]
      /\ dh'[v] = dh[v] /\ dh'[u] # 0 /\ (dh[u] # 0 => dh' = dh)
  BY <1>1, <1>2, GeneratedFacts
<1>4. /\ wire \in [Users -> Seq(Messages)] /\ Len(wire[u]) <= MaxWire + 1 /\ wire[u] \in Seq(Messages)
  BY <1>2 DEF CryptTypes
<1>5. Taken(u, wire, mid)  BY DEF Taken
<1>6. fin \in Messages
  <2>1. <<u, dh'[u]>> \in Pubs  BY <1>3 DEF Pubs
  <2> QED  BY <2>1, MsgTypes
<1>7. fin.kind = "DH1080_FINISH" /\ fin.data = <<u, dh'[u]>>  BY MsgFacts
<1>8. Sent(u, mid, wire', fin)  BY <1>0, <1>1, <1>4 DEF Sent
<1> HIDE DEF mid, fin
<1>9. /\ mid \in [Users -> Seq(Messages)] /\ msg \in Messages
      /\ mid[v] = wire[v] /\ mid[u] = Tail(wire[u]) /\ Len(mid[u]) = Len(wire[u]) - 1
  BY <1>4, <1>5, TakenFacts
<1>10. /\ wire' \in [Users -> Seq(Messages)] /\ wire[v] \in Seq(Messages)
       /\ wire'[u] = Tail(wire[u]) /\ wire'[v] = Append(wire[v], fin)
       /\ Len(wire'[v]) = Len(wire[v]) + 1 /\ Len(wire'[u]) = Len(wire[u]) - 1
  <2>1. /\ wire' \in [Users -> Seq(Messages)] /\ mid[v] \in Seq(Messages)
        /\ wire'[u] = mid[u] /\ wire'[v] = Append(mid[v], fin) /\ Len(wire'[v]) = Len(mid[v]) + 1
    BY <1>6, <1>8, <1>9, SentFacts
  <2> QED  BY <1>9, <2>1
<1>11. IsDH(msg) /\ msg.kind # "DH1080_FINISH"  BY <1>1 DEF IsDH
<1>22. dh' \in [Users -> Nat] /\ msg \in Messages /\ IsDH(msg)  BY <1>3, <1>9, <1>11
<1> HIDE DEF msg
<1>12. key2 \in Secrets /\ (msg.data = <<v, dh'[v]>> => key2 = Secret(dh'))
  BY <1>22, CompFacts
<1>13. Len(wire[v]) <= MaxWire  BY <1>1
<1>14. /\ nv' \in [Users -> Secrets] /\ nv'[u] = key2 /\ nv'[v] = nv[v]
       /\ rekeyed' \in BOOLEAN /\ (~rekeyed' => ~rekeyed /\ (nv[u] = {} \/ nv[u] = key2))
  BY <1>1, <1>2, <1>12, SetKeyFacts
<1> HIDE DEF v, key2
<1>15. \A y \in Users : Len(wire'[y]) <= MaxWire + 1
  <2>1. Len(wire[v]) + 1 <= MaxWire + 1 /\ Len(wire[u]) - 1 <= MaxWire + 1
    BY <1>4, <1>10, <1>13, BoundsAssumption
  <2>2. Len(wire'[u]) <= MaxWire + 1 /\ Len(wire'[v]) <= MaxWire + 1  BY <1>10, <2>1
  <2> QED  BY <1>0, <2>2
<1>16. CryptTypes'  BY <1>1, <1>2, <1>3, <1>10, <1>14, <1>15 DEF CryptTypes
<1>17. HasFinish(wire'[v]) /\ (HasFinish(wire'[u]) <=> HasFinish(wire[u]))
  BY <1>4, <1>6, <1>7, <1>10, <1>11, AppendKeeps, TailKeeps DEF msg
<1>18. ASSUME ~upset
       PROVE  /\ Fresh(dh', wire) /\ Answered(dh', nv, wire) /\ Closing(nv, wire)
              /\ key2 = Secret(dh') /\ dh'[v] # 0 /\ Secret(dh') # {}
  <2>1. Fresh(dh, wire) /\ Answered(dh, nv, wire) /\ Closing(nv, wire)
    BY <1>18, InvParts DEF Agreed
  <2>2. Fresh(dh', wire) /\ Answered(dh', nv, wire)  BY <1>3, <2>1, GeneratedKeeps DEF v
  <2>3. Names(wire[u], v, dh'[v])  BY <2>2 DEF Fresh, v
  <2>4. msg.data = <<v, dh'[v]>> /\ dh'[v] # 0
    <3>1. \A x, n : Names(wire[u], x, n) => (IsDH(Head(wire[u])) => Head(wire[u]).data = <<x, n>> /\ n # 0)
      BY <1>4, TailKeeps
    <3>2. IsDH(Head(wire[u]))  BY <1>11 DEF msg
    <3> QED  BY <2>3, <3>1, <3>2 DEF msg
  <2> QED  BY <2>1, <2>2, <2>4, <1>3, <1>12, SecretFacts
<1>19. ASSUME ~upset PROVE Agreed(dh', nv', wire')
  <2>1. Names(wire'[u], v, dh'[v])
    <3>1. Names(wire[u], v, dh'[v])  BY <1>18, <1>19 DEF Fresh, v
    <3> QED  BY <3>1, <1>4, <1>10, TailKeeps
  <2>2. Names(wire'[v], u, dh'[u])
    <3>1. Names(wire[v], u, dh'[u])  BY <1>0, <1>18, <1>19 DEF Fresh
    <3> QED  BY <3>1, <1>3, <1>6, <1>7, <1>10, AppendKeeps
  <2>3. Fresh(dh', wire')  BY <1>0, <2>1, <2>2 DEF Fresh, v
  <2>4. HasFinish(wire'[u]) => nv'[v] = Secret(dh') /\ dh'[u] # 0
    BY <1>3, <1>14, <1>17, <1>18, <1>19 DEF Answered, v
  <2>5. nv'[u] = Secret(dh') /\ dh'[v] # 0  BY <1>14, <1>18, <1>19
  <2>6. Answered(dh', nv', wire')  BY <1>0, <2>4, <2>5 DEF Answered, v
  <2>7. Closing(nv', wire')  BY <1>0, <1>17 DEF Closing, v
  <2> QED  BY <2>3, <2>6, <2>7 DEF Agreed
<1>20. ASSUME ~upset, ~rekeyed' PROVE Legible(nv', wire')
  <2>0. ~rekeyed /\ (nv[u] = {} \/ nv[u] = key2)  BY <1>14, <1>20
  <2>1. SameKeys(nv) /\ AllReadable(nv, wire)  BY <1>20, <2>0, InvParts DEF Legible
  <2>2. nv[v] = {} \/ nv[v] = key2
    <3>1. nv[u] = {} \/ nv[v] = {} \/ nv[u] = nv[v]  BY <2>1 DEF SameKeys, v
    <3>2. ASSUME nv[u] = {}, nv[v] # {} PROVE nv[v] = key2
      <4>1. HasFinish(wire[u]) \/ HasFinish(wire[v])  BY <1>18, <1>20, <3>2 DEF Closing, v
      <4>2. ~HasFinish(wire[v])  BY <1>0, <1>18, <1>20, <3>2 DEF Answered
      <4> QED  BY <4>1, <4>2, <1>18, <1>20 DEF Answered, v
    <3> QED  BY <2>0, <3>1, <3>2
  <2>3. SameKeys(nv')  BY <1>0, <1>14, <2>2 DEF SameKeys, v
  <2>4. Readable(wire'[u], nv'[u], nv'[v])
    <3>1. Readable(wire[u], nv[u], nv[v])  BY <2>1 DEF AllReadable, v
    <3>2. Readable(wire'[u], nv[u], nv[v]) /\ Readable(wire'[u], nv[v], nv[v])
      BY <3>1, <1>4, <1>10, <1>11, TailKeeps DEF msg
    <3>3. CASE nv[u] = key2  BY <3>2, <3>3, <1>14
    <3>4. CASE nv[v] = key2  BY <3>2, <3>4, <1>14
    <3>5. CASE nv[v] = {}  BY <3>2, <3>5, <1>14 DEF Readable
    <3> QED  BY <2>2, <3>4, <3>5
  <2>5. Readable(wire'[v], nv'[v], nv'[u])
    <3>1. Readable(wire[v], nv[v], nv[u])  BY <1>0, <2>1 DEF AllReadable
    <3>2. Readable(wire'[v], nv[v], nv[u])  BY <3>1, <1>6, <1>7, <1>10, AppendKeeps
    <3>3. CASE nv[u] = key2  BY <3>2, <3>3, <1>14
    <3>4. CASE nv[u] = {}  BY <3>2, <3>4, <1>14 DEF Readable
    <3> QED  BY <2>0, <3>3, <3>4
  <2>6. AllReadable(nv', wire')  BY <1>0, <2>4, <2>5 DEF AllReadable, v
  <2> QED  BY <2>3, <2>6 DEF Legible
<1>21. ~rekeyed' => ~rekeyed  BY <1>14
<1> QED  BY <1>1, <1>16, <1>19, <1>20, <1>21, InvParts DEF CryptInv, Agreed, Legible

LEMMA OnFinishKeeps == ASSUME CryptInv, NEW u \in Users, wire[u] # <<>>, OnFinish(u) PROVE CryptInv'
<1> DEFINE msg == Head(wire[u])
           v == Other(u)
           key2 == DH1080_comp(u, msg.data)
<1>0. v \in Users /\ v # u /\ Other(v) = u /\ \A y \in Users : y = u \/ y = v  BY OtherFacts
<1>1. /\ msg.kind = "DH1080_FINISH" /\ Generated(u) /\ wire' = [wire EXCEPT ![u] = Tail(@)]
      /\ SetKey(u, key2) /\ UNCHANGED <<upset, garbled>>
  BY DEF OnFinish
<1>2. CryptTypes  BY DEF CryptInv
<1>3. /\ dh' \in [Users -> Nat] /\ made' \in [Users -> 0..MaxKeys]
      /\ \A y \in Users : dh'[y] <= made'[y]
      /\ dh'[v] = dh[v] /\ dh'[u] # 0 /\ (dh[u] # 0 => dh' = dh)
  BY <1>1, <1>2, GeneratedFacts
<1>4. /\ wire \in [Users -> Seq(Messages)] /\ wire[u] \in Seq(Messages)
      /\ Len(wire[u]) <= MaxWire + 1 /\ Len(wire[v]) <= MaxWire + 1
  BY <1>0, <1>2 DEF CryptTypes
<1>5. Taken(u, wire, wire')  BY <1>1 DEF Taken
<1>6. /\ wire' \in [Users -> Seq(Messages)] /\ msg \in Messages
      /\ wire'[v] = wire[v] /\ wire'[u] = Tail(wire[u]) /\ Len(wire'[u]) = Len(wire[u]) - 1
  BY <1>4, <1>5, TakenFacts
<1>7. dh' \in [Users -> Nat] /\ msg \in Messages /\ IsDH(msg)  BY <1>1, <1>3, <1>6 DEF IsDH
<1> HIDE DEF msg
<1>8. key2 \in Secrets /\ (msg.data = <<v, dh'[v]>> => key2 = Secret(dh'))
  BY <1>7, CompFacts
<1>9. /\ nv' \in [Users -> Secrets] /\ nv'[u] = key2 /\ nv'[v] = nv[v]
      /\ rekeyed' \in BOOLEAN /\ (~rekeyed' => ~rekeyed /\ (nv[u] = {} \/ nv[u] = key2))
  BY <1>1, <1>2, <1>8, SetKeyFacts
<1> HIDE DEF v, key2
<1>10. \A y \in Users : Len(wire'[y]) <= MaxWire + 1
  <2>1. Len(wire[u]) - 1 <= MaxWire + 1  BY <1>4, BoundsAssumption
  <2>2. Len(wire'[u]) <= MaxWire + 1 /\ Len(wire'[v]) <= MaxWire + 1  BY <1>4, <1>6, <2>1
  <2> QED  BY <1>0, <2>2
<1>11. CryptTypes'  BY <1>1, <1>2, <1>3, <1>6, <1>9, <1>10 DEF CryptTypes
<1>12. HasFinish(wire[u])  BY <1>1, <1>4, TailKeeps DEF msg
<1>13. ASSUME ~upset
       PROVE  /\ Fresh(dh', wire) /\ dh'[v] # 0 /\ nv'[u] = Secret(dh') /\ nv'[v] = Secret(dh')
  <2>1. Fresh(dh, wire) /\ Answered(dh, nv, wire)  BY <1>13, InvParts DEF Agreed
  <2>2. Fresh(dh', wire) /\ Answered(dh', nv, wire)  BY <1>3, <2>1, GeneratedKeeps DEF v
  <2>3. Names(wire[u], v, dh'[v])  BY <2>2 DEF Fresh, v
  <2>4. msg.data = <<v, dh'[v]>> /\ dh'[v] # 0  BY <2>3, <1>4, <1>7, TailKeeps DEF msg
  <2>5. nv[v] = Secret(dh')  BY <2>2, <1>12 DEF Answered, v
  <2> QED  BY <2>2, <2>4, <2>5, <1>8, <1>9
<1>14. ASSUME ~upset PROVE Agreed(dh', nv', wire')
  <2>1. Names(wire[u], v, dh'[v]) /\ Names(wire[v], u, dh'[u])  BY <1>0, <1>13, <1>14 DEF Fresh, v
  <2>2. Names(wire'[u], v, dh'[v])  BY <2>1, <1>4, <1>6, TailKeeps
  <2>3. Fresh(dh', wire')  BY <1>0, <1>6, <2>1, <2>2 DEF Fresh, v
  <2>4. Answered(dh', nv', wire')  BY <1>0, <1>3, <1>13, <1>14 DEF Answered, v
  <2>5. Closing(nv', wire')  BY <1>0, <1>13, <1>14 DEF Closing, v
  <2> QED  BY <2>3, <2>4, <2>5 DEF Agreed
<1>15. ASSUME ~upset, ~rekeyed' PROVE Legible(nv', wire')
  <2>0. ~rekeyed /\ (nv[u] = {} \/ nv[u] = key2)  BY <1>9, <1>15
  <2>1. AllReadable(nv, wire)  BY <1>15, <2>0, InvParts DEF Legible
  <2>2. SameKeys(nv')  BY <1>0, <1>13, <1>15 DEF SameKeys, v
  <2>3. nv'[u] = nv[v] /\ nv'[v] = nv[v] /\ nv'[u] = key2  BY <1>9, <1>13, <1>15
  <2>4. Readable(wire'[u], nv'[u], nv'[v])
    <3>1. Readable(wire[u], nv[u], nv[v])  BY <2>1 DEF AllReadable, v
    <3>2. Readable(wire'[u], nv[v], nv[v])  BY <3>1, <1>4, <1>6, TailKeeps
    <3> QED  BY <3>2, <2>3
  <2>5. Readable(wire'[v], nv'[v], nv'[u])
    <3>1. Readable(wire[v], nv[v], nv[u])  BY <1>0, <2>1 DEF AllReadable
    <3>2. CASE nv[u] = key2  BY <3>1, <3>2, <2>3, <1>6
    <3>3. CASE nv[u] = {}  BY <3>1, <3>3, <2>3, <1>6 DEF Readable
    <3> QED  BY <2>0, <3>2, <3>3
  <2>6. AllReadable(nv', wire')  BY <1>0, <2>4, <2>5 DEF AllReadable, v
  <2> QED  BY <2>2, <2>6 DEF Legible
<1>16. ~rekeyed' => ~rekeyed  BY <1>9
<1> QED  BY <1>1, <1>11, <1>14, <1>15, <1>16, InvParts DEF CryptInv, Agreed, Legible

\* What FilterOutgoing sends of u to the other.
Says(u, plain) ==
  /\ Len(wire[Other(u)]) < MaxWire
  /\ Sent(u, wire, wire', Msg("text", IF plain THEN {} ELSE nv[u]))
  /\ UNCHANGED <<dh, made, nv, upset, rekeyed, garbled>>

LEMMA FilterOutgoingKeeps == ASSUME CryptInv, FilterOutgoing PROVE CryptInv'
<1>1. PICK u \in Users, plain \in BOOLEAN : Says(u, plain)
  BY Zenon DEF FilterOutgoing, NoKey, ghosts, Says, Sent
<1> DEFINE data == IF plain THEN {} ELSE nv[u]
           msg == Msg("text", data)
           v == Other(u)
<1>0. v \in Users /\ v # u /\ Other(v) = u /\ \A y \in Users : y = u \/ y = v  BY OtherFacts
<1>2. CryptTypes  BY DEF CryptInv
<1>3. /\ Len(wire[v]) < MaxWire /\ Sent(u, wire, wire', msg)
      /\ dh' = dh /\ made' = made /\ nv' = nv /\ upset' = upset /\ rekeyed' = rekeyed /\ garbled' = garbled
  BY <1>1 DEF Says
<1>4. data \in Secrets /\ (data = {} \/ data = nv[u])  BY <1>2 DEF CryptTypes, Secrets
<1> HIDE DEF data
<1>5. msg \in Messages /\ msg.kind = "text" /\ msg.data = data  BY <1>4, MsgTypes, MsgFacts
<1> HIDE DEF msg
<1>6. wire \in [Users -> Seq(Messages)] /\ Len(wire[u]) <= MaxWire + 1  BY <1>2 DEF CryptTypes
<1>7. /\ wire' \in [Users -> Seq(Messages)] /\ wire[v] \in Seq(Messages)
      /\ wire'[u] = wire[u] /\ wire'[v] = Append(wire[v], msg) /\ Len(wire'[v]) = Len(wire[v]) + 1
  BY <1>3, <1>5, <1>6, SentFacts
<1> HIDE DEF v
<1>8. \A y \in Users : Len(wire'[y]) <= MaxWire + 1
  <2>1. Len(wire[v]) + 1 <= MaxWire + 1  BY <1>3, <1>7, BoundsAssumption
  <2>2. Len(wire'[u]) <= MaxWire + 1 /\ Len(wire'[v]) <= MaxWire + 1  BY <1>6, <1>7, <2>1
  <2> QED  BY <1>0, <2>2
<1>9. CryptTypes'  BY <1>2, <1>3, <1>7, <1>8 DEF CryptTypes
<1>10. \A y \in Users : HasFinish(wire'[y]) <=> HasFinish(wire[y])
  <2>1. HasFinish(wire'[v]) <=> HasFinish(wire[v])  BY <1>5, <1>7, AppendKeeps
  <2> QED  BY <1>0, <1>7, <2>1
<1>11. ASSUME ~upset PROVE Agreed(dh', nv', wire')
  <2>1. Fresh(dh, wire) /\ Answered(dh, nv, wire) /\ Closing(nv, wire)
    BY <1>11, InvParts DEF Agreed
  <2>2. Names(wire[v], u, dh[u])  BY <1>0, <2>1 DEF Fresh
  <2>3. ~IsDH(msg)  BY <1>5 DEF IsDH
  <2>4. Names(wire'[v], u, dh[u])  BY <2>2, <2>3, <1>5, <1>7, AppendKeeps
  <2>5. Fresh(dh', wire')  BY <1>0, <1>3, <1>7, <2>1, <2>4 DEF Fresh
  <2>6. Answered(dh', nv', wire')  BY <1>3, <1>10, <2>1 DEF Answered
  <2>7. Closing(nv', wire')  BY <1>3, <1>10, <2>1, OtherFacts DEF Closing
  <2> QED  BY <2>5, <2>6, <2>7 DEF Agreed
<1>12. ASSUME ~upset, ~rekeyed PROVE Legible(nv', wire')
  <2>1. SameKeys(nv) /\ AllReadable(nv, wire)  BY <1>12, InvParts DEF Legible
  <2>2. Answered(dh, nv, wire) /\ Closing(nv, wire) /\ dh \in [Users -> Nat]
    BY <1>2, <1>12, InvParts DEF Agreed, CryptTypes
  <2>3. ASSUME data # {} PROVE data = nv[u] /\ (nv[v] = nv[u] \/ HasFinish(wire[v]))
    <3>1. data = nv[u] /\ nv[u] # {}  BY <1>4, <2>3
    <3>2. nv[v] = {} \/ nv[v] = nv[u]  BY <3>1, <2>1 DEF SameKeys, v
    <3>3. ASSUME nv[v] = {} PROVE HasFinish(wire[v])
      <4>1. HasFinish(wire[u]) \/ HasFinish(wire[v])  BY <3>1, <3>3, <2>2 DEF Closing, v
      <4>2. Secret(dh) # {}  BY <2>2, SecretFacts
      <4>3. ~HasFinish(wire[u])  BY <3>3, <4>2, <2>2 DEF Answered, v
      <4> QED  BY <4>1, <4>3
    <3> QED  BY <3>1, <3>2, <3>3
  <2>4. Readable(wire[v], nv[v], nv[u])  BY <1>0, <2>1 DEF AllReadable
  <2>5. Readable(wire'[v], nv[v], nv[u])  BY <2>3, <2>4, <1>5, <1>7, AppendKeeps
  <2>6. AllReadable(nv, wire')  BY <1>0, <1>7, <2>1, <2>5 DEF AllReadable
  <2> QED  BY <1>3, <2>1, <2>6 DEF Legible
<1> QED  BY <1>3, <1>9, <1>11, <1>12, InvParts DEF CryptInv, Agreed, Legible

LEMMA FilterIncomingKeeps ==
  ASSUME CryptInv, NEW u \in Users, wire[u] # <<>>, FilterIncoming(u) PROVE CryptInv'
<1> DEFINE msg == Head(wire[u])
           v == Other(u)
<1>0. v \in Users /\ v # u /\ Other(v) = u /\ \A y \in Users : y = u \/ y = v  BY OtherFacts
<1>1. /\ msg.kind = "text" /\ wire' = [wire EXCEPT ![u] = Tail(@)]
      /\ garbled' = (garbled \/ msg.data \notin {{}, nv[u]})
      /\ UNCHANGED <<dh, made, nv, upset, rekeyed>>
  BY DEF FilterIncoming, NoKey
<1>2. CryptTypes  BY DEF CryptInv
<1>3. /\ wire \in [Users -> Seq(Messages)] /\ wire[u] \in Seq(Messages)
      /\ Len(wire[u]) <= MaxWire + 1 /\ Len(wire[v]) <= MaxWire + 1
  BY <1>0, <1>2 DEF CryptTypes
<1>4. Taken(u, wire, wire')  BY <1>1 DEF Taken
<1>5. /\ wire' \in [Users -> Seq(Messages)] /\ msg \in Messages
      /\ wire'[v] = wire[v] /\ wire'[u] = Tail(wire[u]) /\ Len(wire'[u]) = Len(wire[u]) - 1
  BY <1>3, <1>4, TakenFacts
<1> HIDE DEF v, msg
<1>6. \A y \in Users : Len(wire'[y]) <= MaxWire + 1
  <2>1. Len(wire[u]) - 1 <= MaxWire + 1  BY <1>3, BoundsAssumption
  <2>2. Len(wire'[u]) <= MaxWire + 1 /\ Len(wire'[v]) <= MaxWire + 1  BY <1>3, <1>5, <2>1
  <2> QED  BY <1>0, <2>2
<1>7. garbled' \in BOOLEAN  BY <1>1
<1>8. CryptTypes'  BY <1>1, <1>2, <1>5, <1>6, <1>7 DEF CryptTypes
<1>9. \A y \in Users : HasFinish(wire'[y]) <=> HasFinish(wire[y])
  <2>1. HasFinish(wire'[u]) <=> HasFinish(wire[u])  BY <1>1, <1>3, <1>5, TailKeeps DEF msg
  <2> QED  BY <1>0, <1>5, <2>1
<1>10. ASSUME ~upset PROVE Agreed(dh', nv', wire')
  <2>1. Fresh(dh, wire) /\ Answered(dh, nv, wire) /\ Closing(nv, wire)
    BY <1>10, InvParts DEF Agreed
  <2>2. Names(wire'[u], v, dh[v])
    <3>1. Names(wire[u], v, dh[v])  BY <2>1 DEF Fresh, v
    <3> QED  BY <3>1, <1>3, <1>5, TailKeeps
  <2>3. Fresh(dh', wire')  BY <1>0, <1>1, <1>5, <2>1, <2>2 DEF Fresh, v
  <2>4. Answered(dh', nv', wire')  BY <1>1, <1>9, <2>1 DEF Answered
  <2>5. Closing(nv', wire')  BY <1>1, <1>9, <2>1, OtherFacts DEF Closing
  <2> QED  BY <2>3, <2>4, <2>5 DEF Agreed
<1>11. ASSUME ~upset, ~rekeyed PROVE Legible(nv', wire') /\ ~garbled'
  <2>1. SameKeys(nv) /\ AllReadable(nv, wire) /\ ~garbled  BY <1>11, InvParts DEF Legible
  <2>2. Readable(wire[u], nv[u], nv[v])  BY <2>1 DEF AllReadable, v
  <2>3. Readable(wire'[u], nv[u], nv[v]) /\ msg.data \in {{}, nv[u]}
    BY <2>2, <1>1, <1>3, <1>5, TailKeeps DEF msg
  <2>4. AllReadable(nv, wire')  BY <1>0, <1>5, <2>1, <2>3 DEF AllReadable, v
  <2> QED  BY <1>1, <2>1, <2>3, <2>4 DEF Legible
<1> QED  BY <1>1, <1>8, <1>10, <1>11, InvParts DEF CryptInv, Agreed, Legible

LEMMA RestartKeeps == ASSUME CryptInv, Restart PROVE CryptInv'
<1>1. PICK u \in Users :
        /\ dh' = [dh EXCEPT ![u] = 0] /\ wire' = [wire EXCEPT ![u] = <<>>]
        /\ upset' = (upset \/ \E v \in Users : \E i \in DOMAIN wire[v] : IsDH(wire[v][i]))
        /\ UNCHANGED <<made, nv, rekeyed, garbled>>
  BY Zenon DEF Restart
<1> DEFINE v == Other(u)
<1>0. v \in Users /\ v # u /\ Other(v) = u /\ \A y \in Users : y = u \/ y = v  BY OtherFacts
<1>2. CryptTypes  BY DEF CryptInv
<1>3. wire' \in [Users -> Seq(Messages)] /\ wire'[u] = <<>> /\ wire'[v] = wire[v]
  BY <1>0, <1>1, <1>2 DEF CryptTypes
<1>4. dh' \in [Users -> Nat] /\ \A y \in Users : dh'[y] <= made'[y]
  BY <1>1, <1>2 DEF CryptTypes
<1> HIDE DEF v
<1>5. \A y \in Users : Len(wire'[y]) <= MaxWire + 1
  <2>1. Len(wire'[u]) <= MaxWire + 1 /\ Len(wire'[v]) <= MaxWire + 1
    BY <1>0, <1>2, <1>3, BoundsAssumption DEF CryptTypes
  <2> QED  BY <1>0, <2>1
<1>6. upset' \in BOOLEAN  BY <1>1
<1>7. CryptTypes'  BY <1>1, <1>2, <1>3, <1>4, <1>5, <1>6 DEF CryptTypes
<1>8. ASSUME ~upset'
      PROVE  ~upset /\ \A y \in Users : \A i \in DOMAIN wire'[y] : ~IsDH(wire'[y][i])
  <2>1. ~upset /\ \A y \in Users : \A i \in DOMAIN wire[y] : ~IsDH(wire[y][i])  BY <1>1, <1>8, Zenon
  <2>2. \A i \in DOMAIN wire'[u] : ~IsDH(wire'[u][i])  BY <1>3
  <2> QED  BY <1>0, <1>3, <2>1, <2>2
<1>9. ASSUME ~upset' PROVE \A y \in Users : ~HasFinish(wire[y]) /\ ~HasFinish(wire'[y])
  <2>1. \A y \in Users : \A i \in DOMAIN wire[y] : ~IsDH(wire[y][i])  BY <1>1, <1>9, Zenon
  <2> QED  BY <1>8, <1>9, <2>1 DEF HasFinish, IsDH
<1>10. ASSUME ~upset' PROVE Agreed(dh', nv', wire')
  <2>1. Closing(nv, wire)  BY <1>8, <1>10, InvParts DEF Agreed
  <2>2. Fresh(dh', wire')  BY <1>8, <1>10 DEF Fresh, Names
  <2>3. Answered(dh', nv', wire')  BY <1>9, <1>10 DEF Answered
  <2>4. Closing(nv', wire')  BY <1>1, <1>9, <1>10, <2>1, OtherFacts DEF Closing
  <2> QED  BY <2>2, <2>3, <2>4 DEF Agreed
<1>11. ASSUME ~upset', ~rekeyed PROVE Legible(nv', wire') /\ ~garbled
  <2>1. SameKeys(nv) /\ AllReadable(nv, wire) /\ ~garbled  BY <1>8, <1>11, InvParts DEF Legible
  <2>2. Readable(wire'[u], nv[u], nv[v])  BY <1>3 DEF Readable
  <2>3. AllReadable(nv, wire')  BY <1>0, <1>3, <2>1, <2>2 DEF AllReadable, v
  <2> QED  BY <1>1, <2>1, <2>3 DEF Legible
<1> QED  BY <1>1, <1>7, <1>10, <1>11 DEF CryptInv, Agreed, Legible

LEMMA ByHandKeeps ==
  ASSUME CryptInv, OnSetKeyCommand \/ OnDelKeyCommand PROVE CryptInv'
<1>1. CryptTypes  BY DEF CryptInv
<1>2. CASE OnSetKeyCommand
  <2>1. PICK u \in Users : /\ SetKey(u, {<<"by hand", 0>>}) /\ upset' = TRUE
                          /\ UNCHANGED <<dh, made, wire, garbled>>
    BY <1>2, Zenon DEF OnSetKeyCommand
  <2> DEFINE k == {<<"by hand", 0>>}
  <2>2. k \in Secrets  BY DEF Secrets
  <2>3. SetKey(u, k)  BY <2>1
  <2> HIDE DEF k
  <2>4. nv' \in [Users -> Secrets] /\ rekeyed' \in BOOLEAN  BY <1>1, <2>2, <2>3, SetKeyFacts
  <2> QED  BY <1>1, <2>1, <2>4 DEF CryptInv, CryptTypes
<1>3. CASE OnDelKeyCommand
  <2>1. PICK u \in Users : /\ nv' = [nv EXCEPT ![u] = {}] /\ upset' = TRUE
                          /\ UNCHANGED <<dh, made, wire, rekeyed, garbled>>
    BY <1>3, Zenon DEF OnDelKeyCommand, NoKey
  <2>2. nv' \in [Users -> Secrets]  BY <1>1, <2>1 DEF CryptTypes, Secrets
  <2> QED  BY <1>1, <2>1, <2>2 DEF CryptInv, CryptTypes
<1> QED  BY <1>2, <1>3

LEMMA CryptStep == CryptInv /\ (Next \/ UNCHANGED vars) => CryptInv'
<1> SUFFICES ASSUME CryptInv, Next \/ UNCHANGED vars PROVE CryptInv'  OBVIOUS
<1>1. CASE UNCHANGED vars
  BY <1>1 DEF vars, CryptInv, CryptTypes
<1>2. CASE Deliver
  <2>1. PICK u \in Users : wire[u] # <<>> /\ (OnInit(u) \/ OnFinish(u) \/ FilterIncoming(u))
    BY <1>2, Zenon DEF Deliver
  <2> QED  BY <2>1, OnInitKeeps, OnFinishKeeps, FilterIncomingKeeps
<1> QED
  BY <1>1, <1>2, KeyXKeeps, FilterOutgoingKeeps, RestartKeeps, ByHandKeeps DEF Next

LEMMA CryptInit == Init => CryptInv
<1> SUFFICES ASSUME Init PROVE CryptInv  OBVIOUS
<1>0. /\ dh = [u \in Users |-> 0] /\ made = [u \in Users |-> 0] /\ nv = [u \in Users |-> {}]
      /\ wire = [u \in Users |-> <<>>]
  BY DEF Init, NoKey
<1>6. DOMAIN <<>> = {} /\ Len(<<>>) = 0 /\ <<>> \in Seq(Messages) /\ {} \in Secrets  BY DEF Secrets
<1>1. \A u \in Users : dh[u] = 0 /\ made[u] = 0 /\ nv[u] = {} /\ wire[u] = <<>> /\ DOMAIN wire[u] = {}
  BY <1>0, <1>6
<1>2. ~upset /\ ~rekeyed /\ ~garbled  BY DEF Init
<1>3. CryptTypes
  <2>1. dh \in [Users -> Nat] /\ made \in [Users -> 0..MaxKeys]  BY <1>0, BoundsAssumption
  <2>2. nv \in [Users -> Secrets] /\ wire \in [Users -> Seq(Messages)]  BY <1>0, <1>6
  <2>3. \A u \in Users : dh[u] <= made[u] /\ Len(wire[u]) <= MaxWire + 1
    <3>1. 0 <= 0 /\ 0 <= MaxWire + 1  BY BoundsAssumption
    <3> QED  BY <1>1, <1>6, <3>1
  <2>4. upset = FALSE /\ rekeyed = FALSE /\ garbled = FALSE  BY DEF Init
  <2> QED  BY <2>1, <2>2, <2>3, <2>4 DEF CryptTypes
<1>4. Agreed(dh, nv, wire)
  <2>1. \A u \in Users : Other(u) \in Users  BY OtherFacts
  <2>2. \A u \in Users : ~HasFinish(wire[u]) /\ nv[u] = nv[Other(u)]  BY <1>1, <2>1 DEF HasFinish
  <2>3. \A u \in Users : \A v, n : Names(wire[u], v, n)  BY <1>1 DEF Names
  <2>4. Fresh(dh, wire)  BY <2>3 DEF Fresh
  <2>5. Answered(dh, nv, wire) /\ Closing(nv, wire)  BY <2>2 DEF Answered, Closing
  <2> QED  BY <2>4, <2>5 DEF Agreed
<1>5. Legible(nv, wire)
  <2>1. SameKeys(nv)  BY <1>1 DEF SameKeys
  <2>2. \A u \in Users : \A mine, his : Readable(wire[u], mine, his)  BY <1>1 DEF Readable
  <2>3. AllReadable(nv, wire)  BY <2>2 DEF AllReadable
  <2> QED  BY <2>1, <2>3 DEF Legible
<1> QED  BY <1>2, <1>3, <1>4, <1>5, InvParts

LEMMA CryptKeys == CryptInv => KeysAgree
<1> SUFFICES ASSUME CryptInv PROVE KeysAgree  OBVIOUS
<1>1. TypeOK  BY BoundsAssumption DEF CryptInv, CryptTypes, TypeOK
<1>2. ASSUME ~upset, \A u \in Users : \A i \in DOMAIN wire[u] : ~IsDH(wire[u][i])
      PROVE  \A u, v \in Users : nv[u] = nv[v]
  <2>1. \A u \in Users : ~HasFinish(wire[u])  BY <1>2 DEF HasFinish, IsDH
  <2>2. Closing(nv, wire)  BY <1>2 DEF CryptInv
  <2>3. \A u \in Users : nv[u] = nv[Other(u)]  BY <2>1, <2>2, OtherFacts DEF Closing
  <2> QED  BY <2>3, OtherFacts
<1>3. ASSUME ~upset PROVE garbled => rekeyed  BY <1>3 DEF CryptInv
<1> QED  BY <1>1, <1>2, <1>3 DEF KeysAgree

\* For any number of exchanges and messages under way: both users have the same key once no
\* message of an exchange is under way, and while no key was replaced every text can be read,
\* however exchanges cross, are repeated and are followed by restarts (OnKeyXCommand,
\* OnPrivNoticeMessage, FilterIncoming and FilterOutgoing of crypt).
THEOREM CryptKeysAgree == Spec => []KeysAgree
<1>1. CryptInv /\ [Next]_vars => CryptInv'  BY CryptStep
<1> QED  BY <1>1, CryptInit, CryptKeys, PTL DEF Spec
-----------------------------------------------------------------------------
(* The send queue *)

Lines == [n : Nat, quick : BOOLEAN]
Shorts == -Half..Half - 1

\* What is in the queue and was sent, in order, are the lines that were put.
InOrder(s, k) == Sq!Increasing(s) /\ Sq!Numbers(s) = 1..k

\* With protection a line waits only while none may be sent.
Allowed(q, x) == /\ protected /\ burst < Half => 0 <= x /\ x <= burst
                 /\ q # <<>> => protected /\ x <= 0

QueueInv == /\ burst \in Bursts /\ protected \in BOOLEAN
            /\ allowed \in Shorts /\ put \in 0..MaxLines
            /\ queue \in Seq(Lines) /\ sent \in Seq(Lines) /\ Len(queue) + Len(sent) = put
            /\ InOrder(sent \o queue, put)
            /\ Allowed(queue, allowed)

LEMMA ShortType == \A i \in Int : Sq!Short(i) \in Shorts
<1> SUFFICES ASSUME NEW i \in Int PROVE Sq!Short(i) \in Shorts  OBVIOUS
<1> DEFINE w == 2 * Half
<1>1. w \in Nat \ {0} /\ i + Half \in Int /\ Half \in Nat  BY QueueAssumption
<1> HIDE DEF w
<1>2. (i + Half) % w \in 0..(w - 1)  BY <1>1
<1> QED  BY <1>1, <1>2 DEF Sq!Short, Shorts, w

LEMMA ShortSame == \A i \in Shorts : Sq!Short(i) = i
<1> SUFFICES ASSUME NEW i \in Shorts PROVE Sq!Short(i) = i  OBVIOUS
<1> DEFINE w == 2 * Half
           j == i + Half
<1>1. w \in Nat \ {0} /\ Half \in Nat /\ j \in 0..(w - 1) /\ i \in Int  BY QueueAssumption DEF Shorts
<1>2. j - Half = i  BY <1>1
<1> HIDE DEF w, j
<1>3. j % w = j  BY <1>1
<1> QED  BY <1>2, <1>3 DEF Sq!Short, w, j

LEMMA CutFacts ==
  ASSUME NEW S, NEW s1 \in Seq(S), NEW q \in Seq(S), NEW k \in 0..Len(q)
  PROVE  /\ (s1 \o SubSeq(q, 1, k)) \o SubSeq(q, k + 1, Len(q)) = s1 \o q
         /\ Len(s1 \o SubSeq(q, 1, k)) + Len(SubSeq(q, k + 1, Len(q))) = Len(s1) + Len(q)
<1> DEFINE a0 == SubSeq(q, 1, k)
           b0 == SubSeq(q, k + 1, Len(q))
<1>0. Len(q) \in Nat /\ Len(s1) \in Nat /\ k \in Nat /\ k <= Len(q)  OBVIOUS
<1>1. a0 \in Seq(S) /\ Len(a0) = k /\ \A i \in 1..k : a0[i] = q[i]  BY <1>0
<1>2. b0 \in Seq(S) /\ Len(b0) = Len(q) - k /\ \A i \in 1..Len(q) - k : b0[i] = q[k + i]  BY <1>0
<1> HIDE DEF a0, b0
<1>3. /\ a0 \o b0 \in Seq(S) /\ Len(a0 \o b0) = Len(a0) + Len(b0)
      /\ \A i \in 1..Len(a0) + Len(b0) :
           (a0 \o b0)[i] = IF i <= Len(a0) THEN a0[i] ELSE b0[i - Len(a0)]
  <2>1. a0 \in Seq(S)  BY <1>1
  <2>2. b0 \in Seq(S)  BY <1>2
  <2> QED  BY <2>1, <2>2, ConcatProperties
<1>4. a0 \o b0 = q
  <2>1. Len(a0 \o b0) = Len(q)
    <3>1. Len(a0) = k  BY <1>1
    <3>2. Len(b0) = Len(q) - k  BY <1>2
    <3> QED  BY <1>0, <1>3, <3>1, <3>2
  <2>2. ASSUME NEW i \in 1..Len(q) PROVE (a0 \o b0)[i] = q[i]
    <3>1. (a0 \o b0)[i] = IF i <= k THEN a0[i] ELSE b0[i - k]
      BY <1>0, <1>1, <1>3, <2>1
    <3>2. CASE i <= k
      BY <1>0, <1>1, <3>1, <3>2
    <3>3. CASE ~(i <= k)
      <4>1. i - k \in 1..Len(q) - k /\ k + (i - k) = i  BY <1>0, <3>3
      <4> QED  BY <1>2, <3>1, <3>3, <4>1
    <3> QED  BY <3>2, <3>3
  <2> QED  BY <1>3, <2>1, <2>2, SeqEqual
<1>5. a0 \in Seq(S) /\ b0 \in Seq(S)  BY <1>1, <1>2
<1>6. (s1 \o a0) \o b0 = s1 \o (a0 \o b0)  BY <1>5, ConcatAssociative
<1>7. Len(s1 \o a0) = Len(s1) + Len(a0)  BY <1>5, ConcatProperties
<1>8. Len(a0) = k /\ Len(b0) = Len(q) - k  BY <1>1, <1>2
<1>9. Len(s1 \o a0) + Len(b0) = Len(s1) + Len(q)  BY <1>0, <1>7, <1>8
<1> QED  BY <1>4, <1>6, <1>9 DEF a0, b0

\* What TrySend leaves: the queue is cut in two, and what stays may not be sent.
LEMMA TrySendFacts ==
  ASSUME NEW q \in Seq(Lines), NEW x \in Shorts, Sq!TrySend(q, x),
         burst \in Bursts, protected \in BOOLEAN, sent \in Seq(Lines),
         protected /\ burst < Half => 0 <= x /\ x <= burst
  PROVE  /\ queue' \in Seq(Lines) /\ sent' \in Seq(Lines)
         /\ sent' \o queue' = sent \o q /\ Len(sent') + Len(queue') = Len(sent) + Len(q)
         /\ allowed' \in Shorts /\ Allowed(queue', allowed')
<1> DEFINE Stop(k) == /\ \A i \in 0..k - 1 : Sq!MaySend(Sq!Short(x - i))
                      /\ k = Len(q) \/ ~Sq!MaySend(Sq!Short(x - k))
           n == CHOOSE k \in 0..Len(q) : Stop(k)
<1>1. Len(q) \in Nat /\ x \in Int /\ Half \in Nat \ {0}  BY QueueAssumption DEF Shorts
<1>2. \E k \in 0..Len(q) : Stop(k)
  <2>1. CASE ~protected
    <3>1. Stop(Len(q))  BY <2>1 DEF Sq!MaySend
    <3> QED  BY <1>1, <3>1
  <2>2. CASE protected /\ x <= 0
    <3>1. Sq!Short(x - 0) = x  BY <1>1, ShortSame
    <3>2. Stop(0)  BY <1>1, <2>2, <3>1 DEF Sq!MaySend
    <3> QED  BY <1>1, <3>2
  <2>3. CASE x > 0
    <3>1. \A i \in 0..x : x - i \in Shorts /\ Sq!Short(x - i) = x - i
      BY <1>1, <2>3, ShortSame DEF Shorts
    <3>2. CASE x <= Len(q)
      <4>1. \A i \in 0..x - 1 : Sq!MaySend(Sq!Short(x - i))  BY <1>1, <3>1 DEF Sq!MaySend
      <4>2. CASE protected
        <5>0. x \in 0..x /\ x - x = 0  BY <1>1, <2>3
        <5>1. Sq!Short(x - x) = 0  BY <3>1, <5>0
        <5>2. ~Sq!MaySend(Sq!Short(x - x))  BY <4>2, <5>1 DEF Sq!MaySend
        <5> QED  BY <1>1, <2>3, <3>2, <4>1, <5>2
      <4> QED  BY <2>1, <4>2
    <3>3. CASE x > Len(q)
      <4>1. \A i \in 0..Len(q) - 1 : Sq!MaySend(Sq!Short(x - i))
        BY <1>1, <3>1, <3>3 DEF Sq!MaySend
      <4>2. Stop(Len(q))  BY <4>1
      <4> QED  BY <1>1, <4>2
    <3> QED  BY <1>1, <3>2, <3>3
  <2> QED  BY <1>1, <2>1, <2>2, <2>3
<1>3. n \in 0..Len(q) /\ Stop(n)  BY <1>2
<1>4. /\ queue' = SubSeq(q, n + 1, Len(q)) /\ allowed' = Sq!Short(x - n)
      /\ sent' = sent \o SubSeq(q, 1, n)
  BY DEF Sq!TrySend
<1> HIDE DEF n
<1>5. queue' \in Seq(Lines) /\ sent' \in Seq(Lines)  BY <1>1, <1>3, <1>4
<1>6. sent' \o queue' = sent \o q /\ Len(sent') + Len(queue') = Len(sent) + Len(q)
  BY <1>3, <1>4, CutFacts
<1>7. allowed' \in Shorts  BY <1>1, <1>3, <1>4, ShortType
<1>8. ASSUME protected, burst < Half PROVE 0 <= allowed' /\ allowed' <= burst
  <2>1. 0 <= x /\ x <= burst /\ burst \in Nat  BY <1>8, QueueAssumption
  <2>2. n <= x
    <3> SUFFICES ASSUME n > x PROVE FALSE  BY <1>1, <1>3
    <3>1. x \in 0..n - 1  BY <1>1, <1>3, <2>1
    <3>2. Sq!MaySend(Sq!Short(x - x))  BY <1>3, <3>1
    <3>3. Sq!Short(x - x) = 0  BY <1>1, ShortSame DEF Shorts
    <3> QED  BY <1>8, <3>2, <3>3 DEF Sq!MaySend
  <2>3. x - n \in Shorts  BY <1>1, <1>3, <1>8, <2>1, <2>2 DEF Shorts
  <2> QED  BY <1>1, <1>3, <1>4, <2>1, <2>2, <2>3, ShortSame
<1>9. ASSUME queue' # <<>> PROVE protected /\ allowed' <= 0
  <2>1. n # Len(q)  BY <1>1, <1>4, <1>9
  <2>2. ~Sq!MaySend(Sq!Short(x - n))  BY <1>3, <2>1
  <2> QED  BY <1>4, <1>7, <2>2 DEF Sq!MaySend, Shorts
<1> QED  BY <1>5, <1>6, <1>7, <1>8, <1>9 DEF Allowed

\* A line at the end, and a quick one in the middle.
LEMMA PutLast ==
  ASSUME NEW k \in Nat, NEW s \in Seq(Lines), Len(s) = k, InOrder(s, k),
         NEW l \in Lines, l.n = k + 1
  PROVE  InOrder(Append(s, l), k + 1)
<1> DEFINE r == Append(s, l)
<1>1. /\ DOMAIN r = 1..(k + 1) /\ DOMAIN s = 1..k /\ (\A i \in 1..k : r[i] = s[i]) /\ r[k + 1] = l
  BY AppendFacts
<1> HIDE DEF r
<1>2. \A i \in 1..k : s[i].n \in 1..k  BY <1>1 DEF InOrder, Sq!Numbers
<1>3. Sq!Increasing(r)
  <2> SUFFICES ASSUME NEW i \in DOMAIN r, NEW j \in DOMAIN r, i < j, ~r[i].quick, ~r[j].quick
               PROVE  r[i].n < r[j].n
    BY DEF Sq!Increasing
  <2>1. i \in 1..k /\ r[i] = s[i] /\ s[i].n \in 1..k  BY <1>1, <1>2
  <2>2. CASE j \in 1..k
    BY <1>1, <2>1, <2>2 DEF InOrder, Sq!Increasing
  <2>3. CASE j = k + 1
    BY <1>1, <2>1, <2>3
  <2> QED  BY <1>1, <2>2, <2>3
<1>4. Sq!Numbers(r) = 1..(k + 1)
  <2>1. ASSUME NEW x \in 1..(k + 1) PROVE x \in Sq!Numbers(r)
    <3>1. CASE x = k + 1
      <4>1. k + 1 \in DOMAIN r /\ r[k + 1].n = x  BY <1>1, <3>1
      <4> QED  BY <4>1 DEF Sq!Numbers
    <3>2. CASE x \in 1..k
      <4>1. PICK i \in 1..k : s[i].n = x  BY <1>1, <3>2 DEF InOrder, Sq!Numbers
      <4>2. i \in DOMAIN r /\ r[i].n = x  BY <1>1, <4>1
      <4> QED  BY <4>2 DEF Sq!Numbers
    <3> QED  BY <3>1, <3>2
  <2>2. \A i \in DOMAIN r : r[i].n \in 1..(k + 1)
    <3> TAKE i \in DOMAIN r
    <3>1. CASE i \in 1..k
      BY <1>1, <1>2, <3>1
    <3>2. CASE i = k + 1
      BY <1>1, <3>2
    <3> QED  BY <1>1, <3>1, <3>2
  <2> QED  BY <2>1, <2>2 DEF Sq!Numbers
<1> QED  BY <1>3, <1>4 DEF InOrder, r

LEMMA PutBetween ==
  ASSUME NEW k \in Nat, NEW s1 \in Seq(Lines), NEW s2 \in Seq(Lines), Len(s1) + Len(s2) = k,
         InOrder(s1 \o s2, k), NEW l \in Lines, l.n = k + 1, l.quick
  PROVE  InOrder(s1 \o (<<l>> \o s2), k + 1)
<1> DEFINE s == s1 \o s2
           one == <<l>>
           tl == one \o s2
           r == s1 \o tl
           n1 == Len(s1)
<1>1. n1 \in Nat /\ Len(s2) \in Nat /\ n1 <= k /\ k = n1 + Len(s2)  OBVIOUS
<1>2. one \in Seq(Lines) /\ Len(one) = 1 /\ one[1] = l  OBVIOUS
<1> HIDE DEF one
<1>3. tl \in Seq(Lines) /\ Len(tl) = 1 + Len(s2) /\ tl[1] = l /\ \A i \in 1..Len(s2) : tl[i + 1] = s2[i]
  <2>1. /\ tl \in Seq(Lines) /\ Len(tl) = Len(one) + Len(s2)
        /\ \A i \in 1..Len(one) + Len(s2) : tl[i] = IF i <= Len(one) THEN one[i] ELSE s2[i - Len(one)]
    BY <1>2, ConcatProperties
  <2>2. \A i \in 1..Len(s2) : i + 1 \in 1..1 + Len(s2) /\ (i + 1) - 1 = i /\ ~(i + 1 <= 1)  BY <1>1
  <2>3. 1 \in 1..1 + Len(s2)  BY <1>1
  <2> QED  BY <1>2, <2>1, <2>2, <2>3
<1> HIDE DEF tl, s, n1
<1>4. /\ DOMAIN s = 1..k /\ (\A i \in 1..n1 : s[i] = s1[i])
      /\ \A i \in 1..Len(s2) : s[n1 + i] = s2[i]
  <2>1. /\ s \in Seq(Lines) /\ Len(s) = k
        /\ \A i \in 1..k : s[i] = IF i <= n1 THEN s1[i] ELSE s2[i - n1]
    BY ConcatProperties DEF s, n1
  <2>2. \A i \in 1..Len(s2) : n1 + i \in 1..k /\ (n1 + i) - n1 = i /\ ~(n1 + i <= n1)  BY <1>1
  <2>3. \A i \in 1..n1 : i \in 1..k /\ i <= n1  BY <1>1
  <2>4. DOMAIN s = 1..k  BY <2>1
  <2> QED  BY <2>1, <2>2, <2>3, <2>4
<1>5. DOMAIN r = 1..(k + 1) /\ \A i \in 1..(k + 1) : r[i] = IF i <= n1 THEN s1[i] ELSE tl[i - n1]
  <2>1. /\ r \in Seq(Lines) /\ Len(r) = n1 + Len(tl)
        /\ \A i \in 1..n1 + Len(tl) : r[i] = IF i <= n1 THEN s1[i] ELSE tl[i - n1]
    BY <1>3, ConcatProperties DEF n1
  <2>2. n1 + Len(tl) = k + 1  BY <1>1, <1>3
  <2> QED  BY <2>1, <2>2
<1> HIDE DEF r
<1>6. r[n1 + 1] = l /\ n1 + 1 \in 1..(k + 1)
  <2>1. n1 + 1 \in 1..(k + 1) /\ ~(n1 + 1 <= n1) /\ (n1 + 1) - n1 = 1  BY <1>1
  <2> QED  BY <1>3, <1>5, <2>1
<1>7. \A i \in 1..k : i <= n1 => r[i] = s[i]
  <2>1. \A i \in 1..k : i <= n1 => i \in 1..n1 /\ i \in 1..(k + 1)  BY <1>1
  <2> QED  BY <1>4, <1>5, <2>1
<1>8. \A i \in 1..k : i > n1 => r[i + 1] = s[i]
  <2> SUFFICES ASSUME NEW i \in 1..k, i > n1 PROVE r[i + 1] = s[i]  OBVIOUS
  <2>1. i + 1 \in 1..(k + 1) /\ ~(i + 1 <= n1) /\ (i + 1) - n1 = (i - n1) + 1
    BY <1>1
  <2>2. i - n1 \in 1..Len(s2) /\ n1 + (i - n1) = i  BY <1>1
  <2>3. tl[(i - n1) + 1] = s2[i - n1] /\ s[i] = s2[i - n1]  BY <1>3, <1>4, <2>2
  <2> QED  BY <1>5, <2>1, <2>3
\* Where the lines of r are in s.
<1> DEFINE Was(i) == IF i <= n1 THEN i ELSE i - 1
<1>9. \A i \in 1..(k + 1) : i # n1 + 1 => Was(i) \in 1..k /\ r[i] = s[Was(i)]
  <2> SUFFICES ASSUME NEW i \in 1..(k + 1), i # n1 + 1 PROVE Was(i) \in 1..k /\ r[i] = s[Was(i)]
    OBVIOUS
  <2>1. CASE i <= n1
    BY <1>1, <1>7, <2>1
  <2>2. CASE ~(i <= n1)
    <3>1. i - 1 \in 1..k /\ i - 1 > n1 /\ (i - 1) + 1 = i  BY <1>1, <2>2
    <3>2. r[(i - 1) + 1] = s[i - 1]  BY <1>8, <3>1
    <3> QED  BY <2>2, <3>1, <3>2
  <2> QED  BY <2>1, <2>2
<1>10. Sq!Increasing(s) /\ Sq!Numbers(s) = 1..k  BY DEF InOrder, s
<1>11. Sq!Increasing(r)
  <2> SUFFICES ASSUME NEW i \in DOMAIN r, NEW j \in DOMAIN r, i < j, ~r[i].quick, ~r[j].quick
               PROVE  r[i].n < r[j].n
    BY DEF Sq!Increasing
  <2>1. i # n1 + 1 /\ j # n1 + 1  BY <1>6
  <2>2. i \in 1..(k + 1) /\ j \in 1..(k + 1)  BY <1>5
  <2>3. Was(i) < Was(j)
    <3>1. i \in Int /\ j \in Int /\ n1 \in Int  BY <1>1, <2>2
    <3>2. CASE i <= n1 /\ j <= n1
      BY <3>1, <3>2
    <3>3. CASE i <= n1 /\ ~(j <= n1)
      BY <2>1, <3>1, <3>3
    <3>4. CASE ~(i <= n1)
      BY <3>1, <3>4
    <3> QED  BY <3>2, <3>3, <3>4
  <2> HIDE DEF Was
  <2>4. /\ Was(i) \in DOMAIN s /\ Was(j) \in DOMAIN s
        /\ r[i] = s[Was(i)] /\ r[j] = s[Was(j)]
    BY <1>4, <1>9, <2>1, <2>2
  <2> QED  BY <1>10, <2>3, <2>4 DEF Sq!Increasing
<1>12. Sq!Numbers(r) = 1..(k + 1)
  <2>1. ASSUME NEW x \in 1..(k + 1) PROVE x \in Sq!Numbers(r)
    <3>1. CASE x = k + 1
      <4>1. n1 + 1 \in DOMAIN r /\ r[n1 + 1].n = x  BY <1>5, <1>6, <3>1
      <4> QED  BY <4>1 DEF Sq!Numbers
    <3>2. CASE x \in 1..k
      <4>1. PICK i \in 1..k : s[i].n = x  BY <1>4, <1>10, <3>2 DEF Sq!Numbers
      <4>2. \E j \in DOMAIN r : r[j] = s[i]
        <5>1. i \in 1..(k + 1) /\ i + 1 \in 1..(k + 1) /\ (i <= n1 \/ i > n1)  BY <1>1
        <5> QED  BY <1>5, <1>7, <1>8, <5>1
      <4> QED  BY <4>1, <4>2 DEF Sq!Numbers
    <3> QED  BY <3>1, <3>2
  <2>2. \A i \in DOMAIN r : r[i].n \in 1..(k + 1)
    <3> TAKE i \in DOMAIN r
    <3>1. CASE i = n1 + 1
      BY <1>6, <3>1
    <3>2. CASE i # n1 + 1
      <4> HIDE DEF Was
      <4>1. Was(i) \in DOMAIN s /\ r[i] = s[Was(i)]  BY <1>4, <1>5, <1>9, <3>2
      <4>2. s[Was(i)].n \in 1..k  BY <1>10, <4>1 DEF Sq!Numbers
      <4>3. r[i].n \in 1..k  BY <4>1, <4>2
      <4> QED  BY <4>3
    <3> QED  BY <3>1, <3>2
  <2> QED  BY <2>1, <2>2 DEF Sq!Numbers
<1> QED  BY <1>11, <1>12 DEF InOrder, r, tl, one

LEMMA QueueParts ==
  QueueInv => /\ burst \in Bursts /\ protected \in BOOLEAN /\ allowed \in Shorts
              /\ put \in 0..MaxLines /\ queue \in Seq(Lines) /\ sent \in Seq(Lines)
              /\ Len(queue) + Len(sent) = put /\ InOrder(sent \o queue, put)
              /\ Allowed(queue, allowed)
              /\ MaxLines \in Nat /\ put \in Nat /\ Len(sent) \in Nat /\ Len(queue) \in Nat
              /\ burst \in Nat /\ Half \in Nat \ {0} /\ allowed \in Int
  BY QueueAssumption DEF QueueInv, Shorts

LEMMA QueueCounts ==
  QueueInv => /\ queue \in Seq(Lines) /\ sent \in Seq(Lines) /\ put \in Nat /\ MaxLines \in Nat
              /\ Len(sent) \in Nat /\ Len(queue) \in Nat /\ Len(queue) + Len(sent) = put
  BY QueueParts

\* TrySend of any queue that holds what was put.
LEMMA QueueTried ==
  ASSUME QueueInv, NEW k \in 0..MaxLines, NEW q \in Seq(Lines), NEW x \in Shorts,
         Sq!TrySend(q, x), put' = k, UNCHANGED <<burst, protected>>,
         Len(q) + Len(sent) = k, InOrder(sent \o q, k),
         protected /\ burst < Half => 0 <= x /\ x <= burst
  PROVE  QueueInv'
<1>1. /\ queue' \in Seq(Lines) /\ sent' \in Seq(Lines)
      /\ sent' \o queue' = sent \o q /\ Len(sent') + Len(queue') = Len(sent) + Len(q)
      /\ allowed' \in Shorts /\ Allowed(queue', allowed')
  BY QueueParts, TrySendFacts
<1>2. Len(queue') + Len(sent') = k
  <2>1. Len(queue') \in Nat /\ Len(sent') \in Nat  BY <1>1
  <2>2. Len(sent) \in Nat /\ Len(q) \in Nat  BY QueueCounts
  <2> QED  BY <1>1, <2>1, <2>2
<1>3. burst' \in Bursts /\ protected' \in BOOLEAN /\ put' \in 0..MaxLines  BY QueueParts
<1>4. (Allowed(queue, allowed))'  BY <1>1 DEF Allowed
<1>5. InOrder(sent' \o queue', k)  BY <1>1
<1>6. InOrder(sent \o queue, put)'  BY <1>5 DEF InOrder, Sq!Increasing, Sq!Numbers
<1> QED  BY <1>1, <1>2, <1>3, <1>4, <1>6 DEF QueueInv, Shorts

LEMMA PutIRCKeeps == ASSUME QueueInv, Sq!PutIRC PROVE QueueInv'
<1> DEFINE l == Sq!Line(FALSE)
           q == Append(queue, l)
           one == <<l>>
           sq == sent \o queue
<1>0. /\ queue \in Seq(Lines) /\ sent \in Seq(Lines) /\ put \in Nat /\ MaxLines \in Nat
      /\ Len(sent) \in Nat /\ Len(queue) \in Nat /\ Len(queue) + Len(sent) = put
  BY QueueCounts
<1>01. queue \in Seq(Lines) /\ sent \in Seq(Lines)  BY <1>0
<1>1. l \in Lines /\ l.n = put + 1  BY QueueParts DEF Sq!Line, Lines
<1>2. put < MaxLines /\ put' = put + 1 /\ UNCHANGED <<burst, protected>> /\ Sq!TrySend(q, allowed)
  BY DEF Sq!PutIRC
<1> HIDE DEF l
<1>3. q \in Seq(Lines) /\ Len(q) = Len(queue) + 1  BY <1>1, QueueParts, AppendFacts
<1>4. q = queue \o one /\ one \in Seq(Lines)  BY <1>01, <1>1, AppendIsConcat
<1>5. sq \in Seq(Lines) /\ Len(sq) = Len(sent) + Len(queue) /\ InOrder(sq, put)
  BY QueueParts, ConcatProperties
<1> HIDE DEF sq
<1>6. Len(sq) = put  BY <1>5, QueueParts
<1>7. InOrder(Append(sq, l), put + 1)  BY <1>1, <1>5, <1>6, QueueParts, PutLast
<1>8. Append(sq, l) = sq \o one  BY <1>1, <1>5, AppendIsConcat
<1> HIDE DEF one, q
<1>9. (sent \o queue) \o one = sent \o (queue \o one)  BY <1>01, <1>4, ConcatAssociative
<1>10. InOrder(sent \o q, put + 1)  BY <1>4, <1>7, <1>8, <1>9 DEF sq
<1>11. put + 1 \in 0..MaxLines /\ Len(q) + Len(sent) = put + 1
  <2>1. put < MaxLines  BY <1>2
  <2>2. Len(q) = Len(queue) + 1  BY <1>3
  <2> QED  BY <1>0, <2>1, <2>2
<1>12. protected /\ burst < Half => 0 <= allowed /\ allowed <= burst  BY QueueParts DEF Allowed
<1> DEFINE k == put + 1
<1>13. k \in 0..MaxLines /\ put' = k /\ Len(q) + Len(sent) = k /\ InOrder(sent \o q, k)
  BY <1>2, <1>10, <1>11
<1> HIDE DEF k
<1> QED  BY <1>2, <1>3, <1>12, <1>13, QueueParts, QueueTried

LEMMA PutIRCQuickKeeps == ASSUME QueueInv, Sq!PutIRCQuick PROVE QueueInv'
<1> DEFINE l == Sq!Line(TRUE)
           one == <<l>>
           q == one \o queue
           k == put + 1
<1>0. /\ queue \in Seq(Lines) /\ sent \in Seq(Lines) /\ put \in Nat /\ MaxLines \in Nat
      /\ Len(sent) \in Nat /\ Len(queue) \in Nat /\ Len(queue) + Len(sent) = put
  BY QueueCounts
<1>01. queue \in Seq(Lines) /\ sent \in Seq(Lines)  BY <1>0
<1>1. l \in Lines /\ l.n = put + 1 /\ l.quick  BY QueueParts DEF Sq!Line, Lines
<1>2. put < MaxLines /\ put' = k /\ UNCHANGED <<burst, protected>> /\ Sq!TrySend(q, allowed)
  BY DEF Sq!PutIRCQuick
<1> HIDE DEF l
<1>3. one \in Seq(Lines) /\ Len(one) = 1  BY <1>1
<1>4. InOrder(sent \o (one \o queue), k)  BY <1>1, QueueParts, PutBetween
<1> HIDE DEF one
<1>5. q \in Seq(Lines) /\ Len(q) = 1 + Len(queue)
  <2>1. one \o queue \in Seq(Lines) /\ Len(one \o queue) = Len(one) + Len(queue)
    BY <1>01, <1>3, ConcatProperties
  <2> QED  BY <1>3, <2>1
<1>6. InOrder(sent \o q, k)  BY <1>4
<1> HIDE DEF q
<1>7. k \in 0..MaxLines /\ Len(q) + Len(sent) = k
  <2>1. put < MaxLines  BY <1>2
  <2>2. Len(q) = 1 + Len(queue)  BY <1>5
  <2> QED  BY <1>0, <2>1, <2>2
<1>8. protected /\ burst < Half => 0 <= allowed /\ allowed <= burst  BY QueueParts DEF Allowed
<1> HIDE DEF k
<1> QED  BY <1>2, <1>5, <1>6, <1>7, <1>8, QueueParts, QueueTried

LEMMA FloodTimerKeeps == ASSUME QueueInv, Sq!RunJob PROVE QueueInv'
<1> DEFINE x == IF allowed < burst THEN Sq!Short(allowed + 1) ELSE allowed
<1>1. protected /\ put' = put /\ UNCHANGED <<burst, protected>> /\ Sq!TrySend(queue, x)
  BY DEF Sq!RunJob
<1>2. x \in Shorts  BY QueueParts, ShortType
<1>3. ASSUME burst < Half PROVE 0 <= x /\ x <= burst
  <2>1. 0 <= allowed /\ allowed <= burst  BY <1>1, <1>3, QueueParts DEF Allowed
  <2>2. CASE allowed < burst
    <3>1. allowed + 1 \in Shorts  BY <1>3, <2>1, <2>2, QueueParts DEF Shorts
    <3>2. x = allowed + 1  BY <2>2, <3>1, ShortSame
    <3> HIDE DEF x
    <3>3. allowed \in Int /\ burst \in Nat  BY QueueParts
    <3> QED  BY <2>1, <2>2, <3>2, <3>3
  <2>3. CASE ~(allowed < burst)
    BY <2>1, <2>3
  <2> QED  BY <2>2, <2>3
<1> HIDE DEF x
<1> QED  BY <1>1, <1>2, <1>3, QueueParts, QueueTried

LEMMA QueueStep == QueueInv /\ (Sq!Next \/ UNCHANGED sqVars) => QueueInv'
<1> SUFFICES ASSUME QueueInv, Sq!Next \/ UNCHANGED sqVars PROVE QueueInv'  OBVIOUS
<1>1. CASE UNCHANGED sqVars
  <2>1. UNCHANGED <<burst, protected, allowed, queue, sent, put>>  BY <1>1 DEF sqVars
  <2> QED  BY <2>1 DEF QueueInv, InOrder, Allowed, Sq!Increasing, Sq!Numbers, Shorts
<1> QED  BY <1>1, PutIRCKeeps, PutIRCQuickKeeps, FloodTimerKeeps DEF Sq!Next

LEMMA QueueInit == Sq!Init => QueueInv
<1> SUFFICES ASSUME Sq!Init PROVE QueueInv  OBVIOUS
<1>1. /\ burst \in Bursts /\ protected \in BOOLEAN /\ allowed = Sq!Short(burst)
      /\ queue = <<>> /\ sent = <<>> /\ put = 0
  BY DEF Sq!Init
<1>2. burst \in Nat /\ Half \in Nat \ {0} /\ MaxLines \in Nat  BY <1>1, QueueAssumption
<1>3. allowed \in Shorts  BY <1>1, <1>2, ShortType
<1>4. ASSUME burst < Half PROVE 0 <= allowed /\ allowed <= burst
  <2>1. burst \in Shorts  BY <1>2, <1>4 DEF Shorts
  <2> QED  BY <1>1, <1>2, <2>1, ShortSame
<1>5. queue \in Seq(Lines) /\ sent \in Seq(Lines) /\ Len(queue) + Len(sent) = put  BY <1>1
<1>6. InOrder(sent \o queue, put)
  <2> DEFINE none == sent \o queue
  <2>1. DOMAIN none = {}  BY <1>1
  <2> HIDE DEF none
  <2>2. Sq!Increasing(none) /\ Sq!Numbers(none) = {}  BY <2>1 DEF Sq!Increasing, Sq!Numbers
  <2>3. 1..put = {}  BY <1>1
  <2> QED  BY <2>2, <2>3 DEF InOrder, none
<1>7. Allowed(queue, allowed)  BY <1>1, <1>4 DEF Allowed
<1> QED  BY <1>1, <1>2, <1>3, <1>5, <1>6, <1>7 DEF QueueInv

LEMMA QueueRight == QueueInv => Sq!TypeOK /\ Sq!SendsInOrder
<1> SUFFICES ASSUME QueueInv PROVE Sq!TypeOK /\ Sq!SendsInOrder  OBVIOUS
<1>1. Sq!TypeOK  BY QueueParts DEF Sq!TypeOK, Shorts
<1>2. Sq!SendsInOrder  BY QueueParts DEF Sq!SendsInOrder, InOrder, Allowed
<1> QED  BY <1>1, <1>2
-----------------------------------------------------------------------------
(* route_replies *)

\* Induction: a set of natural numbers has a least one.
LEMMA NatLeast ==
  ASSUME NEW S, S \subseteq Nat, S # {}
  PROVE  \E x \in S : \A y \in S : x <= y
<1> DEFINE R == OpToRel(<, Nat)
<1>1. IsWellFoundedOn(R, Nat)  BY NatLessThanWellFounded
<1>2. \A x, y \in Nat : y < x => <<y, x>> \in R  BY DEF OpToRel
<1> HIDE DEF R
<1>3. PICK x \in S : \A y \in S : ~(<<y, x>> \in R)  BY <1>1, WFMin
<1>4. ASSUME NEW y \in S PROVE x <= y
  <2>1. x \in Nat /\ y \in Nat  OBVIOUS
  <2>2. ~(y < x)  BY <1>2, <1>3, <2>1
  <2> QED  BY <2>1, <2>2
<1> QED  BY <1>4

\* Requests wait for clients that are there, and no more of them than were made.
WaitingRight(p, P, k) == /\ p \in [Clients -> Nat]
                         /\ \A c \in Clients : p[c] <= k /\ (p[c] > 0 => c \in P)

\* While the order holds, the server has the request under way and nothing else.
Asked(d, srv) == srv = IF d = 0 THEN <<>> ELSE <<d>>

\* The clients a request may be of: those attached, and those that jumped away from it.
Here(w) == {c \in Clients : w[c] = "here"}
Askers == Here(where) \cup left

RepliesInv ==
  /\ where \in [Clients -> {"here", "elsewhere", "gone"}] /\ left \in SUBSET Clients
  /\ requests \in 0..MaxRequests /\ server \in Seq(Clients)
  /\ timer \in BOOLEAN /\ lost \in BOOLEAN
  /\ WaitingRight(pending, Askers, requests)
  /\ doing \in Askers \cup {0} /\ replies = (doing # 0)
  /\ ~lost => Asked(doing, server)
  /\ wrong = FALSE

LEMMA SendRequestFacts ==
  ASSUME NEW p, NEW P \in SUBSET Clients, NEW k \in Nat, WaitingRight(p, P, k),
         NEW srv \in Seq(Clients), Rr!SendRequest(p, srv)
  PROVE  /\ WaitingRight(pending', P, k) /\ server' \in Seq(Clients) /\ timer' \in BOOLEAN
         /\ doing' \in P \cup {0} /\ replies' = (doing' # 0)
         /\ srv = <<>> => Asked(doing', server')
<1>0. \A c \in Clients : c \in Nat \ {0}  BY RepliesAssumption
<1>1. CASE Rr!Waiting(p) = {}
  <2>1. doing' = 0 /\ replies' = FALSE /\ timer' = FALSE /\ pending' = p /\ server' = srv
    BY <1>1 DEF Rr!SendRequest
  <2> QED  BY <2>1 DEF Asked
<1>2. CASE Rr!Waiting(p) # {}
  <2> DEFINE c == Rr!Min(Rr!Waiting(p))
  <2>1. /\ doing' = c /\ replies' = TRUE /\ timer' = TRUE
        /\ pending' = [p EXCEPT ![c] = @ - 1] /\ server' = Append(srv, c)
    BY <1>2 DEF Rr!SendRequest
  <2>2. c \in Rr!Waiting(p)
    <3>1. Rr!Waiting(p) \subseteq Nat  BY <1>0 DEF Rr!Waiting
    <3>2. \E x \in Rr!Waiting(p) : \A y \in Rr!Waiting(p) : x <= y  BY <1>2, <3>1, NatLeast
    <3> QED  BY <3>2 DEF Rr!Min
  <2> HIDE DEF c
  <2>3. c \in Clients /\ p[c] > 0 /\ c \in P /\ c # 0  BY <1>0, <2>2 DEF Rr!Waiting, WaitingRight
  <2>4. WaitingRight(pending', P, k)
    <3>1. p[c] \in Nat /\ p[c] - 1 \in Nat /\ p[c] - 1 <= p[c]  BY <2>3 DEF WaitingRight
    <3> DEFINE x == p[c] - 1
    <3>2. pending' = [p EXCEPT ![c] = x]  BY <2>1
    <3> HIDE DEF x
    <3>3. x \in Nat /\ x <= p[c]  BY <3>1 DEF x
    <3>4. pending' \in [Clients -> Nat] /\ pending'[c] = x /\ \A d \in Clients \ {c} : pending'[d] = p[d]
      BY <2>3, <3>2, <3>3 DEF WaitingRight
    <3>5. x <= k  BY <2>3, <3>1, <3>3 DEF WaitingRight
    <3>6. \A d \in Clients : pending'[d] <= k /\ (pending'[d] > 0 => d \in P)
      BY <2>3, <3>4, <3>5 DEF WaitingRight
    <3> QED  BY <3>4, <3>6 DEF WaitingRight
  <2>5. server' \in Seq(Clients)  BY <2>1, <2>3
  <2>6. srv = <<>> => server' = <<c>>  BY <2>1, <2>3
  <2> QED  BY <2>1, <2>3, <2>4, <2>5, <2>6 DEF Asked
<1> QED  BY <1>1, <1>2

LEMMA WaitingMore ==
  ASSUME NEW p, NEW P \in SUBSET Clients, NEW k \in Nat, WaitingRight(p, P, k), NEW c \in P
  PROVE  WaitingRight([p EXCEPT ![c] = @ + 1], P, k + 1)
<1> DEFINE x == p[c] + 1
           q == [p EXCEPT ![c] = x]
<1>1. c \in Clients /\ p[c] \in Nat /\ p[c] <= k /\ p \in [Clients -> Nat]  BY DEF WaitingRight
<1>2. x \in Nat /\ x <= k + 1  BY <1>1
<1> HIDE DEF x
<1>3. q \in [Clients -> Nat] /\ q[c] = x /\ \A d \in Clients \ {c} : q[d] = p[d]  BY <1>1, <1>2
<1>4. q = [p EXCEPT ![c] = @ + 1]  BY DEF x
<1> HIDE DEF q
<1>5. ASSUME NEW d \in Clients PROVE q[d] <= k + 1 /\ (q[d] > 0 => d \in P)
  <2>1. CASE d = c
    BY <1>2, <1>3, <2>1
  <2>2. CASE d # c
    <3>1. q[d] = p[d] /\ p[d] <= k /\ (p[d] > 0 => d \in P) /\ p[d] \in Nat
      BY <1>3, <2>2 DEF WaitingRight
    <3> QED  BY <3>1
  <2> QED  BY <2>1, <2>2
<1> QED  BY <1>3, <1>4, <1>5 DEF WaitingRight

LEMMA WaitingLess ==
  ASSUME NEW p, NEW P \in SUBSET Clients, NEW k \in Nat, WaitingRight(p, P, k), NEW c \in P
  PROVE  WaitingRight([p EXCEPT ![c] = 0], P \ {c}, k)
<1> DEFINE q == [p EXCEPT ![c] = 0]
<1>1. c \in Clients /\ p \in [Clients -> Nat]  BY DEF WaitingRight
<1>2. q \in [Clients -> Nat] /\ q[c] = 0 /\ \A d \in Clients \ {c} : q[d] = p[d]  BY <1>1
<1> HIDE DEF q
<1>3. \A d \in Clients : q[d] <= k /\ (q[d] > 0 => d \in P \ {c})  BY <1>2 DEF WaitingRight
<1> QED  BY <1>2, <1>3 DEF WaitingRight, q

LEMMA NoneWaits == ASSUME NEW P, NEW k \in Nat PROVE WaitingRight([c \in Clients |-> 0], P, k)
  BY DEF WaitingRight

LEMMA RepliesParts ==
  RepliesInv <=> /\ where \in [Clients -> {"here", "elsewhere", "gone"}] /\ left \in SUBSET Clients
                 /\ requests \in 0..MaxRequests
                 /\ server \in Seq(Clients) /\ timer \in BOOLEAN /\ lost \in BOOLEAN
                 /\ WaitingRight(pending, Askers, requests)
                 /\ doing \in Askers \cup {0} /\ replies = (doing # 0)
                 /\ (~lost => Asked(doing, server)) /\ wrong = FALSE
  BY DEF RepliesInv

LEMMA AskersAreClients == RepliesInv => Askers \in SUBSET Clients
  BY RepliesParts DEF Askers, Here

\* More clients may hold requests; fewer, when those taken away have none.
LEMMA WaitingWider ==
  ASSUME NEW p, NEW P, NEW Q, NEW k \in Nat, WaitingRight(p, P, k), P \subseteq Q
  PROVE  WaitingRight(p, Q, k)
  BY DEF WaitingRight

LEMMA StillHeld ==
  ASSUME NEW H, NEW l, NEW k \in Nat, WaitingRight(pending', H \cup l, k), doing' \in H \cup l \cup {0},
         left' = {c \in l : Rr!Has(pending', doing', c)}
  PROVE  WaitingRight(pending', H \cup left', k) /\ doing' \in H \cup left' \cup {0}
  BY DEF WaitingRight, Rr!Has

\* A step keeps the invariant when what waits and what is under way is of clients that
\* are attached after it or had jumped away before it.
LEMMA RepliesKept ==
  ASSUME RepliesInv, where' \in [Clients -> {"here", "elsewhere", "gone"}],
         requests' \in 0..MaxRequests, server' \in Seq(Clients),
         timer' \in BOOLEAN, lost' \in BOOLEAN, wrong' = FALSE, replies' = (doing' # 0),
         ~lost' => Asked(doing', server'),
         WaitingRight(pending', Here(where') \cup left, requests'),
         doing' \in Here(where') \cup left \cup {0},
         left' = left \/ Rr!StillLeft
  PROVE  RepliesInv'
<1> DEFINE H == Here(where')
<1>1. requests' \in Nat  BY RepliesAssumption
<1>2. Askers' = H \cup left'  BY DEF Askers, Here
<1>3. left' \in SUBSET Clients  BY RepliesParts DEF Rr!StillLeft
<1> HIDE DEF H
<1>4. WaitingRight(pending', H \cup left', requests') /\ doing' \in H \cup left' \cup {0}
  <2>1. CASE left' = left
    BY <2>1 DEF H
  <2>2. CASE Rr!StillLeft
    <3>1. left' = {c \in left : Rr!Has(pending', doing', c)}  BY <2>2 DEF Rr!StillLeft
    <3>2. WaitingRight(pending', H \cup left, requests') /\ doing' \in H \cup left \cup {0}
      BY DEF H
    <3> QED  BY <1>1, <3>1, <3>2, StillHeld
  <2> QED  BY <2>1, <2>2
<1>5. WaitingRight(pending, Askers, requests)'  BY <1>2, <1>4 DEF WaitingRight
<1>6. (~lost => Asked(doing, server))'  BY DEF Asked
<1> QED  BY <1>2, <1>3, <1>4, <1>5, <1>6 DEF RepliesInv

\* Requests that come, and clients that leave.
LEMMA UserRequestKeeps == ASSUME RepliesInv, NEW c \in Clients, Rr!UserRequest(c) PROVE RepliesInv'
<1> DEFINE p == [pending EXCEPT ![c] = @ + 1]
           k == requests + 1
<1>1. where[c] = "here" /\ requests < MaxRequests /\ requests' = k
      /\ UNCHANGED <<where, left, lost, wrong>>
  BY DEF Rr!UserRequest
<1>2. requests \in Nat /\ MaxRequests \in Nat /\ k \in 0..MaxRequests /\ k \in Nat
  BY <1>1, RepliesParts, RepliesAssumption
<1>3. WaitingRight(p, Askers, k)
  <2>1. c \in Askers  BY <1>1 DEF Askers, Here
  <2> QED  BY <1>2, <2>1, RepliesParts, AskersAreClients, WaitingMore
<1>4. \/ /\ doing # 0 \/ replies
         /\ pending' = p /\ UNCHANGED <<doing, replies, timer, server>>
      \/ doing = 0 /\ Rr!SendRequest(p, server)
  BY DEF Rr!UserRequest
<1>5. Askers = Here(where') \cup left  BY <1>1 DEF Askers
<1> HIDE DEF p, k
<1>6. /\ WaitingRight(pending', Askers, k) /\ server' \in Seq(Clients) /\ timer' \in BOOLEAN
      /\ doing' \in Askers \cup {0} /\ replies' = (doing' # 0)
      /\ ~lost => Asked(doing', server')
  <2>1. CASE pending' = p /\ UNCHANGED <<doing, replies, timer, server>>
    BY <1>3, <2>1, RepliesParts
  <2>2. CASE doing = 0 /\ Rr!SendRequest(p, server)
    <3>1. /\ WaitingRight(pending', Askers, k) /\ server' \in Seq(Clients) /\ timer' \in BOOLEAN
          /\ doing' \in Askers \cup {0} /\ replies' = (doing' # 0)
          /\ (server = <<>> => Asked(doing', server'))
      BY <1>2, <1>3, <2>2, RepliesParts, AskersAreClients, SendRequestFacts
    <3>2. ~lost => server = <<>>  BY <2>2, RepliesParts DEF Asked
    <3> QED  BY <3>1, <3>2
  <2> QED  BY <1>4, <2>1, <2>2
<1>7. WaitingRight(pending', Here(where') \cup left, requests')
      /\ doing' \in Here(where') \cup left \cup {0}
  BY <1>1, <1>5, <1>6
<1> QED  BY <1>1, <1>2, <1>6, <1>7, RepliesParts, RepliesKept

LEMMA ClientGoneKeeps == ASSUME RepliesInv, NEW c \in Clients, Rr!ClientGone(c) PROVE RepliesInv'
<1> DEFINE p == [pending EXCEPT ![c] = 0]
           P == Askers \ {c}
           Q == Here(where') \cup left
<1>1. where[c] = "here" /\ where' = [where EXCEPT ![c] = "gone"] /\ Rr!StillLeft
      /\ UNCHANGED <<requests, wrong>>
  BY DEF Rr!ClientGone
<1>2. requests \in Nat /\ Askers \in SUBSET Clients /\ P \in SUBSET Clients /\ c \in Askers
  BY <1>1, RepliesParts, RepliesAssumption, AskersAreClients DEF Askers, Here
<1>3. where' \in [Clients -> {"here", "elsewhere", "gone"}] /\ P \subseteq Q
  BY <1>1, RepliesParts DEF Askers, Here
<1>4. WaitingRight(p, P, requests)  BY <1>2, RepliesParts, WaitingLess
<1>5. \/ doing = c /\ Rr!SendRequest(p, server) /\ lost' = TRUE
      \/ doing \notin {c, 0} /\ pending' = p /\ UNCHANGED <<doing, replies, timer, server, lost>>
      \/ doing = 0 /\ Rr!SendRequest(p, server) /\ UNCHANGED lost
  BY DEF Rr!ClientGone
<1>6. doing \notin {c, 0} => doing \in P  BY RepliesParts
<1> HIDE DEF p, P, Q
<1>7. /\ WaitingRight(pending', P, requests) /\ server' \in Seq(Clients) /\ timer' \in BOOLEAN
      /\ doing' \in P \cup {0} /\ replies' = (doing' # 0)
      /\ lost' \in BOOLEAN /\ (~lost' => Asked(doing', server'))
  <2>1. CASE doing \notin {c, 0} /\ pending' = p /\ UNCHANGED <<doing, replies, timer, server, lost>>
    BY <1>4, <1>6, <2>1, RepliesParts
  <2>2. ASSUME Rr!SendRequest(p, server), lost' = TRUE \/ (doing = 0 /\ lost' = lost)
        PROVE  /\ WaitingRight(pending', P, requests) /\ server' \in Seq(Clients) /\ timer' \in BOOLEAN
               /\ doing' \in P \cup {0} /\ replies' = (doing' # 0)
               /\ lost' \in BOOLEAN /\ (~lost' => Asked(doing', server'))
    <3>1. /\ WaitingRight(pending', P, requests) /\ server' \in Seq(Clients) /\ timer' \in BOOLEAN
          /\ doing' \in P \cup {0} /\ replies' = (doing' # 0)
          /\ (server = <<>> => Asked(doing', server'))
      BY <1>2, <1>4, <2>2, RepliesParts, SendRequestFacts
    <3>2. doing = 0 /\ ~lost => server = <<>>  BY RepliesParts DEF Asked
    <3>3. lost' \in BOOLEAN  BY <2>2, RepliesParts
    <3> QED  BY <2>2, <3>1, <3>2, <3>3
  <2> QED  BY <1>5, <2>1, <2>2
<1>8. WaitingRight(pending', Q, requests') /\ doing' \in Q \cup {0}
  <2>1. WaitingRight(pending', Q, requests)  BY <1>2, <1>3, <1>7, WaitingWider
  <2> QED  BY <1>1, <1>3, <1>7, <2>1
<1> QED  BY <1>1, <1>3, <1>7, <1>8, RepliesParts, RepliesKept DEF Q

\* A client that jumps away takes along what it has; elsewhere the module sees nothing.
LEMMA ClientJumpsKeeps == ASSUME RepliesInv, NEW c \in Clients, Rr!ClientJumps(c) PROVE RepliesInv'
<1>1. /\ where' = [where EXCEPT ![c] = "elsewhere"]
      /\ left' = IF Rr!Has(pending, doing, c) THEN left \cup {c} ELSE left
      /\ UNCHANGED <<pending, doing, replies, timer, server, requests, lost, wrong>>
  BY DEF Rr!ClientJumps
<1>2. where' \in [Clients -> {"here", "elsewhere", "gone"}] /\ left' \in SUBSET Clients
  BY <1>1, RepliesParts
<1>3. \A d \in Askers : Rr!Has(pending, doing, d) => d \in Askers'
  BY <1>1, RepliesParts DEF Askers, Here
<1>4. doing' \in Askers' \cup {0}  BY <1>1, <1>3, RepliesParts DEF Rr!Has
<1>5. WaitingRight(pending, Askers, requests)'
  <2>1. \A d \in Clients : pending[d] > 0 => d \in Askers'
    BY <1>3, RepliesParts DEF WaitingRight, Rr!Has
  <2> QED  BY <1>1, <2>1, RepliesParts DEF WaitingRight
<1> QED  BY <1>1, <1>2, <1>4, <1>5, RepliesParts DEF RepliesInv, Asked

LEMMA ClientMovesKeeps == ASSUME RepliesInv, NEW c \in Clients, Rr!ClientMoves(c) PROVE RepliesInv'
<1>1. /\ where[c] # "here"
      /\ where' = [where EXCEPT ![c] = "gone"] \/ where' = [where EXCEPT ![c] = "here"]
      /\ UNCHANGED <<pending, doing, replies, timer, server, requests, left, lost, wrong>>
  BY DEF Rr!ClientMoves
<1>2. where' \in [Clients -> {"here", "elsewhere", "gone"}]  BY <1>1, RepliesParts
<1>3. Askers \subseteq Askers'  BY <1>1, RepliesParts DEF Askers, Here
<1>4. WaitingRight(pending, Askers, requests)'
  BY <1>1, <1>3, RepliesParts DEF WaitingRight
<1> QED  BY <1>1, <1>2, <1>3, <1>4, RepliesParts DEF RepliesInv, Asked

\* The next request is sent out of order, or in order to a server that has no other.
LEMMA NextRequestKeeps ==
  ASSUME RepliesInv, NEW srv \in Seq(Clients), Rr!SendRequest(pending, srv), Rr!StillLeft,
         UNCHANGED <<where, requests>>, wrong' = FALSE,
         lost' = TRUE \/ (lost' = lost /\ (~lost => srv = <<>>))
  PROVE  RepliesInv'
<1>1. requests \in Nat /\ Askers = Here(where') \cup left
  BY RepliesParts, RepliesAssumption DEF Askers
<1>2. /\ WaitingRight(pending', Askers, requests) /\ server' \in Seq(Clients) /\ timer' \in BOOLEAN
      /\ doing' \in Askers \cup {0} /\ replies' = (doing' # 0)
      /\ (srv = <<>> => Asked(doing', server'))
  BY <1>1, RepliesParts, AskersAreClients, SendRequestFacts
<1>3. lost' \in BOOLEAN /\ (~lost' => Asked(doing', server'))  BY <1>2, RepliesParts
<1> QED  BY <1>1, <1>2, <1>3, RepliesParts, RepliesKept

LEMMA LastReplyKeeps == ASSUME RepliesInv, Rr!Reply \/ Rr!LastReply PROVE RepliesInv'
<1>1. server # <<>> /\ Rr!Routed(Head(server)) /\ UNCHANGED <<where, requests, lost>>
  BY DEF Rr!Reply, Rr!LastReply
<1>2. ~lost => doing # 0 /\ server = <<doing>>  BY <1>1, RepliesParts DEF Asked
<1>3. wrong' = FALSE
  <2>1. ~lost => Head(server) = doing  BY <1>2
  <2> QED  BY <1>1, <2>1, RepliesParts DEF Rr!Routed
<1>4. Tail(server) \in Seq(Clients) /\ (~lost => Tail(server) = <<>>)
  <2>1. Tail(server) \in Seq(Clients)  BY <1>1, RepliesParts
  <2>2. ASSUME ~lost PROVE Tail(server) = <<>>
    <3>1. server \in Seq(Clients) /\ Len(server) = 1  BY <1>2, <2>2, RepliesParts
    <3> DEFINE tl == Tail(server)
    <3>2. Len(tl) = 0  BY <3>1
    <3>3. tl \in Seq(Clients)  BY <2>1
    <3> HIDE DEF tl
    <3>4. tl = <<>>  BY <3>2, <3>3, EmptySeq
    <3> QED  BY <3>4 DEF tl
  <2> QED  BY <2>1, <2>2
<1>5. CASE Rr!Reply
  <2>1. UNCHANGED <<where, pending, doing, replies, timer, server, requests, left, lost>>
    BY <1>5 DEF Rr!Reply
  <2> QED  BY <1>3, <2>1 DEF RepliesInv, Askers, Asked, WaitingRight
<1>6. CASE Rr!LastReply
  <2> DEFINE srv == Tail(server)
  <2>1. \/ Rr!SendRequest(pending, srv)
        \/ ~(replies /\ doing # 0) /\ server' = srv /\ UNCHANGED <<pending, doing, replies, timer>>
    BY <1>6 DEF Rr!LastReply
  <2>2. srv \in Seq(Clients) /\ (~lost => srv = <<>>)  BY <1>4
  <2>3. Rr!StillLeft  BY <1>6 DEF Rr!LastReply
  <2> HIDE DEF srv
  <2>4. CASE Rr!SendRequest(pending, srv)
    BY <1>1, <1>3, <2>2, <2>3, <2>4, NextRequestKeeps
  <2>5. CASE ~(replies /\ doing # 0) /\ server' = srv /\ UNCHANGED <<pending, doing, replies, timer>>
    <3>1. lost /\ Askers = Here(where') \cup left  BY <1>1, <1>2, <2>5, RepliesParts DEF Askers
    <3>2. WaitingRight(pending', Here(where') \cup left, requests')
          /\ doing' \in Here(where') \cup left \cup {0}
      BY <1>1, <2>5, <3>1, RepliesParts
    <3> QED  BY <1>1, <1>3, <2>2, <2>3, <2>5, <3>1, <3>2, RepliesParts, RepliesKept
  <2> QED  BY <2>1, <2>4, <2>5
<1> QED  BY <1>5, <1>6

LEMMA ServerKeeps == ASSUME RepliesInv, Rr!Unlisted \/ Rr!Stray \/ Rr!Timeout PROVE RepliesInv'
<1>1. CASE Rr!Unlisted
  <2>1. server # <<>> /\ server' = Tail(server) /\ lost' = TRUE
        /\ UNCHANGED <<where, pending, doing, replies, timer, requests, left, wrong>>
    BY <1>1 DEF Rr!Unlisted
  <2>2. server' \in Seq(Clients)  BY <2>1, RepliesParts
  <2> QED  BY <2>1, <2>2 DEF RepliesInv, Askers, Asked, WaitingRight
<1>2. CASE Rr!Stray \/ Rr!Timeout
  <2>1. /\ Rr!SendRequest(pending, server) /\ lost' = TRUE /\ Rr!StillLeft
        /\ UNCHANGED <<where, requests, wrong>>
    BY <1>2 DEF Rr!Stray, Rr!Timeout
  <2> QED  BY <2>1, RepliesParts, NextRequestKeeps
<1> QED  BY <1>1, <1>2

\* The connection or the module goes.
LEMMA StartAgainKeeps == ASSUME RepliesInv, Rr!IRCDisconnected \/ Rr!Unloaded PROVE RepliesInv'
<1>1. /\ pending' = [c \in Clients |-> 0] /\ doing' = 0 /\ replies' = FALSE /\ timer' = FALSE
      /\ left' = {} /\ UNCHANGED <<where, requests, wrong>>
  BY DEF Rr!IRCDisconnected, Rr!Unloaded
<1>2. server' \in Seq(Clients) /\ lost' = (server' # <<>>)
  <2>1. CASE Rr!IRCDisconnected
    <3>1. server' = <<>> /\ lost' = FALSE  BY <2>1 DEF Rr!IRCDisconnected
    <3>2. (server' # <<>>) = FALSE  BY <3>1
    <3>3. server' \in Seq(Clients)  BY <3>1
    <3> QED  BY <3>1, <3>2, <3>3
  <2>2. CASE Rr!Unloaded
    <3>1. PICK s \in Rr!Ordered(pending) : server' = server \o s /\ lost' = (server' # <<>>)
      BY <2>2 DEF Rr!Unloaded
    <3>2. s \in Seq(Clients)  BY DEF Rr!Ordered, Rr!BoundedSeq, Rr!SeqOf
    <3>3. server' \in Seq(Clients)  BY <3>1, <3>2, RepliesParts, ConcatProperties
    <3> QED  BY <3>1, <3>3
  <2> QED  BY <2>1, <2>2
<1>3. WaitingRight(pending, Askers, requests)'
  <2>1. requests' \in Nat  BY <1>1, RepliesParts, RepliesAssumption
  <2> QED  BY <1>1, <2>1 DEF WaitingRight
<1> QED  BY <1>1, <1>2, <1>3 DEF RepliesInv, Asked

LEMMA RepliesStep == RepliesInv /\ (Rr!Next \/ UNCHANGED rrVars) => RepliesInv'
<1> SUFFICES ASSUME RepliesInv, Rr!Next \/ UNCHANGED rrVars PROVE RepliesInv'  OBVIOUS
<1>1. CASE UNCHANGED rrVars
  BY <1>1 DEF rrVars, RepliesInv, Askers, Asked, WaitingRight
<1>2. CASE \E c \in Clients : \/ Rr!UserRequest(c) \/ Rr!ClientGone(c)
                              \/ Rr!ClientJumps(c) \/ Rr!ClientMoves(c)
  BY <1>2, UserRequestKeeps, ClientGoneKeeps, ClientJumpsKeeps, ClientMovesKeeps
<1> QED  BY <1>1, <1>2, LastReplyKeeps, ServerKeeps, StartAgainKeeps DEF Rr!Next

LEMMA RepliesInit == Rr!Init => RepliesInv
<1> SUFFICES ASSUME Rr!Init PROVE RepliesInv  OBVIOUS
<1>1. /\ where = [c \in Clients |-> "here"] /\ pending = [c \in Clients |-> 0] /\ doing = 0
      /\ replies = FALSE /\ timer = FALSE /\ server = <<>> /\ requests = 0 /\ left = {}
      /\ lost = FALSE /\ wrong = FALSE
  BY DEF Rr!Init
<1>2. WaitingRight(pending, Askers, requests)  BY <1>1, NoneWaits
<1>3. 0 \in 0..MaxRequests /\ <<>> \in Seq(Clients)  BY RepliesAssumption
<1> QED  BY <1>1, <1>2, <1>3 DEF RepliesInv, Asked

LEMMA RepliesRight == RepliesInv => Rr!TypeOK /\ Rr!RightClient
<1> SUFFICES ASSUME RepliesInv PROVE Rr!TypeOK /\ Rr!RightClient  OBVIOUS
<1>1. pending \in [Clients -> 0..MaxRequests]
  <2>1. \A c \in Clients : pending[c] \in Nat /\ pending[c] <= requests
    BY RepliesParts DEF WaitingRight
  <2>2. requests \in Nat /\ requests <= MaxRequests /\ MaxRequests \in Nat
    BY RepliesParts, RepliesAssumption
  <2>3. \A c \in Clients : pending[c] \in 0..MaxRequests  BY <2>1, <2>2
  <2> QED  BY <2>3, RepliesParts DEF WaitingRight
<1>2. Rr!Range(server) \subseteq Clients  BY RepliesParts DEF Rr!Range
<1>3. doing \in Clients \cup {0}  BY RepliesParts, AskersAreClients
<1>4. \A c \in Clients \ left : Rr!Has(pending, doing, c) => where[c] = "here"
  <2>1. \A c \in Clients : c # 0  BY RepliesAssumption
  <2>2. \A c \in Clients : Rr!Has(pending, doing, c) => c \in Askers
    BY <2>1, RepliesParts DEF WaitingRight, Rr!Has
  <2> QED  BY <2>2 DEF Askers, Here
<1>5. ~wrong /\ (doing # 0) = replies  BY RepliesParts
<1> QED  BY <1>1, <1>2, <1>3, <1>4, <1>5, RepliesParts DEF Rr!TypeOK, Rr!RightClient
-----------------------------------------------------------------------------
(* simple_away *)

Modules == [loaded : BOOLEAN, wait : 0..1, min : 0..MaxClients, clientSet : BOOLEAN, weSet : BOOLEAN]
StoredValues == [wait : {0, 1, Sa!Unset}, min : 0..MaxClients \cup {Sa!Unset}]

\* The module's flag is what the server has; once the module was told of the clients there
\* are, a timer runs only while they are too few, and without one it acted on them.
FlagsRight(x, who, run, told, n) ==
  /\ x.weSet <=> who = "module"
  /\ told /\ ~x.clientSet /\ ~run => (who = "module" <=> n < x.min)

AwayInv ==
  /\ irc \in {"none", "registering", "connected"} /\ clients \in 0..MaxClients
  /\ away \in {"back", "module", "client", "left"} /\ awayTimer \in BOOLEAN /\ settled \in BOOLEAN
  /\ m \in Modules /\ stored \in StoredValues
  /\ ~(m.clientSet /\ m.weSet)
  /\ irc # "connected" => away = "back"
  /\ ~m.loaded => away # "module" /\ ~awayTimer
  /\ awayTimer /\ settled => clients < m.min
  /\ m.loaded /\ irc = "connected" => FlagsRight(m, away, awayTimer, settled, clients)

LEMMA AwayParts ==
  AwayInv => /\ irc \in {"none", "registering", "connected"} /\ clients \in 0..MaxClients
             /\ away \in {"back", "module", "client", "left"} /\ awayTimer \in BOOLEAN
             /\ settled \in BOOLEAN /\ m \in Modules /\ stored \in StoredValues
             /\ ~(m.clientSet /\ m.weSet)
             /\ (irc # "connected" => away = "back")
             /\ (~m.loaded => away # "module" /\ ~awayTimer)
             /\ (awayTimer /\ settled => clients < m.min)
             /\ (m.loaded /\ irc = "connected" =>
                   /\ m.weSet <=> away = "module"
                   /\ settled /\ ~m.clientSet /\ ~awayTimer => (away = "module" <=> clients < m.min))
             /\ m.loaded \in BOOLEAN /\ m.wait \in 0..1 /\ m.min \in 0..MaxClients
             /\ m.clientSet \in BOOLEAN /\ m.weSet \in BOOLEAN
             /\ clients \in Int /\ m.min \in Int /\ MaxClients \in Nat \ {0}
  BY AwayAssumption DEF AwayInv, FlagsRight, Modules

\* What setting a flag leaves of a module.
LEMMA FlagSet ==
  ASSUME NEW x \in Modules, NEW v \in BOOLEAN
  PROVE  /\ [x EXCEPT !.weSet = v] \in Modules /\ [x EXCEPT !.weSet = v].weSet = v
         /\ [x EXCEPT !.weSet = v].loaded = x.loaded /\ [x EXCEPT !.weSet = v].min = x.min
         /\ [x EXCEPT !.weSet = v].clientSet = x.clientSet
  BY DEF Modules

\* AwayNow and SetBack of a module x.
LEMMA AwayNowFacts ==
  ASSUME NEW x \in Modules, Sa!AwayNow(x), away \in {"back", "module", "client", "left"}
  PROVE  /\ m' \in Modules /\ m'.loaded = x.loaded /\ m'.min = x.min /\ m'.clientSet = x.clientSet
         /\ x.clientSet => m'.weSet = x.weSet /\ away' = away
         /\ ~x.clientSet => m'.weSet = TRUE
         /\ ~x.clientSet /\ irc' = "connected" => away' = "module"
         /\ irc' # "connected" => away' = away
         /\ away' \in {"back", "module", "client", "left"}
<1>1. CASE x.clientSet
  BY <1>1 DEF Sa!AwayNow
<1>2. CASE ~x.clientSet
  <2>1. m' = [x EXCEPT !.weSet = TRUE] /\ Sa!Put("module")  BY <1>2 DEF Sa!AwayNow
  <2>2. /\ m' \in Modules /\ m'.weSet = TRUE /\ m'.loaded = x.loaded /\ m'.min = x.min
        /\ m'.clientSet = x.clientSet
    BY <2>1, FlagSet
  <2>3. /\ irc' = "connected" => away' = "module"
        /\ irc' # "connected" => away' = away
    BY <2>1 DEF Sa!Put
  <2> QED  BY <1>2, <2>2, <2>3
<1> QED  BY <1>1, <1>2

LEMMA SetBackFacts ==
  ASSUME NEW x \in Modules, Sa!SetBack(x), away \in {"back", "module", "client", "left"}
  PROVE  /\ m' \in Modules /\ m'.loaded = x.loaded /\ m'.min = x.min /\ m'.clientSet = x.clientSet
         /\ m'.weSet = FALSE /\ awayTimer' = FALSE
         /\ ~x.weSet => away' = away
         /\ x.weSet /\ irc' = "connected" => away' = "back"
         /\ irc' # "connected" => away' = away
         /\ away' \in {"back", "module", "client", "left"}
<1>0. awayTimer' = FALSE  BY DEF Sa!SetBack
<1>1. CASE ~x.weSet
  <2>1. m' = x /\ away' = away  BY <1>1 DEF Sa!SetBack
  <2>2. x.weSet = FALSE  BY <1>1 DEF Modules
  <2> QED  BY <1>0, <1>1, <2>1, <2>2
<1>2. CASE x.weSet
  <2>1. m' = [x EXCEPT !.weSet = FALSE] /\ Sa!Put("back")  BY <1>2 DEF Sa!SetBack
  <2>2. /\ m' \in Modules /\ m'.weSet = FALSE /\ m'.loaded = x.loaded /\ m'.min = x.min
        /\ m'.clientSet = x.clientSet
    BY <2>1, FlagSet
  <2>3. /\ irc' = "connected" => away' = "back"
        /\ irc' # "connected" => away' = away
    BY <2>1 DEF Sa!Put
  <2> QED  BY <1>0, <1>2, <2>2, <2>3
<1> QED  BY <1>1, <1>2

LEMMA AwayLoadKeeps == ASSUME AwayInv, Sa!OnLoad PROVE AwayInv'
<1>1. PICK arg \in {Sa!Unset, 0, 1} :
        LET w == IF arg # Sa!Unset THEN arg ELSE stored.wait
            x == [Sa!Fresh EXCEPT !.loaded = TRUE,
                                  !.wait = IF w = Sa!Unset THEN @ ELSE w,
                                  !.min = IF stored.min = Sa!Unset THEN @ ELSE stored.min]
        IN  /\ UNCHANGED <<irc, clients>>
            /\ stored' = [stored EXCEPT !.wait = w]
            /\ IF irc = "connected" /\ Sa!MinClientsConnected(x)
               THEN Sa!AwayNow(x) ELSE m' = x /\ UNCHANGED away
            /\ settled' = FALSE /\ UNCHANGED awayTimer
  BY Zenon DEF Sa!OnLoad
<1> DEFINE w == IF arg # Sa!Unset THEN arg ELSE stored.wait
           x == [Sa!Fresh EXCEPT !.loaded = TRUE,
                                 !.wait = IF w = Sa!Unset THEN @ ELSE w,
                                 !.min = IF stored.min = Sa!Unset THEN @ ELSE stored.min]
<1>2. /\ UNCHANGED <<irc, clients>> /\ stored' = [stored EXCEPT !.wait = w]
      /\ settled' = FALSE /\ UNCHANGED awayTimer
      /\ \/ Sa!AwayNow(x)
         \/ m' = x /\ UNCHANGED away
  BY <1>1
<1>3. ~m.loaded  BY DEF Sa!OnLoad
<1>4. w \in {0, 1, Sa!Unset} /\ stored' \in StoredValues
  <2>1. stored.wait \in {0, 1, Sa!Unset} /\ stored.min \in 0..MaxClients \cup {Sa!Unset}
    BY AwayParts DEF StoredValues
  <2>2. w \in {0, 1, Sa!Unset}  BY <2>1
  <2> HIDE DEF w
  <2>3. stored' \in StoredValues  BY <1>2, <2>2, AwayParts DEF StoredValues
  <2> QED  BY <2>2, <2>3
<1> HIDE DEF w
<1>5. x \in Modules /\ x.loaded = TRUE /\ x.clientSet = FALSE /\ x.weSet = FALSE
  <2>1. 1 \in 0..MaxClients  BY AwayAssumption
  <2>2. stored.min \in 0..MaxClients \cup {Sa!Unset}  BY AwayParts DEF StoredValues
  <2> DEFINE u == IF w = Sa!Unset THEN 1 ELSE w
             v == IF stored.min = Sa!Unset THEN 1 ELSE stored.min
  <2>3. u \in 0..1  BY <1>4
  <2>4. v \in 0..MaxClients  BY <2>1, <2>2
  <2>5. x = [loaded |-> TRUE, wait |-> u, min |-> v, clientSet |-> FALSE, weSet |-> FALSE]
    <3> DEFINE F == Sa!Fresh
    <3>1. F.wait = 1 /\ F.min = 1  BY DEF Sa!Fresh
    <3>2. x = [F EXCEPT !.loaded = TRUE, !.wait = u, !.min = v]  BY <3>1
    <3> HIDE DEF u, v, x
    <3>3. F = [loaded |-> FALSE, wait |-> 1, min |-> 1, clientSet |-> FALSE, weSet |-> FALSE]
      BY DEF Sa!Fresh
    <3> HIDE DEF F
    <3> QED  BY <3>2, <3>3
  <2> HIDE DEF u, v, x
  <2> QED  BY <2>3, <2>4, <2>5 DEF Modules
<1> HIDE DEF x
<1>6. awayTimer = FALSE /\ away # "module" /\ (irc # "connected" => away = "back")
      /\ away \in {"back", "module", "client", "left"}
  BY <1>3, AwayParts
<1>7. /\ m' \in Modules /\ m'.loaded = TRUE /\ m'.clientSet = FALSE
      /\ away' \in {"back", "module", "client", "left"}
      /\ irc' # "connected" => away' = "back"
      /\ irc' = "connected" => (m'.weSet <=> away' = "module")
  <2>1. CASE Sa!AwayNow(x)
    BY <1>2, <1>5, <1>6, <2>1, AwayNowFacts
  <2>2. CASE m' = x /\ UNCHANGED away
    BY <1>2, <1>5, <1>6, <2>2
  <2> QED  BY <1>2, <2>1, <2>2
<1>8. irc' = irc /\ clients' = clients /\ settled' = FALSE /\ awayTimer' = FALSE  BY <1>2, <1>6
<1>9. irc' \in {"none", "registering", "connected"} /\ clients' \in 0..MaxClients
  BY <1>8, AwayParts
<1> QED  BY <1>4, <1>7, <1>8, <1>9 DEF AwayInv, FlagsRight

LEMMA AwayUnloadKeeps == ASSUME AwayInv, Sa!Unload PROVE AwayInv'
<1>1. /\ m' = Sa!Fresh /\ awayTimer' = FALSE /\ settled' = FALSE
      /\ away' = (IF away = "module" THEN "left" ELSE away) /\ UNCHANGED <<irc, clients, stored>>
  BY DEF Sa!Unload
<1>2. m' \in Modules /\ m'.loaded = FALSE /\ m'.clientSet = FALSE
  BY <1>1, AwayAssumption DEF Sa!Fresh, Modules
<1>3. away' \in {"back", "module", "client", "left"} /\ away' # "module"
      /\ (irc' # "connected" => away' = "back")
  BY <1>1, AwayParts
<1>4. irc' \in {"none", "registering", "connected"} /\ clients' \in 0..MaxClients /\ stored' \in StoredValues
  BY <1>1, AwayParts
<1> QED  BY <1>1, <1>2, <1>3, <1>4 DEF AwayInv, FlagsRight

LEMMA UserAwayKeeps == ASSUME AwayInv, Sa!OnUserRawMessage PROVE AwayInv'
<1>1. PICK text \in BOOLEAN :
        /\ m' = [m EXCEPT !.clientSet = text, !.weSet = FALSE]
        /\ UNCHANGED irc /\ Sa!Put(IF text THEN "client" ELSE "back")
        /\ settled' = (settled /\ (text \/ clients >= m.min))
  BY DEF Sa!OnUserRawMessage
<1>2. m.loaded /\ UNCHANGED <<clients, stored, awayTimer>>  BY DEF Sa!OnUserRawMessage
<1>3. /\ m' \in Modules /\ m'.clientSet = text /\ m'.weSet = FALSE /\ m'.loaded = m.loaded
      /\ m'.min = m.min
  BY <1>1, AwayParts DEF Modules
<1>4. /\ irc' = "connected" => away' = IF text THEN "client" ELSE "back"
      /\ irc' # "connected" => away' = away
  BY <1>1 DEF Sa!Put
<1>5. irc' = irc /\ clients' = clients /\ stored' = stored /\ awayTimer' = awayTimer  BY <1>1, <1>2
<1>6. settled' \in BOOLEAN /\ (settled' => settled /\ (text \/ clients >= m.min))
  BY <1>1, AwayParts
<1>7. away' \in {"back", "module", "client", "left"} /\ (irc' # "connected" => away' = "back")
      /\ (irc' = "connected" => away' # "module")
  BY <1>4, <1>5, AwayParts
<1>8. settled' /\ ~m'.clientSet => ~(clients' < m'.min)  BY <1>3, <1>5, <1>6, AwayParts
<1>9. awayTimer' /\ settled' => clients' < m'.min  BY <1>3, <1>5, <1>6, AwayParts
<1>10. /\ irc' \in {"none", "registering", "connected"} /\ clients' \in 0..MaxClients
       /\ stored' \in StoredValues /\ awayTimer' \in BOOLEAN
  BY <1>5, AwayParts
<1> QED  BY <1>2, <1>3, <1>6, <1>7, <1>8, <1>9, <1>10 DEF AwayInv, FlagsRight

LEMMA AwaySettingsKeep == ASSUME AwayInv, Sa!SetAwayWait \/ Sa!SetMinClients PROVE AwayInv'
<1>1. CASE Sa!SetAwayWait
  <2>1. PICK w \in 0..1 : m' = [m EXCEPT !.wait = w] /\ stored' = [stored EXCEPT !.wait = w]
    BY <1>1 DEF Sa!SetAwayWait
  <2>2. UNCHANGED <<irc, clients, away, awayTimer, settled>>  BY <1>1 DEF Sa!SetAwayWait
  <2>3. m' \in Modules /\ m'.loaded = m.loaded /\ m'.min = m.min /\ m'.clientSet = m.clientSet
        /\ m'.weSet = m.weSet
    BY <2>1, AwayParts DEF Modules
  <2>4. stored' \in StoredValues
    <3>1. w \in {0, 1, Sa!Unset}  OBVIOUS
    <3> QED  BY <2>1, <3>1, AwayParts DEF StoredValues
  <2> QED  BY <2>2, <2>3, <2>4 DEF AwayInv, FlagsRight
<1>2. CASE Sa!SetMinClients
  <2>1. PICK k \in 0..MaxClients : m' = [m EXCEPT !.min = k] /\ stored' = [stored EXCEPT !.min = k]
    BY <1>2 DEF Sa!SetMinClients
  <2>2. UNCHANGED <<irc, clients, away, awayTimer>> /\ settled' = FALSE  BY <1>2 DEF Sa!SetMinClients
  <2>3. m' \in Modules /\ m'.loaded = m.loaded /\ m'.clientSet = m.clientSet /\ m'.weSet = m.weSet
    BY <2>1, AwayParts DEF Modules
  <2>4. stored' \in StoredValues  BY <2>1, AwayParts DEF StoredValues
  <2> QED  BY <2>2, <2>3, <2>4 DEF AwayInv, FlagsRight
<1> QED  BY <1>1, <1>2

LEMMA AwayTimerKeeps == ASSUME AwayInv, Sa!RunJob PROVE AwayInv'
<1>1. awayTimer /\ awayTimer' = FALSE /\ UNCHANGED <<irc, clients, stored, settled>> /\ Sa!AwayNow(m)
  BY DEF Sa!RunJob
<1>2. m.loaded /\ (settled => clients < m.min)  BY <1>1, AwayParts
<1>3. /\ m' \in Modules /\ m'.loaded = m.loaded /\ m'.min = m.min /\ m'.clientSet = m.clientSet
      /\ (m.clientSet => m'.weSet = m.weSet /\ away' = away)
      /\ (~m.clientSet => m'.weSet = TRUE)
      /\ (~m.clientSet /\ irc' = "connected" => away' = "module")
      /\ (irc' # "connected" => away' = away)
      /\ away' \in {"back", "module", "client", "left"}
  BY <1>1, AwayParts, AwayNowFacts
<1>4. ~(m'.clientSet /\ m'.weSet) /\ (irc' # "connected" => away' = "back")
      /\ (irc' = "connected" => (m'.weSet <=> away' = "module"))
  BY <1>1, <1>2, <1>3, AwayParts
<1>5. settled' /\ ~m'.clientSet /\ irc' = "connected" => away' = "module" /\ clients' < m'.min
  BY <1>1, <1>2, <1>3
<1>6. /\ irc' \in {"none", "registering", "connected"} /\ clients' \in 0..MaxClients
      /\ stored' \in StoredValues /\ settled' \in BOOLEAN /\ awayTimer' = FALSE /\ m'.loaded
  BY <1>1, <1>2, <1>3, AwayParts
<1> QED  BY <1>3, <1>4, <1>5, <1>6 DEF AwayInv, FlagsRight

LEMMA AwayConnectionKeeps == ASSUME AwayInv, Sa!Connect \/ Sa!Disconnect PROVE AwayInv'
<1>1. /\ irc' \in {"none", "registering"} /\ away' = "back"
      /\ UNCHANGED <<clients, m, stored, awayTimer, settled>>
  BY DEF Sa!Connect, Sa!Disconnect
<1> QED  BY <1>1 DEF AwayInv, FlagsRight

\* The user is told that he is back, or is away.
LEMMA BackKeeps ==
  ASSUME AwayInv, m.loaded, Sa!SetBack(m), settled' = TRUE, irc' = irc \/ away = "back",
         irc' \in {"none", "registering", "connected"}, clients' \in 0..MaxClients,
         stored' = stored, ~(clients' < m.min)
  PROVE  AwayInv'
<1>1. /\ m' \in Modules /\ m'.loaded = m.loaded /\ m'.min = m.min /\ m'.clientSet = m.clientSet
      /\ m'.weSet = FALSE /\ awayTimer' = FALSE
      /\ (~m.weSet => away' = away)
      /\ (m.weSet /\ irc' = "connected" => away' = "back")
      /\ (irc' # "connected" => away' = away)
      /\ away' \in {"back", "module", "client", "left"}
  BY AwayParts, SetBackFacts
<1>2. irc' = "connected" => away' # "module"
  <2>1. CASE m.weSet
    BY <1>1, <2>1
  <2>2. CASE ~m.weSet
    BY <1>1, <2>2, AwayParts
  <2> QED  BY <2>1, <2>2
<1>3. irc' # "connected" => away' = "back"  BY <1>1, AwayParts
<1>4. stored' \in StoredValues  BY AwayParts
<1> QED  BY <1>1, <1>2, <1>3, <1>4 DEF AwayInv, FlagsRight

LEMMA AwayWelcomeKeeps == ASSUME AwayInv, Sa!Welcome PROVE AwayInv'
<1>1. irc = "registering" /\ irc' = "connected" /\ UNCHANGED <<clients, stored>> /\ away = "back"
  BY AwayParts DEF Sa!Welcome
<1>2. CASE ~m.loaded
  <2>1. UNCHANGED <<away, m, awayTimer, settled>>  BY <1>2 DEF Sa!Welcome, Sa!Hook, Sa!Nothing
  <2> QED  BY <1>1, <1>2, <2>1 DEF AwayInv, FlagsRight
<1>3. CASE m.loaded
  <2>1. Sa!OnIRCConnected  BY <1>3 DEF Sa!Welcome, Sa!Hook
  <2>2. settled' = TRUE /\ \/ clients' >= m.min /\ Sa!SetBack(m)
                           \/ ~(clients' >= m.min) /\ Sa!AwayNow(m) /\ UNCHANGED awayTimer
    BY <2>1 DEF Sa!OnIRCConnected, Sa!Settle, Sa!MinClientsConnected
  <2>3. clients' \in 0..MaxClients /\ clients' \in Int /\ m.min \in Int  BY <1>1, AwayParts
  <2>4. CASE clients' >= m.min /\ Sa!SetBack(m)
    <3>1. ~(clients' < m.min)  BY <2>3, <2>4
    <3> QED  BY <1>1, <1>3, <2>2, <2>3, <2>4, <3>1, BackKeeps
  <2>5. CASE ~(clients' >= m.min) /\ Sa!AwayNow(m) /\ UNCHANGED awayTimer
    <3>1. /\ m' \in Modules /\ m'.loaded = m.loaded /\ m'.min = m.min /\ m'.clientSet = m.clientSet
          /\ (m.clientSet => m'.weSet = m.weSet /\ away' = away)
          /\ (~m.clientSet => m'.weSet = TRUE)
          /\ (~m.clientSet /\ irc' = "connected" => away' = "module")
          /\ away' \in {"back", "module", "client", "left"}
      BY <2>5, AwayParts, AwayNowFacts
    <3>2. clients' < m'.min  BY <2>3, <2>5, <3>1
    <3>3. ~(m'.clientSet /\ m'.weSet) /\ (m'.weSet <=> away' = "module")
          /\ (~m'.clientSet => away' = "module")
      BY <1>1, <3>1, AwayParts
    <3>4. awayTimer' \in BOOLEAN /\ stored' \in StoredValues  BY <1>1, <2>5, AwayParts
    <3> QED  BY <1>1, <1>3, <2>2, <2>3, <3>1, <3>2, <3>3, <3>4 DEF AwayInv, FlagsRight
  <2> QED  BY <2>2, <2>4, <2>5
<1> QED  BY <1>2, <1>3

\* No hook acts, and what was settled stays so.
LEMMA ClientsChange ==
  ASSUME AwayInv, clients' \in 0..MaxClients, UNCHANGED <<irc, away, m, stored, awayTimer>>,
         settled' = FALSE \/ (settled' = settled /\ (clients' < m.min <=> clients < m.min))
  PROVE  AwayInv'
<1>1. settled' \in BOOLEAN  BY AwayParts
<1>2. awayTimer' /\ settled' => clients' < m'.min  BY AwayParts
<1>3. m'.loaded /\ irc' = "connected" => FlagsRight(m', away', awayTimer', settled', clients')
  BY AwayParts DEF FlagsRight
<1> QED  BY <1>1, <1>2, <1>3 DEF AwayInv, FlagsRight

LEMMA AwayClientsKeep == ASSUME AwayInv, Sa!Login \/ Sa!Leave \/ Sa!Jump PROVE AwayInv'
<1>0. clients \in 0..MaxClients /\ MaxClients \in Nat /\ m.min \in Int /\ clients \in Int
  BY AwayParts
<1>1. CASE Sa!Jump
  <2>1. clients' \in 0..MaxClients /\ settled' = FALSE /\ UNCHANGED <<irc, away, m, stored, awayTimer>>
    BY <1>0, <1>1 DEF Sa!Jump
  <2> QED  BY <2>1, ClientsChange
<1>2. CASE Sa!Login
  <2>1. clients < MaxClients /\ clients' = clients + 1 /\ UNCHANGED <<irc, stored>>
    BY <1>2 DEF Sa!Login
  <2>2. clients' \in 0..MaxClients  BY <1>0, <2>1
  <2>3. \/ m.loaded /\ clients' >= m.min /\ Sa!SetBack(m) /\ settled' = TRUE
        \/ m.loaded /\ ~(clients' >= m.min) /\ UNCHANGED <<away, m, awayTimer, settled>>
        \/ ~m.loaded /\ UNCHANGED <<away, m, awayTimer, settled>>
    BY <1>2 DEF Sa!Login, Sa!Hook, Sa!OnClientLogin, Sa!Nothing, Sa!Settle, Sa!MinClientsConnected
  <2>4. CASE m.loaded /\ clients' >= m.min /\ Sa!SetBack(m) /\ settled' = TRUE
    <3>1. ~(clients' < m.min)  BY <1>0, <2>1, <2>4
    <3>2. irc' \in {"none", "registering", "connected"} /\ irc' = irc /\ stored' = stored
      BY <2>1, AwayParts
    <3> QED  BY <2>2, <2>4, <3>1, <3>2, BackKeeps
  <2>5. CASE m.loaded /\ ~(clients' >= m.min) /\ UNCHANGED <<away, m, awayTimer, settled>>
    <3>1. clients' < m.min <=> clients < m.min  BY <1>0, <2>1, <2>5
    <3> QED  BY <2>1, <2>2, <2>5, <3>1, ClientsChange
  <2>6. CASE ~m.loaded /\ UNCHANGED <<away, m, awayTimer, settled>>
    BY <2>1, <2>2, <2>6, AwayParts DEF AwayInv, FlagsRight
  <2> QED  BY <2>3, <2>4, <2>5, <2>6
<1>3. CASE Sa!Leave
  <2>1. clients > 0 /\ clients' = clients - 1 /\ UNCHANGED <<irc, stored>>
    BY <1>3 DEF Sa!Leave
  <2>2. clients' \in 0..MaxClients  BY <1>0, <2>1
  <2>3. \/ m.loaded /\ clients' >= m.min /\ UNCHANGED <<away, m, awayTimer, settled>>
        \/ /\ m.loaded /\ ~(clients' >= m.min) /\ m' = m /\ awayTimer' = TRUE
           /\ settled' = TRUE /\ UNCHANGED away
        \/ ~m.loaded /\ UNCHANGED <<away, m, awayTimer, settled>>
    BY <1>3 DEF Sa!Leave, Sa!Hook, Sa!OnClientDisconnect, Sa!Nothing, Sa!Settle,
                Sa!MinClientsConnected, Sa!AwayLater
  <2>4. CASE m.loaded /\ clients' >= m.min /\ UNCHANGED <<away, m, awayTimer, settled>>
    <3>1. clients' < m.min <=> clients < m.min  BY <1>0, <2>1, <2>4
    <3> QED  BY <2>1, <2>2, <2>4, <3>1, ClientsChange
  <2>5. CASE /\ m.loaded /\ ~(clients' >= m.min) /\ m' = m /\ awayTimer' = TRUE
             /\ settled' = TRUE /\ UNCHANGED away
    <3>1. clients' < m'.min  BY <1>0, <2>1, <2>5
    <3> QED  BY <2>1, <2>2, <2>5, <3>1 DEF AwayInv, FlagsRight
  <2>6. CASE ~m.loaded /\ UNCHANGED <<away, m, awayTimer, settled>>
    BY <2>1, <2>2, <2>6, AwayParts DEF AwayInv, FlagsRight
  <2> QED  BY <2>3, <2>4, <2>5, <2>6
<1> QED  BY <1>1, <1>2, <1>3

LEMMA AwayStep == AwayInv /\ (Sa!Next \/ UNCHANGED saVars) => AwayInv'
<1> SUFFICES ASSUME AwayInv, Sa!Next \/ UNCHANGED saVars PROVE AwayInv'  OBVIOUS
<1>1. CASE UNCHANGED saVars
  BY <1>1 DEF saVars, AwayInv, FlagsRight
<1> QED  BY <1>1, AwayLoadKeeps, AwayUnloadKeeps, UserAwayKeeps, AwaySettingsKeep, AwayTimerKeeps,
            AwayConnectionKeeps, AwayWelcomeKeeps, AwayClientsKeep DEF Sa!Next

LEMMA AwayInit == Sa!Init => AwayInv
<1> SUFFICES ASSUME Sa!Init PROVE AwayInv  OBVIOUS
<1>1. /\ irc = "none" /\ clients = 0 /\ away = "back" /\ m = Sa!Fresh /\ awayTimer = FALSE
      /\ settled = FALSE /\ stored = [wait |-> Sa!Unset, min |-> Sa!Unset]
  BY DEF Sa!Init
<1>2. m \in Modules /\ m.clientSet = FALSE  BY <1>1, AwayAssumption DEF Sa!Fresh, Modules
<1>3. stored \in StoredValues  BY <1>1 DEF StoredValues
<1>4. clients \in 0..MaxClients  BY <1>1, AwayAssumption
<1> QED  BY <1>1, <1>2, <1>3, <1>4 DEF AwayInv, FlagsRight

LEMMA AwayTold == AwayInv => Sa!TypeOK /\ Sa!AwayRight
  BY AwayParts DEF Sa!TypeOK, Sa!AwayRight
-----------------------------------------------------------------------------
(* dcc and bouncedcc *)

Transfers ==
  [kind : {"send", "get", "bounce"}, size : 0..MaxFile,
   st : {"idle", "listen", "connect", "up", "closed"}, file : {"none", "open", "closed"},
   from : Nat, sofar : Nat, flight : Nat, acks : Seq(Nat), got : Nat, sent : Nat, acked : Nat,
   paused : BOOLEAN]

\* The file is open from OpenFile to Close.
FileRight(x) == IF x.kind = "bounce" THEN x.file = "none"
                ELSE /\ x.st = "idle" => x.file = "none"
                     /\ x.st \in {"listen", "connect", "up"} => x.file = "open"
                     /\ x.st = "closed" => x.file # "open"

\* What was read of a file is written or on the way; before that, nothing is.
SendRight(x) == x.kind = "send" => /\ x.st # "closed" => x.sofar = x.got + x.flight /\ x.sofar <= x.size
                                   /\ x.st # "up" => x.flight = 0

\* The same for a bounced transfer; a socket that is not paused has room for a read.
BounceRight(x) == x.kind = "bounce" => /\ x.st # "closed" => x.sent = x.got + x.flight
                                       /\ x.st # "up" => x.flight = 0 /\ ~x.paused
                                       /\ x.flight < MaxDCCBuffer + Packet
                                       /\ ~x.paused => x.flight < MaxDCCBuffer

DccInv == t \in Transfers /\ broken \in BOOLEAN /\ FileRight(t) /\ SendRight(t) /\ BounceRight(t)

LEMMA DccParts ==
  DccInv => /\ t \in Transfers /\ broken \in BOOLEAN /\ FileRight(t) /\ SendRight(t) /\ BounceRight(t)
            /\ t.size \in 0..MaxFile /\ t.sofar \in Nat /\ t.flight \in Nat /\ t.acks \in Seq(Nat)
            /\ t.got \in Nat /\ t.sent \in Nat /\ t.acked \in Nat /\ t.paused \in BOOLEAN
            /\ t.kind \in {"send", "get", "bounce"} /\ t.size \in Nat
  BY DccAssumption DEF DccInv, Transfers

\* A new state of the transfer.
LEMMA Stepped ==
  ASSUME NEW st \in {"idle", "listen", "connect", "up", "closed"}, NEW x \in Transfers
  PROVE  LET y == [x EXCEPT !.st = st]
         IN  /\ y \in Transfers /\ y.kind = x.kind /\ y.size = x.size /\ y.st = st /\ y.file = x.file
             /\ y.sofar = x.sofar /\ y.flight = x.flight /\ y.got = x.got /\ y.sent = x.sent
             /\ y.paused = x.paused
  BY DEF Transfers

\* What Close leaves.
LEMMA Closed ==
  ASSUME NEW x \in Transfers, x.kind = "bounce" => x.file = "none"
  PROVE  /\ Dc!Close(x) \in Transfers /\ FileRight(Dc!Close(x)) /\ SendRight(Dc!Close(x))
         /\ BounceRight(Dc!Close(x))
<1> DEFINE file == IF x.file = "open" THEN "closed" ELSE x.file
           none == <<>>
           y == [x EXCEPT !.st = "closed", !.file = file, !.flight = 0, !.acks = none, !.paused = FALSE]
<1>1. Dc!Close(x) = y  BY DEF Dc!Close, Transfers
<1>2. file \in {"none", "open", "closed"} /\ file # "open" /\ (x.file = "none" => file = "none")
  BY DEF Transfers
<1>3. none \in Seq(Nat)  OBVIOUS
<1> HIDE DEF file, none
<1>4. /\ y \in Transfers /\ y.kind = x.kind /\ y.st = "closed" /\ y.file = file /\ y.flight = 0
      /\ y.paused = FALSE
  BY <1>2, <1>3 DEF Transfers
<1> HIDE DEF y
<1>5. FileRight(y)  BY <1>2, <1>4 DEF FileRight
<1>6. SendRight(y)  BY <1>4 DEF SendRight
<1>7. BounceRight(y)  BY <1>4, DccAssumption DEF BounceRight
<1> QED  BY <1>1, <1>4, <1>5, <1>6, <1>7

\* An end hangs up, or a transfer is over.
LEMMA CloseKeeps ==
  ASSUME DccInv, t' = Dc!Close(t), broken' \in BOOLEAN
  PROVE  DccInv'
<1>1. t \in Transfers /\ (t.kind = "bounce" => t.file = "none")
  BY DccParts DEF FileRight
<1> DEFINE y == Dc!Close(t)
<1>2. y \in Transfers /\ FileRight(y) /\ SendRight(y) /\ BounceRight(y)  BY <1>1, Closed
<1>3. t' = y  OBVIOUS
<1> HIDE DEF y
<1> QED  BY <1>2, <1>3 DEF DccInv, FileRight, SendRight, BounceRight

\* OpenFile, and steps that only change the state of the transfer.
LEMMA OpenFileKeeps ==
  ASSUME DccInv, NEW ok \in BOOLEAN, Dc!SendFile(ok) \/ Dc!GetFile(ok)
  PROVE  DccInv'
<1>1. PICK st \in {"listen", "connect"} : Dc!OpenFile(st, ok)  BY DEF Dc!SendFile, Dc!GetFile
<1>2. t.kind \in {"send", "get"} /\ t.st = "idle" /\ t.file = "none"
  BY DccParts DEF Dc!SendFile, Dc!GetFile, FileRight
<1>3. CASE ok
  <2> DEFINE y == [t EXCEPT !.st = st, !.file = "open"]
  <2>1. t' = y /\ broken' = FALSE  BY <1>1, <1>3 DEF Dc!OpenFile
  <2>2. /\ y \in Transfers /\ y.kind = t.kind /\ y.size = t.size /\ y.st = st /\ y.file = "open"
        /\ y.sofar = t.sofar /\ y.flight = t.flight /\ y.got = t.got /\ y.sent = t.sent
        /\ y.paused = t.paused
    BY DccParts DEF Transfers
  <2> HIDE DEF y
  <2>3. FileRight(y) /\ SendRight(y) /\ BounceRight(y)
    BY <1>2, <2>2, DccParts DEF FileRight, SendRight, BounceRight
  <2> QED  BY <2>1, <2>2, <2>3 DEF DccInv, FileRight, SendRight, BounceRight
<1>4. CASE ~ok
  <2> DEFINE y == [t EXCEPT !.st = "closed"]
  <2>1. t' = y /\ broken' = TRUE  BY <1>1, <1>4 DEF Dc!OpenFile
  <2>2. /\ y \in Transfers /\ y.kind = t.kind /\ y.size = t.size /\ y.st = "closed" /\ y.file = t.file
        /\ y.sofar = t.sofar /\ y.flight = t.flight /\ y.got = t.got /\ y.sent = t.sent
        /\ y.paused = t.paused
    BY DccParts, Stepped
  <2> HIDE DEF y
  <2>3. FileRight(y) /\ SendRight(y) /\ BounceRight(y)
    BY <1>2, <2>2, DccParts DEF FileRight, SendRight, BounceRight
  <2> QED  BY <2>1, <2>2, <2>3 DEF DccInv, FileRight, SendRight, BounceRight
<1> QED  BY <1>3, <1>4

LEMMA StateKeeps ==
  ASSUME DccInv, Dc!Connected \/ Dc!DCCRequest \/ Dc!GetSockObj \/ Dc!BounceConnected
  PROVE  DccInv'
<1>1. PICK st \in {"listen", "connect", "up"} :
        /\ t' = [t EXCEPT !.st = st] /\ UNCHANGED broken /\ t.st \in {"idle", "listen", "connect"}
        /\ t.kind \in {"get", "bounce"} /\ (t.kind = "get" => t.st = "connect")
  BY DEF Dc!Connected, Dc!DCCRequest, Dc!GetSockObj, Dc!BounceConnected
<1> DEFINE y == [t EXCEPT !.st = st]
<1>2. /\ y \in Transfers /\ y.kind = t.kind /\ y.size = t.size /\ y.st = st /\ y.file = t.file
      /\ y.sofar = t.sofar /\ y.flight = t.flight /\ y.got = t.got /\ y.sent = t.sent
      /\ y.paused = t.paused
  BY DccParts, Stepped
<1>3. t' = y  BY <1>1
<1> HIDE DEF y
<1>4. FileRight(y) /\ SendRight(y)  BY <1>1, <1>2, DccParts DEF FileRight, SendRight
<1>5. BounceRight(y)
  <2> SUFFICES ASSUME t.kind = "bounce" PROVE BounceRight(y)  BY <1>2 DEF BounceRight
  <2>1. t.flight = 0 /\ ~t.paused /\ t.sent = t.got + t.flight  BY <1>1, DccParts DEF BounceRight
  <2>2. 0 < MaxDCCBuffer /\ 0 < MaxDCCBuffer + Packet  BY DccAssumption
  <2> QED  BY <1>1, <1>2, <2>1, <2>2 DEF BounceRight
<1>6. broken' \in BOOLEAN  BY <1>1, DccParts
<1> QED  BY <1>2, <1>3, <1>4, <1>5, <1>6 DEF DccInv, FileRight, SendRight, BounceRight

\* A transfer that begins in the middle of the file.
LEMMA ResumeKeeps == ASSUME DccInv, Dc!Resume \/ Dc!BounceResume PROVE DccInv'
<1>1. CASE Dc!Resume
  <2>1. PICK p \in 1..t.size : t' = [t EXCEPT !.from = p, !.sofar = p, !.got = p]
    BY <1>1 DEF Dc!Resume
  <2>2. t.kind = "send" /\ t.st = "listen" /\ UNCHANGED broken  BY <1>1 DEF Dc!Resume
  <2>3. p \in Nat /\ p <= t.size  BY DccParts
  <2> DEFINE y == [t EXCEPT !.from = p, !.sofar = p, !.got = p]
  <2>4. /\ y \in Transfers /\ y.kind = t.kind /\ y.size = t.size /\ y.st = t.st /\ y.file = t.file
        /\ y.sofar = p /\ y.flight = t.flight /\ y.got = p
    BY <2>3, DccParts DEF Transfers
  <2>5. t' = y  BY <2>1
  <2> HIDE DEF y
  <2>6. FileRight(y)  BY <2>2, <2>4, DccParts DEF FileRight
  <2>7. SendRight(y)
    <3>1. t.flight = 0  BY <2>2, DccParts DEF SendRight
    <3> QED  BY <2>2, <2>3, <2>4, <3>1 DEF SendRight
  <2>8. BounceRight(y)  BY <2>2, <2>4 DEF BounceRight
  <2>9. broken' \in BOOLEAN  BY <2>2, DccParts
  <2> QED  BY <2>4, <2>5, <2>6, <2>7, <2>8, <2>9 DEF DccInv, FileRight, SendRight, BounceRight
<1>2. CASE Dc!BounceResume
  <2>1. PICK p \in 1..t.size : t' = [t EXCEPT !.from = p, !.sent = p, !.got = p, !.acked = p]
    BY <1>2 DEF Dc!BounceResume
  <2>2. t.kind = "bounce" /\ t.st = "listen" /\ UNCHANGED broken  BY <1>2 DEF Dc!BounceResume
  <2>3. p \in Nat /\ p <= t.size  BY DccParts
  <2> DEFINE y == [t EXCEPT !.from = p, !.sent = p, !.got = p, !.acked = p]
  <2>4. /\ y \in Transfers /\ y.kind = t.kind /\ y.size = t.size /\ y.st = t.st /\ y.file = t.file
        /\ y.sent = p /\ y.flight = t.flight /\ y.got = p /\ y.paused = t.paused
    BY <2>3, DccParts DEF Transfers
  <2>5. t' = y  BY <2>1
  <2> HIDE DEF y
  <2>6. FileRight(y)  BY <2>2, <2>4, DccParts DEF FileRight
  <2>7. SendRight(y)  BY <2>2, <2>4 DEF SendRight
  <2>8. BounceRight(y)
    <3>1. t.flight = 0 /\ ~t.paused /\ t.flight < MaxDCCBuffer + Packet /\ t.flight < MaxDCCBuffer
      BY <2>2, DccParts DEF BounceRight
    <3> QED  BY <2>2, <2>3, <2>4, <3>1 DEF BounceRight
  <2>9. broken' \in BOOLEAN  BY <2>2, DccParts
  <2> QED  BY <2>4, <2>5, <2>6, <2>7, <2>8, <2>9 DEF DccInv, FileRight, SendRight, BounceRight
<1> QED  BY <1>1, <1>2

\* SendPacket and an answer that is read leave a file that is sent right.
LEMMA SendPacketRight ==
  ASSUME NEW x \in Transfers, x.kind = "send", x.st = "up", SendRight(x), FileRight(x)
  PROVE  LET y == Dc!SendPacket(x)
         IN  /\ y \in Transfers /\ y.kind = "send" /\ y.st = "up"
             /\ FileRight(y) /\ SendRight(y) /\ BounceRight(y)
<1> DEFINE y == Dc!SendPacket(x)
           rest == x.size - x.sofar
           n == IF rest < Packet THEN rest ELSE Packet
           z == [x EXCEPT !.sofar = @ + n, !.flight = @ + n]
<1>0. y = x \/ y = z  BY DEF Dc!SendPacket
<1>1. /\ x.size \in Nat /\ x.sofar \in Nat /\ x.flight \in Nat /\ x.got \in Nat
      /\ x.sofar = x.got + x.flight /\ x.sofar <= x.size
  BY DccAssumption DEF Transfers, SendRight
<1>2. rest \in Nat  BY <1>1
<1>3. n \in Nat /\ n <= rest  BY <1>2, DccAssumption
<1>4. CASE y = x
  BY <1>4 DEF BounceRight
<1>5. CASE y = z
  <2> DEFINE u == x.sofar + n
             v == x.flight + n
  <2> HIDE DEF n
  <2>1. u \in Nat /\ v \in Nat /\ u = x.got + v /\ u <= x.size  BY <1>1, <1>3
  <2>2. z = [x EXCEPT !.sofar = u, !.flight = v]  OBVIOUS
  <2> HIDE DEF u, v, z
  <2>3. /\ z \in Transfers /\ z.kind = x.kind /\ z.size = x.size /\ z.st = x.st /\ z.file = x.file
        /\ z.sofar = u /\ z.flight = v /\ z.got = x.got
    BY <2>1, <2>2 DEF Transfers
  <2>4. SendRight(z)  BY <2>1, <2>3 DEF SendRight
  <2>5. FileRight(z) /\ BounceRight(z)  BY <2>3 DEF FileRight, BounceRight
  <2> QED  BY <1>5, <2>3, <2>4, <2>5
<1> QED  BY <1>0, <1>4, <1>5

LEMMA AcceptKeeps == ASSUME DccInv, Dc!Accept PROVE DccInv'
<1> DEFINE x == [t EXCEPT !.st = "up"]
           y == Dc!SendPacket(x)
<1>1. t.kind = "send" /\ t.st = "listen" /\ t' = y /\ UNCHANGED broken
  BY DEF Dc!Accept, Dc!HandOver
<1>2. /\ x \in Transfers /\ x.kind = t.kind /\ x.size = t.size /\ x.st = "up" /\ x.file = t.file
      /\ x.sofar = t.sofar /\ x.flight = t.flight /\ x.got = t.got
  BY DccParts DEF Transfers
<1> HIDE DEF x
<1>3. FileRight(x) /\ SendRight(x)  BY <1>1, <1>2, DccParts DEF FileRight, SendRight
<1>4. y \in Transfers /\ FileRight(y) /\ SendRight(y) /\ BounceRight(y)
  BY <1>1, <1>2, <1>3, SendPacketRight
<1> HIDE DEF y
<1>5. broken' \in BOOLEAN  BY <1>1, DccParts
<1> QED  BY <1>1, <1>4, <1>5 DEF DccInv, FileRight, SendRight, BounceRight

LEMMA ReadDataKeeps == ASSUME DccInv, Dc!ReadData PROVE DccInv'
<1> DEFINE x == [t EXCEPT !.acks = Tail(@)]
           z == Dc!SendPacket(x)
<1>1. t.kind = "send" /\ t.st = "up" /\ t.acks # <<>> /\ UNCHANGED broken /\ (t' = x \/ t' = z)
  BY DEF Dc!ReadData, Dc!ReadAck
<1>2. Tail(t.acks) \in Seq(Nat)  BY <1>1, DccParts
<1>3. /\ x \in Transfers /\ x.kind = t.kind /\ x.size = t.size /\ x.st = t.st /\ x.file = t.file
      /\ x.sofar = t.sofar /\ x.flight = t.flight /\ x.got = t.got
  BY <1>2, DccParts DEF Transfers
<1> HIDE DEF x
<1>4. FileRight(x) /\ SendRight(x) /\ BounceRight(x)
  BY <1>1, <1>3, DccParts DEF FileRight, SendRight, BounceRight
<1>5. z \in Transfers /\ FileRight(z) /\ SendRight(z) /\ BounceRight(z)
  BY <1>1, <1>3, <1>4, SendPacketRight
<1> HIDE DEF z
<1>6. broken' \in BOOLEAN  BY <1>1, DccParts
<1> QED  BY <1>1, <1>3, <1>4, <1>5, <1>6 DEF DccInv, FileRight, SendRight, BounceRight

LEMMA PeerReadsKeeps == ASSUME DccInv, Dc!PeerReads PROVE DccInv'
<1>1. PICK n \in 1..t.flight :
        t' = [t EXCEPT !.flight = @ - n, !.got = @ + n, !.acks = Append(@, (t.got + n) % Word)]
  BY DEF Dc!PeerReads
<1>2. t.kind = "send" /\ t.st = "up" /\ UNCHANGED broken  BY DEF Dc!PeerReads
<1> DEFINE u == t.flight - n
           v == t.got + n
           k == Append(t.acks, (t.got + n) % Word)
           y == [t EXCEPT !.flight = u, !.got = v, !.acks = k]
<1>3. n \in Nat /\ n <= t.flight /\ t.flight \in Nat /\ t.got \in Nat  BY DccParts
<1>4. u \in Nat /\ v \in Nat /\ v + u = t.got + t.flight  BY <1>3
<1>5. k \in Seq(Nat)
  <2>1. (t.got + n) % Word \in Nat  BY <1>3, DccAssumption
  <2> QED  BY <2>1, DccParts
<1>6. t' = y  BY <1>1
<1> HIDE DEF u, v, k
<1>7. /\ y \in Transfers /\ y.kind = t.kind /\ y.size = t.size /\ y.st = t.st /\ y.file = t.file
      /\ y.sofar = t.sofar /\ y.flight = u /\ y.got = v
  BY <1>4, <1>5, DccParts DEF Transfers
<1> HIDE DEF y
<1>8. SendRight(y)
  <2>1. t.sofar = t.got + t.flight /\ t.sofar <= t.size  BY <1>2, DccParts DEF SendRight
  <2> QED  BY <1>2, <1>4, <1>7, <2>1 DEF SendRight
<1>9. FileRight(y) /\ BounceRight(y)  BY <1>2, <1>7, DccParts DEF FileRight, BounceRight
<1>10. broken' \in BOOLEAN  BY <1>2, DccParts
<1> QED  BY <1>6, <1>7, <1>8, <1>9, <1>10 DEF DccInv, FileRight, SendRight, BounceRight

LEMMA ReadFileKeeps == ASSUME DccInv, Dc!ReadFile PROVE DccInv'
<1>1. PICK n \in 1..Packet : t' = Dc!Written(t, n)  BY DEF Dc!ReadFile
<1>2. t.kind = "get" /\ t.st = "up" /\ UNCHANGED broken  BY DEF Dc!ReadFile
<1> DEFINE u == t.sofar + n
           y == [t EXCEPT !.sofar = u]
<1>3. u \in Nat  BY DccParts, DccAssumption
<1>4. t' = y \/ t' = Dc!Close(y)  BY <1>1 DEF Dc!Written
<1> HIDE DEF u
<1>5. y \in Transfers /\ y.kind = t.kind /\ y.st = t.st /\ y.file = t.file
  BY <1>3, DccParts DEF Transfers
<1> DEFINE z == Dc!Close(y)
<1> HIDE DEF y
<1>6. FileRight(y) /\ SendRight(y) /\ BounceRight(y)
  BY <1>2, <1>5, DccParts DEF FileRight, SendRight, BounceRight
<1>7. z \in Transfers /\ FileRight(z) /\ SendRight(z) /\ BounceRight(z)  BY <1>2, <1>5, Closed
<1>8. t' = y \/ t' = z  BY <1>4
<1> HIDE DEF z
<1>9. broken' \in BOOLEAN  BY <1>2, DccParts
<1> QED  BY <1>5, <1>6, <1>7, <1>8, <1>9 DEF DccInv, FileRight, SendRight, BounceRight

\* A bounced transfer: reading, pausing, writing and answering.
LEMMA BounceReadKeeps == ASSUME DccInv, Dc!BounceRead PROVE DccInv'
<1>0. PICK n \in 1..Packet : t' = Dc!Throttled([t EXCEPT !.sent = @ + n, !.flight = @ + n])
  BY DEF Dc!BounceRead
<1> DEFINE u == t.sent + n
           v == t.flight + n
           w == v >= MaxDCCBuffer
           y == [t EXCEPT !.sent = u, !.flight = v, !.paused = w]
<1>1. t.kind = "bounce" /\ t.st = "up" /\ ~t.paused /\ UNCHANGED broken
  BY DEF Dc!BounceRead
<1>2. t' = y
  <2> DEFINE x == [t EXCEPT !.sent = u, !.flight = v]
             q == x.paused \/ x.flight >= MaxDCCBuffer
  <2>1. x.paused = t.paused /\ x.flight = v  BY DccParts DEF Transfers
  <2>2. t' = [x EXCEPT !.paused = q]  BY <1>0 DEF Dc!Throttled
  <2>3. q = w  BY <1>1, <2>1
  <2>4. t' = [x EXCEPT !.paused = w]  BY <2>2, <2>3
  <2> HIDE DEF q, w, u, v
  <2> QED  BY <2>4
<1>3. t.sent = t.got + t.flight /\ t.flight < MaxDCCBuffer /\ t.flight \in Nat /\ t.got \in Nat
      /\ t.sent \in Nat /\ MaxDCCBuffer \in Nat /\ Packet \in Nat /\ n \in Nat /\ n <= Packet
  BY <1>1, DccParts, DccAssumption DEF BounceRight
<1>4. u \in Nat /\ v \in Nat /\ u = t.got + v /\ v < MaxDCCBuffer + Packet /\ w \in BOOLEAN
      /\ (~w => v < MaxDCCBuffer)
  BY <1>3
<1> HIDE DEF u, v, w
<1>5. /\ y \in Transfers /\ y.kind = t.kind /\ y.st = t.st /\ y.file = t.file
      /\ y.sent = u /\ y.flight = v /\ y.got = t.got /\ y.paused = w
  BY <1>4, DccParts DEF Transfers
<1> HIDE DEF y
<1>6. FileRight(y) /\ SendRight(y)  BY <1>1, <1>5, DccParts DEF FileRight, SendRight
<1>7. BounceRight(y)  BY <1>1, <1>4, <1>5 DEF BounceRight
<1>8. broken' \in BOOLEAN  BY <1>1, DccParts
<1> QED  BY <1>2, <1>5, <1>6, <1>7, <1>8 DEF DccInv, FileRight, SendRight, BounceRight

LEMMA ReadPausedKeeps == ASSUME DccInv, Dc!ReadPaused PROVE DccInv'
<1> DEFINE y == [t EXCEPT !.paused = FALSE]
<1>1. /\ t.kind = "bounce" /\ t.st = "up" /\ t.flight <= MinDCCBuffer /\ UNCHANGED broken
      /\ t' = y
  BY DEF Dc!ReadPaused
<1>2. /\ y \in Transfers /\ y.kind = t.kind /\ y.st = t.st /\ y.file = t.file
      /\ y.sent = t.sent /\ y.flight = t.flight /\ y.got = t.got /\ y.paused = FALSE
  BY DccParts DEF Transfers
<1> HIDE DEF y
<1>3. t.flight < MaxDCCBuffer /\ t.flight < MaxDCCBuffer + Packet
  <2>1. t.flight \in Nat  BY DccParts
  <2> QED  BY <1>1, <2>1, DccAssumption
<1>4. FileRight(y) /\ SendRight(y)  BY <1>1, <1>2, DccParts DEF FileRight, SendRight
<1>5. BounceRight(y)  BY <1>1, <1>2, <1>3, DccParts DEF BounceRight
<1>6. broken' \in BOOLEAN  BY <1>1, DccParts
<1> QED  BY <1>1, <1>2, <1>4, <1>5, <1>6 DEF DccInv, FileRight, SendRight, BounceRight

LEMMA BounceWrittenKeeps == ASSUME DccInv, Dc!BounceWritten PROVE DccInv'
<1> DEFINE u == t.flight - 1
           v == t.got + 1
           k == <<v>>
           y == [t EXCEPT !.flight = u, !.got = v, !.acks = k]
<1>1. t.kind = "bounce" /\ t.st = "up" /\ t.flight > 0 /\ UNCHANGED broken /\ t' = y
  BY DEF Dc!BounceWritten
<1>2. /\ t.sent = t.got + t.flight /\ t.flight \in Nat /\ t.got \in Nat /\ MaxDCCBuffer \in Nat
      /\ Packet \in Nat /\ t.flight < MaxDCCBuffer + Packet
      /\ (~t.paused => t.flight < MaxDCCBuffer)
  BY <1>1, DccParts, DccAssumption DEF BounceRight
<1>3. u \in Nat /\ v \in Nat /\ t.sent = v + u /\ u < MaxDCCBuffer + Packet
      /\ (~t.paused => u < MaxDCCBuffer)
  BY <1>1, <1>2
<1>4. k \in Seq(Nat)  BY <1>3
<1> HIDE DEF u, v, k
<1>5. /\ y \in Transfers /\ y.kind = t.kind /\ y.st = t.st /\ y.file = t.file
      /\ y.sent = t.sent /\ y.flight = u /\ y.got = v /\ y.paused = t.paused
  BY <1>3, <1>4, DccParts DEF Transfers
<1> HIDE DEF y
<1>6. FileRight(y) /\ SendRight(y)  BY <1>1, <1>5, DccParts DEF FileRight, SendRight
<1>7. BounceRight(y)  BY <1>1, <1>3, <1>5 DEF BounceRight
<1>8. broken' \in BOOLEAN  BY <1>1, DccParts
<1> QED  BY <1>1, <1>5, <1>6, <1>7, <1>8 DEF DccInv, FileRight, SendRight, BounceRight

LEMMA BounceAckedKeeps == ASSUME DccInv, Dc!BounceAcked PROVE DccInv'
<1> DEFINE u == Head(t.acks)
           k == <<>>
           y == [t EXCEPT !.acks = k, !.acked = u]
<1>1. t.kind = "bounce" /\ t.st = "up" /\ t.acks # <<>> /\ UNCHANGED broken /\ t' = y
  BY DEF Dc!BounceAcked
<1>2. u \in Nat /\ k \in Seq(Nat)  BY <1>1, DccParts
<1> HIDE DEF u, k
<1>3. /\ y \in Transfers /\ y.kind = t.kind /\ y.st = t.st /\ y.file = t.file
      /\ y.sent = t.sent /\ y.flight = t.flight /\ y.got = t.got /\ y.paused = t.paused
  BY <1>2, DccParts DEF Transfers
<1> HIDE DEF y
<1>4. FileRight(y) /\ SendRight(y) /\ BounceRight(y)
  BY <1>1, <1>3, DccParts DEF FileRight, SendRight, BounceRight
<1>5. broken' \in BOOLEAN  BY <1>1, DccParts
<1> QED  BY <1>1, <1>3, <1>4, <1>5 DEF DccInv, FileRight, SendRight, BounceRight

LEMMA DccStep == DccInv /\ (Dc!Next \/ UNCHANGED dcVars) => DccInv'
<1> SUFFICES ASSUME DccInv, Dc!Next \/ UNCHANGED dcVars PROVE DccInv'  OBVIOUS
<1>1. CASE UNCHANGED dcVars
  BY <1>1 DEF dcVars, DccInv, FileRight, SendRight, BounceRight
<1>2. CASE Dc!SendCommand
  BY <1>2, OpenFileKeeps DEF Dc!SendCommand
<1>3. CASE Dc!OnModCTCP
  <2>1. PICK legal \in BOOLEAN, ok \in BOOLEAN : Dc!GetFile(legal /\ ok)  BY <1>3 DEF Dc!OnModCTCP
  <2> DEFINE both == legal /\ ok
  <2>2. both \in BOOLEAN /\ Dc!GetFile(both)  BY <2>1
  <2> HIDE DEF both
  <2> QED  BY <2>2, OpenFileKeeps
<1>4. CASE Dc!PeerDone \/ Dc!SenderDone \/ Dc!HangUp \/ Dc!BounceHangUp \/ Dc!Timeout
  <2>1. t' = Dc!Close(t) /\ broken' \in {broken, TRUE}
    BY <1>4 DEF Dc!PeerDone, Dc!SenderDone, Dc!HangUp, Dc!BounceHangUp, Dc!Timeout
  <2>2. broken' \in BOOLEAN  BY <2>1, DccParts
  <2> QED  BY <2>1, <2>2, CloseKeeps
<1> QED
  BY <1>1, <1>2, <1>3, <1>4, StateKeeps, ResumeKeeps, AcceptKeeps, ReadDataKeeps, PeerReadsKeeps,
     ReadFileKeeps, BounceReadKeeps, ReadPausedKeeps, BounceWrittenKeeps, BounceAckedKeeps
  DEF Dc!Next

LEMMA DccInit == Dc!Init => DccInv
<1> SUFFICES ASSUME Dc!Init PROVE DccInv  OBVIOUS
<1> DEFINE none == <<>>
<1>1. PICK k \in {"send", "get", "bounce"}, s \in 0..MaxFile :
        t = [kind |-> k, size |-> s, st |-> "idle", file |-> "none", from |-> 0, sofar |-> 0,
             flight |-> 0, acks |-> none, got |-> 0, sent |-> 0, acked |-> 0, paused |-> FALSE]
  BY DEF Dc!Init
<1>2. broken = FALSE  BY DEF Dc!Init
<1>3. none \in Seq(Nat) /\ s \in Nat  BY DccAssumption
<1> HIDE DEF none
<1>4. t \in Transfers  BY <1>1, <1>3 DEF Transfers
<1>5. FileRight(t) /\ SendRight(t)  BY <1>1, <1>3 DEF FileRight, SendRight
<1>6. BounceRight(t)  BY <1>1, DccAssumption DEF BounceRight
<1> QED  BY <1>2, <1>4, <1>5, <1>6 DEF DccInv

LEMMA DccSafe == DccInv => Dc!TypeOK /\ Dc!TransferSafe
<1> SUFFICES ASSUME DccInv PROVE Dc!TypeOK /\ Dc!TransferSafe  OBVIOUS
<1>1. Dc!TypeOK  BY DccParts DEF Dc!TypeOK, Transfers
<1>2. t.kind # "bounce" /\ t.st \in {"listen", "connect", "up"} => t.file = "open"
  BY DccParts DEF FileRight
<1>3. t.st = "closed" => t.file # "open"  BY DccParts DEF FileRight
<1>4. t.kind = "send" /\ t.st = "up" => t.sofar = t.got + t.flight /\ t.sofar <= t.size
  BY DccParts DEF SendRight
<1>5. /\ t.kind = "bounce" /\ t.st = "up" => t.sent = t.got + t.flight
      /\ t.kind = "bounce" => t.flight < MaxDCCBuffer + Packet
  BY DccParts DEF BounceRight
<1> QED  BY <1>1, <1>2, <1>3, <1>4, <1>5 DEF Dc!TransferSafe
-----------------------------------------------------------------------------
(* autoop *)

Nicks == UNION Cases
Keys == Ao!Range(AsLower)
Labels == Keys \cup {"old"}
Notices == [nick : Keys, of : Labels] \cup [peer : Ao!Peers, of : Labels]

\* A queue by nick, and messages that name entries of it that were challenged.
Entries(q) == DOMAIN q \subseteq Keys /\ \A n \in DOMAIN q : q[n] \in BOOLEAN
Challenged(l, q) == l = "old" \/ (l \in DOMAIN q /\ q[l] = TRUE)
Known(S, q) == S \subseteq Notices /\ \A x \in S : Challenged(x.of, q)

PeersRight == peers \in [Ao!Peers -> [nick : Nicks, in : BOOLEAN, op : BOOLEAN]]

OpInv == /\ key \in BOOLEAN /\ op \in BOOLEAN /\ late \in BOOLEAN /\ PeersRight
         /\ Entries(opQueue) /\ Known(out, opQueue) /\ Known(back, opQueue)

LEMMA KeysFacts == (\A n \in Nicks : AsLower[n] \in Keys) /\ "old" \notin Keys
<1>1. ASSUME NEW n \in Nicks PROVE AsLower[n] \in Keys /\ AsLower[n] \in Nicks
  <2> DEFINE C == CHOOSE S \in Cases : n \in S
  <2>1. C \in Cases  BY DEF Nicks
  <2>2. AsLower[n] = CHOOSE x \in C : TRUE  BY DEF AsLower, Nicks
  <2> HIDE DEF C
  <2>3. C # {}  BY <2>1, NicksAssumption
  <2>4. AsLower[n] \in C  BY <2>2, <2>3
  <2>5. n \in DOMAIN AsLower  BY DEF AsLower, Nicks
  <2> QED  BY <2>1, <2>4, <2>5 DEF Keys, Ao!Range, Nicks
<1>2. DOMAIN AsLower = Nicks  BY DEF AsLower, Nicks
<1>3. "old" \notin Nicks  BY NicksAssumption DEF Nicks
<1>4. \A k \in Keys : \E n \in Nicks : k = AsLower[n]  BY <1>2 DEF Keys, Ao!Range
<1> QED  BY <1>1, <1>3, <1>4

\* Messages under new labels: those of entries that go are "old".
LEMMA RelabelledFacts ==
  ASSUME NEW S, NEW f, NEW q, NEW r, Known(S, q), \A n \in DOMAIN f : f[n] \in Labels,
         "old" \in DOMAIN f => f["old"] = "old",
         \A n \in DOMAIN q : q[n] = TRUE => Challenged(IF n \in DOMAIN f THEN f[n] ELSE n, r)
  PROVE  Known(Ao!Relabelled(S, f), r)
<1> SUFFICES ASSUME NEW y \in Ao!Relabelled(S, f) PROVE y \in Notices /\ Challenged(y.of, r)
  BY DEF Known
<1>1. PICK x \in S : y = [x EXCEPT !.of = IF @ \in DOMAIN f THEN f[@] ELSE @]
  BY DEF Ao!Relabelled
<1> DEFINE l == IF x.of \in DOMAIN f THEN f[x.of] ELSE x.of
<1>2. x \in Notices /\ Challenged(x.of, q)  BY DEF Known
<1>3. l \in Labels
  <2>1. x.of \in Labels  BY <1>2 DEF Notices
  <2> QED  BY <2>1
<1>4. Challenged(l, r)
  <2>1. CASE x.of = "old"
    BY <2>1 DEF Challenged
  <2>2. CASE x.of # "old"
    BY <1>2, <2>2 DEF Challenged
  <2> QED  BY <2>1, <2>2
<1>5. y = [x EXCEPT !.of = l]  BY <1>1
<1> HIDE DEF l
<1>6. y \in Notices /\ y.of = l  BY <1>2, <1>3, <1>5 DEF Notices
<1> QED  BY <1>4, <1>6

\* An entry goes, with its challenges.
LEMMA WithoutFacts ==
  ASSUME NEW q, Entries(q), NEW n, NEW S, Known(S, q)
  PROVE  Entries(Ao!Without(q, n)) /\ Known(Ao!Relabelled(S, Ao!Gone({n})), Ao!Without(q, n))
<1> DEFINE r == Ao!Without(q, n)
           f == Ao!Gone({n})
<1>1. DOMAIN r = DOMAIN q \ {n} /\ \A k \in DOMAIN q \ {n} : r[k] = q[k]  BY DEF Ao!Without
<1>2. DOMAIN f = {n} /\ f[n] = "old"  BY DEF Ao!Gone
<1> HIDE DEF r, f
<1>3. Entries(r)  BY <1>1 DEF Entries
<1>4. ASSUME NEW k \in DOMAIN q, q[k] = TRUE
      PROVE  Challenged(IF k \in DOMAIN f THEN f[k] ELSE k, r)
  BY <1>1, <1>2, <1>4 DEF Challenged
<1>5. (\A k \in DOMAIN f : f[k] \in Labels) /\ ("old" \in DOMAIN f => f["old"] = "old")
  BY <1>2 DEF Labels
<1>6. Known(Ao!Relabelled(S, f), r)  BY <1>4, <1>5, RelabelledFacts
<1> QED  BY <1>3, <1>6 DEF r, f

\* What was known stays known when entries are added.
LEMMA KnownMore ==
  ASSUME NEW q, NEW r, NEW S, Known(S, q), DOMAIN q \subseteq DOMAIN r, \A n \in DOMAIN q : r[n] = q[n]
  PROVE  Known(S, r)
  BY DEF Known, Challenged

LEMMA CheckAutoOpFacts ==
  ASSUME OpInv, NEW ps \in [Ao!Peers -> [nick : Nicks, in : BOOLEAN, op : BOOLEAN]],
         NEW P \in SUBSET Ao!Peers, Ao!CheckAutoOp(ps, P)
  PROVE  PeersRight' /\ Entries(opQueue') /\ Known(out, opQueue') /\ Known(back, opQueue')
<1>1. CASE key
  <2> DEFINE D == DOMAIN opQueue \cup {AsLower[ps[p].nick] : p \in P}
             r == [k \in D |-> IF k \in DOMAIN opQueue THEN opQueue[k] ELSE FALSE]
  <2>1. peers' = ps /\ opQueue' = r  BY <1>1 DEF Ao!CheckAutoOp
  <2>2. D \subseteq Keys  BY KeysFacts DEF OpInv, Entries
  <2>3. DOMAIN opQueue \subseteq D  OBVIOUS
  <2> HIDE DEF D
  <2>4. DOMAIN r = D /\ (\A k \in DOMAIN opQueue : r[k] = opQueue[k]) /\ \A k \in D : r[k] \in BOOLEAN
    BY <2>3 DEF OpInv, Entries
  <2> HIDE DEF r
  <2>5. Entries(r)  BY <2>2, <2>4 DEF Entries
  <2>6. Known(out, r) /\ Known(back, r)  BY <2>3, <2>4, KnownMore DEF OpInv
  <2> QED  BY <2>1, <2>5, <2>6 DEF PeersRight
<1>2. CASE ~key
  <2>1. /\ peers' = [p \in Ao!Peers |-> IF p \in P THEN [ps[p] EXCEPT !.op = TRUE] ELSE ps[p]]
        /\ opQueue' = opQueue
    BY <1>2 DEF Ao!CheckAutoOp
  <2>2. \A p \in Ao!Peers : (IF p \in P THEN [ps[p] EXCEPT !.op = TRUE] ELSE ps[p])
                              \in [nick : Nicks, in : BOOLEAN, op : BOOLEAN]
    OBVIOUS
  <2> QED  BY <2>1, <2>2 DEF PeersRight, OpInv
<1> QED  BY <1>1, <1>2

\* A peer that comes, goes, or is made op.
LEMMA PeerChanged ==
  ASSUME PeersRight, NEW p \in Ao!Peers, NEW i \in BOOLEAN, NEW o \in BOOLEAN, NEW n \in Nicks
  PROVE  /\ [peers EXCEPT ![p].in = i] \in [Ao!Peers -> [nick : Nicks, in : BOOLEAN, op : BOOLEAN]]
         /\ [peers EXCEPT ![p].op = o] \in [Ao!Peers -> [nick : Nicks, in : BOOLEAN, op : BOOLEAN]]
         /\ [peers EXCEPT ![p].nick = n] \in [Ao!Peers -> [nick : Nicks, in : BOOLEAN, op : BOOLEAN]]
         /\ [peers EXCEPT ![p].in = i, ![p].op = o]
              \in [Ao!Peers -> [nick : Nicks, in : BOOLEAN, op : BOOLEAN]]
  BY DEF PeersRight

LEMMA OpParts ==
  OpInv => /\ key \in BOOLEAN /\ op \in BOOLEAN /\ late \in BOOLEAN /\ PeersRight
           /\ Entries(opQueue) /\ Known(out, opQueue) /\ Known(back, opQueue)
  BY DEF OpInv

LEMMA OnJoinKeeps == ASSUME OpInv, Ao!OnJoin \/ Ao!OnOp2 PROVE OpInv'
<1>1. CASE Ao!OnJoin
  <2>1. PICK p \in Ao!Peers : Ao!CheckAutoOp([peers EXCEPT ![p].in = TRUE], IF op THEN {p} ELSE {})
    BY <1>1 DEF Ao!OnJoin
  <2>2. UNCHANGED <<key, op, out, back, late>>  BY <1>1 DEF Ao!OnJoin, Ao!net
  <2> DEFINE ps == [peers EXCEPT ![p].in = TRUE]
             P == IF op THEN {p} ELSE {}
  <2>3. ps \in [Ao!Peers -> [nick : Nicks, in : BOOLEAN, op : BOOLEAN]]
    BY OpParts DEF PeersRight
  <2>4. P \in SUBSET Ao!Peers /\ Ao!CheckAutoOp(ps, P)  BY <2>1
  <2> HIDE DEF ps, P
  <2>5. PeersRight' /\ Entries(opQueue') /\ Known(out, opQueue') /\ Known(back, opQueue')
    BY <2>3, <2>4, CheckAutoOpFacts
  <2> QED  BY <2>2, <2>5, OpParts DEF OpInv, Entries, Known, Challenged
<1>2. CASE Ao!OnOp2
  <2> DEFINE P == {p \in Ao!Peers : peers[p].in /\ ~peers[p].op}
  <2>1. Ao!CheckAutoOp(peers, P) /\ op' = TRUE /\ UNCHANGED <<key, out, back, late>>
    BY <1>2 DEF Ao!OnOp2, Ao!net
  <2>2. P \in SUBSET Ao!Peers  OBVIOUS
  <2>3. peers \in [Ao!Peers -> [nick : Nicks, in : BOOLEAN, op : BOOLEAN]]  BY OpParts DEF PeersRight
  <2> HIDE DEF P
  <2>4. PeersRight' /\ Entries(opQueue') /\ Known(out, opQueue') /\ Known(back, opQueue')
    BY <2>1, <2>2, <2>3, CheckAutoOpFacts
  <2> QED  BY <2>1, <2>4, OpParts DEF OpInv, Entries, Known, Challenged
<1> QED  BY <1>1, <1>2

LEMMA PartKeeps == ASSUME OpInv, Ao!Part \/ Ao!PeerMode \/ Ao!Deop PROVE OpInv'
<1>1. PeersRight'
  <2>1. CASE Ao!Part
    <3>1. PICK p \in Ao!Peers : peers' = [peers EXCEPT ![p].in = FALSE, ![p].op = FALSE]
      BY <2>1 DEF Ao!Part
    <3> QED  BY <3>1, OpParts, PeerChanged DEF PeersRight
  <2>2. CASE Ao!PeerMode
    <3>1. PICK p \in Ao!Peers : peers' = [peers EXCEPT ![p].op = ~@]  BY <2>2 DEF Ao!PeerMode
    <3> DEFINE o == ~peers[p].op
    <3>2. o \in BOOLEAN  OBVIOUS
    <3>3. peers' = [peers EXCEPT ![p].op = o]  BY <3>1, OpParts DEF PeersRight
    <3> HIDE DEF o
    <3> QED  BY <3>2, <3>3, OpParts, PeerChanged DEF PeersRight
  <2>3. CASE Ao!Deop
    BY <2>3, OpParts DEF Ao!Deop, PeersRight
  <2> QED  BY <2>1, <2>2, <2>3
<1>2. key' = key /\ op' \in BOOLEAN /\ late' \in BOOLEAN /\ UNCHANGED <<opQueue, out, back>>
  BY OpParts DEF Ao!Part, Ao!PeerMode, Ao!Deop, Ao!net
<1> QED  BY <1>1, <1>2, OpParts DEF OpInv, Entries, Known, Challenged

LEMMA OnQuitKeeps == ASSUME OpInv, Ao!OnQuit PROVE OpInv'
<1>1. PICK p \in Ao!Peers :
        LET n == AsLower[peers[p].nick]
        IN  /\ peers' = [peers EXCEPT ![p].in = FALSE, ![p].op = FALSE]
            /\ opQueue' = Ao!Without(opQueue, n)
            /\ out' = Ao!Relabelled(out, Ao!Gone({n})) /\ back' = Ao!Relabelled(back, Ao!Gone({n}))
            /\ UNCHANGED <<key, op, late>>
  BY DEF Ao!OnQuit
<1> DEFINE n == AsLower[peers[p].nick]
<1>2. /\ peers' = [peers EXCEPT ![p].in = FALSE, ![p].op = FALSE]
      /\ opQueue' = Ao!Without(opQueue, n)
      /\ out' = Ao!Relabelled(out, Ao!Gone({n})) /\ back' = Ao!Relabelled(back, Ao!Gone({n}))
      /\ UNCHANGED <<key, op, late>>
  BY <1>1
<1> HIDE DEF n
<1>3. Entries(opQueue') /\ Known(out', opQueue') /\ Known(back', opQueue')
  BY <1>2, OpParts, WithoutFacts
<1>4. PeersRight'  BY <1>2, OpParts, PeerChanged DEF PeersRight
<1> QED  BY <1>2, <1>3, <1>4, OpParts DEF OpInv, Entries, Known, Challenged

LEMMA RenamedFacts ==
  ASSUME OpInv, NEW old \in Keys, NEW new \in Keys, Ao!Renamed(old, new)
  PROVE  Entries(opQueue') /\ Known(out', opQueue') /\ Known(back', opQueue')
<1>1. CASE old \notin DOMAIN opQueue
  <2>1. UNCHANGED <<opQueue, out, back>>  BY <1>1 DEF Ao!Renamed, Ao!net
  <2> QED  BY <2>1, OpParts
<1>2. CASE old \in DOMAIN opQueue
  <2> DEFINE f == [n \in {old, new} |-> IF n = old /\ old # new THEN new ELSE "old"]
             w == Ao!With(opQueue, new, opQueue[old])
             r == Ao!Without(w, old)
  <2>1. opQueue' = r /\ out' = Ao!Relabelled(out, f) /\ back' = Ao!Relabelled(back, f)
    BY <1>2 DEF Ao!Renamed
  <2>2. /\ DOMAIN w = DOMAIN opQueue \cup {new} /\ w[new] = opQueue[old]
        /\ \A n \in DOMAIN opQueue : n # new => w[n] = opQueue[n]
    BY DEF Ao!With
  <2>3. DOMAIN r = DOMAIN w \ {old} /\ \A n \in DOMAIN w \ {old} : r[n] = w[n]  BY DEF Ao!Without
  <2>4. /\ DOMAIN f = {old, new} /\ (\A n \in {old, new} : f[n] \in {new, "old"})
        /\ (old # new => f[old] = new) /\ f[new] = "old"
    OBVIOUS
  <2> HIDE DEF f, w, r
  <2>5. Entries(r)
    <3>1. DOMAIN r \subseteq Keys  BY <2>2, <2>3, OpParts DEF Entries
    <3>2. \A n \in DOMAIN r : r[n] \in BOOLEAN  BY <1>2, <2>2, <2>3, OpParts DEF Entries
    <3> QED  BY <3>1, <3>2 DEF Entries
  <2>6. (\A n \in DOMAIN f : f[n] \in Labels) /\ "old" \notin DOMAIN f
    BY <2>4, KeysFacts DEF Labels
  <2>7. ASSUME NEW n \in DOMAIN opQueue, opQueue[n] = TRUE
        PROVE  Challenged(IF n \in DOMAIN f THEN f[n] ELSE n, r)
    <3>1. CASE n = new
      BY <2>4, <3>1 DEF Challenged
    <3>2. CASE n = old /\ old # new
      <4>1. f[n] = new /\ n \in DOMAIN f  BY <2>4, <3>2
      <4>2. new \in DOMAIN r /\ r[new] = opQueue[old]  BY <2>2, <2>3, <3>2
      <4> QED  BY <2>7, <3>2, <4>1, <4>2 DEF Challenged
    <3>3. CASE n \notin {old, new}
      <4>1. n \in DOMAIN r /\ r[n] = opQueue[n]  BY <2>2, <2>3, <3>3
      <4> QED  BY <2>4, <2>7, <3>3, <4>1 DEF Challenged
    <3> QED  BY <3>1, <3>2, <3>3
  <2>8. Known(Ao!Relabelled(out, f), r) /\ Known(Ao!Relabelled(back, f), r)
    BY <2>6, <2>7, OpParts, RelabelledFacts
  <2> QED  BY <2>1, <2>5, <2>8
<1> QED  BY <1>1, <1>2

LEMMA OnNickKeeps == ASSUME OpInv, Ao!OnNick PROVE OpInv'
<1>1. PICK p \in Ao!Peers, n \in Nicks :
        /\ peers' = [peers EXCEPT ![p].nick = n]
        /\ IF peers[p].in THEN Ao!Renamed(AsLower[peers[p].nick], AsLower[n])
           ELSE UNCHANGED <<opQueue, out, back>>
        /\ late' = (late \/ (peers[p].in /\ AsLower[peers[p].nick] = AsLower[n]))
        /\ UNCHANGED <<key, op>>
  BY DEF Ao!OnNick, Nicks, Ao!net
<1> DEFINE old == AsLower[peers[p].nick]
           new == AsLower[n]
<1>2. old \in Keys /\ new \in Keys
  <2>1. peers[p].nick \in Nicks  BY OpParts DEF PeersRight
  <2> QED  BY <2>1, KeysFacts
<1>3. Ao!Renamed(old, new) \/ UNCHANGED <<opQueue, out, back>>  BY <1>1
<1>4. late' \in BOOLEAN  BY <1>1, OpParts
<1> HIDE DEF old, new
<1>5. Entries(opQueue') /\ Known(out', opQueue') /\ Known(back', opQueue')
  <2>1. CASE UNCHANGED <<opQueue, out, back>>
    BY <2>1, OpParts
  <2>2. CASE Ao!Renamed(old, new)
    BY <1>2, <2>2, RenamedFacts
  <2> QED  BY <1>3, <2>1, <2>2
<1>6. PeersRight'  BY <1>1, OpParts, PeerChanged DEF PeersRight
<1> QED  BY <1>1, <1>4, <1>5, <1>6, OpParts DEF OpInv, Entries, Known, Challenged

LEMMA ProcessQueueKeeps == ASSUME OpInv, Ao!ProcessQueue PROVE OpInv'
<1> DEFINE new == {n \in DOMAIN opQueue : ~opQueue[n]}
           gone == DOMAIN opQueue \ new
           r == [n \in new |-> TRUE]
           f == Ao!Gone(gone)
           asked == {[nick |-> n, of |-> n] : n \in new}
<1>1. /\ opQueue' = r /\ out' = Ao!Relabelled(out, f) \cup asked /\ back' = Ao!Relabelled(back, f)
      /\ UNCHANGED <<key, op, peers>> /\ late' \in BOOLEAN
  BY OpParts DEF Ao!ProcessQueue
<1>2. new \subseteq Keys  BY OpParts DEF Entries
<1>3. \A n \in DOMAIN opQueue : opQueue[n] = TRUE => n \in gone  OBVIOUS
<1>4. DOMAIN f = gone /\ \A n \in gone : f[n] = "old"  BY DEF Ao!Gone
<1> HIDE DEF f, gone
<1>5. DOMAIN r = new /\ \A n \in new : r[n] = TRUE  OBVIOUS
<1> HIDE DEF new
<1>6. Entries(r)  BY <1>2, <1>5 DEF Entries
<1>7. Known(asked, r)
  <2> SUFFICES ASSUME NEW x \in asked PROVE x \in Notices /\ Challenged(x.of, r)  BY DEF Known
  <2>1. PICK n \in new : x = [nick |-> n, of |-> n]  OBVIOUS
  <2>2. n \in Keys /\ n \in Labels  BY <1>2 DEF Labels
  <2> QED  BY <1>5, <2>1, <2>2 DEF Notices, Challenged
<1> HIDE DEF r, asked
<1>8. (\A n \in DOMAIN f : f[n] \in Labels) /\ ("old" \in DOMAIN f => f["old"] = "old")
  BY <1>4 DEF Labels
<1>9. \A n \in DOMAIN opQueue : opQueue[n] = TRUE =>
        Challenged(IF n \in DOMAIN f THEN f[n] ELSE n, r)
  BY <1>3, <1>4 DEF Challenged
<1>10. Known(Ao!Relabelled(out, f), r) /\ Known(Ao!Relabelled(back, f), r)
  BY <1>8, <1>9, OpParts, RelabelledFacts
<1>11. Known(out', r) /\ Known(back', r)  BY <1>1, <1>7, <1>10 DEF Known
<1> QED  BY <1>1, <1>6, <1>11, OpParts DEF OpInv, PeersRight, Entries, Known, Challenged

LEMMA ChallengeRespondKeeps == ASSUME OpInv, Ao!ChallengeRespond PROVE OpInv'
<1>1. PICK x \in out :
        /\ out' = out \ {x}
        /\ back' = back \cup {[peer |-> p, of |-> x.of] :
                                p \in {q \in Ao!Peers : AsLower[peers[q].nick] = x.nick /\ Ao!Answers(q)}}
        /\ late' = (late \/ \E p \in Ao!Peers : AsLower[peers[p].nick] = x.nick /\ ~Ao!Answers(p))
        /\ UNCHANGED <<key, op, peers, opQueue>>
  BY DEF Ao!ChallengeRespond
<1>2. x.of \in Labels /\ Challenged(x.of, opQueue)  BY OpParts DEF Known, Notices
<1> DEFINE l == x.of
           P == {q \in Ao!Peers : AsLower[peers[q].nick] = x.nick /\ Ao!Answers(q)}
<1>3. P \subseteq Ao!Peers /\ back' = back \cup {[peer |-> p, of |-> l] : p \in P}  BY <1>1
<1> HIDE DEF P, l
<1>4. Known(back', opQueue)
  <2> SUFFICES ASSUME NEW y \in back' PROVE y \in Notices /\ Challenged(y.of, opQueue)  BY DEF Known
  <2>1. CASE y \in back
    BY <2>1, OpParts DEF Known
  <2>2. CASE y \notin back
    <3>1. PICK p \in P : y = [peer |-> p, of |-> l]  BY <1>3, <2>2
    <3>2. p \in Ao!Peers /\ l \in Labels /\ Challenged(l, opQueue)  BY <1>2, <1>3 DEF l
    <3> QED  BY <3>1, <3>2 DEF Notices
  <2> QED  BY <2>1, <2>2
<1>5. Known(out', opQueue)  BY <1>1, OpParts DEF Known
<1>6. late' \in BOOLEAN  BY <1>1, OpParts
<1>7. UNCHANGED <<key, op, peers, opQueue>>  BY <1>1
<1> QED  BY <1>4, <1>5, <1>6, <1>7, OpParts DEF OpInv, PeersRight, Entries, Known, Challenged

LEMMA VerifyResponseKeeps == ASSUME OpInv, Ao!VerifyResponse PROVE OpInv'
<1>1. PICK x \in back :
        LET n == AsLower[peers[x.peer].nick]
        IN  /\ opQueue' = Ao!Without(opQueue, n)
            /\ out' = Ao!Relabelled(out, Ao!Gone({n}))
            /\ back' = Ao!Relabelled(back \ {x}, Ao!Gone({n}))
            /\ IF n \in DOMAIN opQueue /\ Ao!Good(x, n) /\ op /\ peers[x.peer].in
               THEN peers' = [peers EXCEPT ![x.peer].op = TRUE] ELSE UNCHANGED peers
            /\ late' = (late \/ (n \in DOMAIN opQueue /\ x.of # n))
            /\ UNCHANGED <<key, op>>
  BY DEF Ao!VerifyResponse
<1> DEFINE n == AsLower[peers[x.peer].nick]
           rest == back \ {x}
           p == x.peer
<1>2. /\ opQueue' = Ao!Without(opQueue, n)
      /\ out' = Ao!Relabelled(out, Ao!Gone({n})) /\ back' = Ao!Relabelled(rest, Ao!Gone({n}))
      /\ UNCHANGED <<key, op>>
  BY <1>1
<1>3. late' \in BOOLEAN  BY <1>1, OpParts
<1>4. peers' = [peers EXCEPT ![p].op = TRUE] \/ peers' = peers  BY <1>1
<1>5. Known(rest, opQueue)  BY OpParts DEF Known
<1> HIDE DEF n, rest, p
<1>6. Entries(opQueue') /\ Known(out', opQueue') /\ Known(back', opQueue')
  BY <1>2, <1>5, OpParts, WithoutFacts
<1>7. PeersRight'
  <2>1. CASE p \in Ao!Peers
    BY <1>4, OpParts DEF PeersRight
  <2>2. CASE p \notin Ao!Peers
    <3>1. peers' = peers  BY <1>4, <2>2, OpParts DEF PeersRight
    <3> QED  BY <3>1, OpParts DEF PeersRight
  <2> QED  BY <2>1, <2>2
<1> QED  BY <1>2, <1>3, <1>6, <1>7, OpParts DEF OpInv, Entries, Known, Challenged

LEMMA OpStep == OpInv /\ (Ao!Next \/ UNCHANGED aoVars) => OpInv'
<1> SUFFICES ASSUME OpInv, Ao!Next \/ UNCHANGED aoVars PROVE OpInv'  OBVIOUS
<1>1. CASE UNCHANGED aoVars
  <2>1. UNCHANGED <<key, op, peers, opQueue, out, back, late>>  BY <1>1 DEF aoVars
  <2> QED  BY <2>1 DEF OpInv, PeersRight, Entries, Known, Challenged
<1> QED
  BY <1>1, OnJoinKeeps, PartKeeps, OnQuitKeeps, OnNickKeeps, ProcessQueueKeeps,
     ChallengeRespondKeeps, VerifyResponseKeeps DEF Ao!Next

LEMMA OpInit == Ao!Init => OpInv
<1> SUFFICES ASSUME Ao!Init PROVE OpInv  OBVIOUS
<1>1. /\ key \in BOOLEAN /\ op = FALSE /\ opQueue = [n \in {} |-> FALSE] /\ out = {} /\ back = {}
      /\ late = FALSE
  BY DEF Ao!Init
<1>2. PICK f \in [Ao!Peers -> Nicks] :
        peers = [p \in Ao!Peers |-> [nick |-> f[p], in |-> FALSE, op |-> FALSE]]
  BY DEF Ao!Init, Nicks
<1>3. PeersRight  BY <1>2 DEF PeersRight
<1>4. Entries(opQueue)
  <2>1. DOMAIN opQueue = {}  BY <1>1
  <2> QED  BY <2>1 DEF Entries
<1> QED  BY <1>1, <1>3, <1>4 DEF OpInv, Known

LEMMA OpTyped == OpInv => Ao!TypeOK
<1> SUFFICES ASSUME OpInv PROVE Ao!TypeOK  OBVIOUS
<1>1. Ao!Range(opQueue) \subseteq BOOLEAN  BY OpParts DEF Ao!Range, Entries
<1>2. DOMAIN opQueue \subseteq Ao!Range(AsLower)  BY OpParts DEF Entries, Keys
<1>3. \A x \in out \cup back : x.of # "old" => x.of \in DOMAIN opQueue /\ opQueue[x.of]
  BY OpParts DEF Known, Challenged
<1> QED  BY <1>1, <1>2, <1>3, OpParts DEF Ao!TypeOK
-----------------------------------------------------------------------------
(* All parts *)

TrafficInv == QueueInv /\ RepliesInv /\ DccInv /\ AwayInv /\ OpInv

LEMMA PartsInitTraffic == PartsInit => TrafficInv
  BY QueueInit, RepliesInit, DccInit, AwayInit, OpInit DEF PartsInit, TrafficInv

LEMMA PartsStep == TrafficInv /\ [PartsNext]_<<part, vars, partsVars>> => TrafficInv'
<1> SUFFICES ASSUME TrafficInv, [PartsNext]_<<part, vars, partsVars>> PROVE TrafficInv'  OBVIOUS
<1>1. Sq!Next \/ UNCHANGED sqVars  BY DEF PartsNext, partsVars
<1>2. Rr!Next \/ UNCHANGED rrVars  BY DEF PartsNext, partsVars
<1>3. Dc!Next \/ UNCHANGED dcVars  BY DEF PartsNext, partsVars
<1>4. Sa!Next \/ UNCHANGED saVars  BY DEF PartsNext, partsVars
<1>5. Ao!Next \/ UNCHANGED aoVars  BY DEF PartsNext, partsVars
<1> QED
  BY <1>1, <1>2, <1>3, <1>4, <1>5, QueueStep, RepliesStep, DccStep, AwayStep, OpStep DEF TrafficInv

\* For any widths, limits, clients, peers and nicks: lines leave the send queue once and in order
\* within FloodBurst (TrySend); while no timeout, departure or unlisted numeric broke the order,
\* a reply goes to the client that asked, and route_replies holds nothing of a client that is
\* not attached to the network, except of those that left it by JUMPNETWORK; a transfer loses
\* no byte and a bounced one has less than MaxDCCBuffer and one read waiting (dcc, bouncedcc);
\* the module's flag is what the server has (simple_away), and answers name challenges there
\* are (autoop).
THEOREM TrafficHolds == PartsSpec => []TrafficRight
<1>1. TrafficInv => TrafficRight
  BY QueueRight, RepliesRight, DccSafe, AwayTold, OpTyped DEF TrafficInv, TrafficRight
<1> QED  BY <1>1, PartsInitTraffic, PartsStep, PTL DEF PartsSpec
=============================================================================
