-------------------------- MODULE IrcConnect_proof ---------------------------
(***************************************************************************)
(* Proofs about IrcConnect for any networks, servers and socket addresses,  *)
(* with and without identfile and modules that abort an attempt.            *)
(***************************************************************************)
EXTENDS IrcConnect, SequenceTheorems, TLAPS
-----------------------------------------------------------------------------
(* Lists without duplicates *)

Distinct(s) == \A i, j \in DOMAIN s : s[i] = s[j] => i = j

LEMMA EmptyFacts ==
  /\ Distinct(<<>>)
  /\ \A x : ~InSeq(x, <<>>)
  BY DEF Distinct, InSeq

LEMMA AppendFacts ==
  ASSUME NEW S, NEW s \in Seq(S), NEW x \in S
  PROVE  /\ Append(s, x) \in Seq(S) /\ Append(s, x) # <<>>
         /\ \A y : InSeq(y, Append(s, x)) <=> y = x \/ InSeq(y, s)
         /\ Distinct(s) /\ ~InSeq(x, s) => Distinct(Append(s, x))
<1>1. /\ Append(s, x) \in Seq(S) /\ Append(s, x) # <<>>
      /\ Len(Append(s, x)) = Len(s) + 1
      /\ \A i \in 1..Len(s) : Append(s, x)[i] = s[i]
      /\ Append(s, x)[Len(s) + 1] = x
  BY AppendProperties
<1>2. DOMAIN s = 1..Len(s) /\ DOMAIN Append(s, x) = 1..(Len(s) + 1) /\ Len(s) \in Nat
  BY <1>1
<1>3. ASSUME NEW y PROVE InSeq(y, Append(s, x)) <=> y = x \/ InSeq(y, s)
  BY <1>1, <1>2 DEF InSeq
<1>4. ASSUME Distinct(s), ~InSeq(x, s) PROVE Distinct(Append(s, x))
  BY <1>1, <1>2, <1>4 DEF InSeq, Distinct
<1> QED  BY <1>1, <1>3, <1>4

LEMMA TailFacts ==
  ASSUME NEW S, NEW s \in Seq(S), s # <<>>
  PROVE  /\ Head(s) \in S /\ Tail(s) \in Seq(S) /\ InSeq(Head(s), s)
         /\ \A y : InSeq(y, s) <=> y = Head(s) \/ InSeq(y, Tail(s))
         /\ Distinct(s) => Distinct(Tail(s)) /\ ~InSeq(Head(s), Tail(s))
<1>1. /\ Head(s) \in S /\ Tail(s) \in Seq(S) /\ Len(Tail(s)) = Len(s) - 1
      /\ \A i \in 1..Len(Tail(s)) : Tail(s)[i] = s[i + 1]
  BY HeadTailProperties
<1>2. /\ DOMAIN s = 1..Len(s) /\ DOMAIN Tail(s) = 1..(Len(s) - 1)
      /\ Len(s) \in Nat /\ Len(s) >= 1 /\ Head(s) = s[1]
  BY <1>1
<1>3. ASSUME NEW y PROVE InSeq(y, s) <=> y = Head(s) \/ InSeq(y, Tail(s))
  <2>1. ASSUME NEW i \in 1..Len(s), s[i] = y PROVE y = Head(s) \/ InSeq(y, Tail(s))
    <3>1. CASE i = 1  BY <2>1, <3>1, <1>2
    <3>2. CASE i # 1
      <4>1. i - 1 \in 1..(Len(s) - 1) /\ Tail(s)[i - 1] = s[i]  BY <3>2, <1>1, <1>2
      <4> QED  BY <4>1, <2>1, <1>2 DEF InSeq
    <3> QED  BY <3>1, <3>2
  <2>2. ASSUME NEW i \in 1..(Len(s) - 1), Tail(s)[i] = y PROVE InSeq(y, s)
    <3>1. i + 1 \in 1..Len(s) /\ Tail(s)[i] = s[i + 1]  BY <1>1, <1>2
    <3> QED  BY <3>1, <2>2, <1>2 DEF InSeq
  <2>3. y = Head(s) => InSeq(y, s)  BY <1>2 DEF InSeq
  <2> QED  BY <2>1, <2>2, <2>3, <1>2 DEF InSeq
<1>4. ASSUME Distinct(s) PROVE Distinct(Tail(s)) /\ ~InSeq(Head(s), Tail(s))
  BY <1>1, <1>2, <1>4 DEF InSeq, Distinct
<1> QED  BY <1>1, <1>2, <1>3, <1>4

LEMMA ConcatFacts ==
  ASSUME NEW S, NEW s \in Seq(S), NEW t \in Seq(S)
  PROVE  /\ s \o t \in Seq(S)
         /\ \A y : InSeq(y, s \o t) <=> InSeq(y, s) \/ InSeq(y, t)
         /\ Distinct(s) /\ Distinct(t) /\ (\A y : ~(InSeq(y, s) /\ InSeq(y, t)))
              => Distinct(s \o t)
<1> DEFINE c == s \o t
<1>1. /\ c \in Seq(S) /\ Len(c) = Len(s) + Len(t)
      /\ \A i \in 1..(Len(s) + Len(t)) : c[i] = IF i <= Len(s) THEN s[i] ELSE t[i - Len(s)]
  BY ConcatProperties
<1> HIDE DEF c
<1>2. /\ DOMAIN s = 1..Len(s) /\ DOMAIN t = 1..Len(t) /\ DOMAIN c = 1..(Len(s) + Len(t))
      /\ Len(s) \in Nat /\ Len(t) \in Nat
  BY <1>1
<1>3. \A i \in DOMAIN c : \/ i \in DOMAIN s /\ c[i] = s[i]
                          \/ i - Len(s) \in DOMAIN t /\ i \notin DOMAIN s /\ c[i] = t[i - Len(s)]
  BY <1>1, <1>2
<1>4. ASSUME NEW y PROVE InSeq(y, c) <=> InSeq(y, s) \/ InSeq(y, t)
  <2>1. InSeq(y, c) => InSeq(y, s) \/ InSeq(y, t)  BY <1>3 DEF InSeq
  <2>2. InSeq(y, s) => InSeq(y, c)  BY <1>1, <1>2 DEF InSeq
  <2>3. ASSUME NEW i \in DOMAIN t, t[i] = y PROVE InSeq(y, c)
    <3>1. i + Len(s) \in DOMAIN c /\ c[i + Len(s)] = t[i]  BY <1>1, <1>2
    <3> QED  BY <3>1, <2>3 DEF InSeq
  <2> QED  BY <2>1, <2>2, <2>3 DEF InSeq
<1>5. ASSUME Distinct(s), Distinct(t), \A y : ~(InSeq(y, s) /\ InSeq(y, t))
      PROVE  Distinct(c)
  <2> SUFFICES ASSUME NEW i \in DOMAIN c, NEW j \in DOMAIN c, c[i] = c[j] PROVE i = j
    BY DEF Distinct
  <2>1. CASE i \in DOMAIN s /\ j \in DOMAIN s  BY <2>1, <1>1, <1>2, <1>5 DEF Distinct
  <2>2. CASE i \notin DOMAIN s /\ j \notin DOMAIN s
    <3>1. i - Len(s) = j - Len(s)  BY <2>2, <1>3, <1>5 DEF Distinct
    <3> QED  BY <3>1, <1>2
  <2>3. CASE i \in DOMAIN s /\ j \notin DOMAIN s
    BY <2>3, <1>3, <1>5 DEF InSeq
  <2>4. CASE i \notin DOMAIN s /\ j \in DOMAIN s
    BY <2>4, <1>3, <1>5 DEF InSeq
  <2> QED  BY <2>1, <2>2, <2>3, <2>4
<1> QED  BY <1>1, <1>4, <1>5 DEF c

\* What is left of a list when its i-th element is removed.
LEMMA RemoveFacts ==
  ASSUME NEW S, NEW s \in Seq(S), NEW i \in DOMAIN s
  PROVE  /\ RemoveIndex(s, i) \in Seq(S)
         /\ Len(RemoveIndex(s, i)) = Len(s) - 1
         /\ \A j \in 1..(Len(s) - 1) : RemoveIndex(s, i)[j] = IF j < i THEN s[j] ELSE s[j + 1]
<1> DEFINE a == SubSeq(s, 1, i - 1)
           b == SubSeq(s, i + 1, Len(s))
<1>0. DOMAIN s = 1..Len(s) /\ Len(s) \in Nat /\ i \in Int /\ 1 <= i /\ i <= Len(s)
  OBVIOUS
<1>1. /\ a \in Seq(S) /\ Len(a) = i - 1
      /\ \A j \in 1..(i - 1) : a[j] = s[j]
  <2>1. \A j \in 1..(i - 1) : s[j] \in S  BY <1>0
  <2>2. /\ a \in Seq(S) /\ Len(a) = IF 1 <= i - 1 THEN (i - 1) - 1 + 1 ELSE 0
        /\ \A j \in 1..((i - 1) - 1 + 1) : a[j] = s[1 + j - 1]
    BY <1>0, <2>1, SubSeqProperties, i - 1 \in Int, 1 \in Int
  <2> HIDE DEF a
  <2> QED  BY <2>2, <1>0
<1>2. /\ b \in Seq(S) /\ Len(b) = Len(s) - i
      /\ \A j \in 1..(Len(s) - i) : b[j] = s[i + j]
  <2>1. \A j \in (i + 1)..Len(s) : s[j] \in S  BY <1>0
  <2>2. /\ b \in Seq(S) /\ Len(b) = IF i + 1 <= Len(s) THEN Len(s) - (i + 1) + 1 ELSE 0
        /\ \A j \in 1..(Len(s) - (i + 1) + 1) : b[j] = s[(i + 1) + j - 1]
    BY <1>0, <2>1, SubSeqProperties, i + 1 \in Int, Len(s) \in Int
  <2> HIDE DEF b
  <2>3. \A j \in 1..(Len(s) - i) : j \in 1..(Len(s) - (i + 1) + 1) /\ (i + 1) + j - 1 = i + j
    BY <1>0
  <2> QED  BY <2>2, <2>3, <1>0
<1>3. /\ RemoveIndex(s, i) \in Seq(S) /\ Len(RemoveIndex(s, i)) = Len(a) + Len(b)
      /\ \A j \in 1..(Len(a) + Len(b)) :
           RemoveIndex(s, i)[j] = IF j <= Len(a) THEN a[j] ELSE b[j - Len(a)]
  <2>1. RemoveIndex(s, i) = a \o b  BY DEF RemoveIndex
  <2> HIDE DEF a, b
  <2> QED  BY <1>1, <1>2, <2>1, ConcatProperties
<1> HIDE DEF a, b
<1>4. ASSUME NEW j \in 1..(Len(s) - 1)
      PROVE  RemoveIndex(s, i)[j] = IF j < i THEN s[j] ELSE s[j + 1]
  <2>1. CASE j < i
    BY <2>1, <1>0, <1>1, <1>2, <1>3
  <2>2. CASE ~(j < i)
    <3>1. j - Len(a) \in 1..(Len(s) - i) /\ i + (j - Len(a)) = j + 1 /\ ~(j <= Len(a))
      BY <2>2, <1>0, <1>1, <1>2
    <3>2. b[j - Len(a)] = s[i + (j - Len(a))]  BY <3>1, <1>2
    <3>3. j \in 1..(Len(a) + Len(b))  BY <1>0, <1>1, <1>2
    <3> QED  BY <2>2, <3>1, <3>2, <3>3, <1>3
  <2> QED  BY <2>1, <2>2
<1> QED  BY <1>0, <1>1, <1>2, <1>3, <1>4

LEMMA WithoutFacts ==
  ASSUME NEW S, NEW s \in Seq(S), NEW x, Distinct(s)
  PROVE  /\ Without(s, x) \in Seq(S)
         /\ \A y : InSeq(y, Without(s, x)) <=> InSeq(y, s) /\ y # x
         /\ Distinct(Without(s, x))
<1>1. CASE ~InSeq(x, s)
  BY <1>1 DEF Without, InSeq
<1>2. CASE InSeq(x, s)
  <2> DEFINE i == CHOOSE i \in DOMAIN s : s[i] = x
             r == RemoveIndex(s, i)
  <2>1. i \in DOMAIN s /\ s[i] = x  BY <1>2 DEF InSeq
  <2>2. Without(s, x) = r  BY <1>2 DEF Without
  <2> HIDE DEF i
  <2>3. /\ r \in Seq(S) /\ Len(r) = Len(s) - 1
        /\ \A j \in 1..(Len(s) - 1) : r[j] = IF j < i THEN s[j] ELSE s[j + 1]
    BY <2>1, RemoveFacts
  <2> HIDE DEF r
  <2>4. /\ DOMAIN s = 1..Len(s) /\ DOMAIN r = 1..(Len(s) - 1) /\ Len(s) \in Nat
        /\ i \in 1..Len(s)
    BY <2>1, <2>3
  <2>5. \A j \in DOMAIN r : IF j < i THEN j \in DOMAIN s /\ j # i /\ r[j] = s[j]
                            ELSE j + 1 \in DOMAIN s /\ j + 1 # i /\ r[j] = s[j + 1]
    BY <2>3, <2>4
  <2>6. ASSUME NEW y PROVE InSeq(y, r) <=> InSeq(y, s) /\ y # x
    <3>1. ASSUME NEW j \in DOMAIN r, r[j] = y PROVE InSeq(y, s) /\ y # x
      BY <2>1, <2>5, <3>1 DEF InSeq, Distinct
    <3>2. ASSUME NEW j \in DOMAIN s, s[j] = y, y # x PROVE InSeq(y, r)
      <4>1. CASE j < i
        BY <4>1, <3>2, <2>3, <2>4 DEF InSeq
      <4>2. CASE ~(j < i)
        <5>1. j - 1 \in DOMAIN r /\ ~(j - 1 < i) /\ (j - 1) + 1 = j
          BY <4>2, <3>2, <2>1, <2>4
        <5>2. r[j - 1] = s[j]  BY <5>1, <2>5
        <5> QED  BY <5>1, <5>2, <3>2 DEF InSeq
      <4> QED  BY <4>1, <4>2
    <3> QED  BY <3>1, <3>2 DEF InSeq
  <2>7. Distinct(r)
    <3> SUFFICES ASSUME NEW j \in DOMAIN r, NEW k \in DOMAIN r, r[j] = r[k] PROVE j = k
      BY DEF Distinct
    <3>1. CASE j < i /\ k < i  BY <3>1, <2>5 DEF Distinct
    <3>2. CASE ~(j < i) /\ ~(k < i)
      <4>1. j + 1 = k + 1  BY <3>2, <2>5 DEF Distinct
      <4> QED  BY <4>1, <2>4
    <3>3. CASE j < i /\ ~(k < i)
      <4>1. j = k + 1  BY <3>3, <2>5 DEF Distinct
      <4> QED  BY <4>1, <3>3, <2>4
    <3>4. CASE ~(j < i) /\ k < i
      <4>1. k = j + 1  BY <3>4, <2>5 DEF Distinct
      <4> QED  BY <4>1, <3>4, <2>4
    <3> QED  BY <3>1, <3>2, <3>3, <3>4
  <2> QED  BY <2>2, <2>3, <2>6, <2>7
<1> QED  BY <1>1, <1>2
-----------------------------------------------------------------------------
(* The functions of CZNC on the connect queue *)

Queues == [queue : Seq(Networks), timer : {"none", "active", "paused"}, paused : Nat]

\* What the queue keeps true at every call: nothing is in it twice, and unless it is
\* paused its timer runs, or there is nothing to do.
Served(z) == /\ z \in Queues /\ Distinct(z.queue)
             /\ z.paused = 0 => z.timer # "paused" /\ (z.queue # <<>> => z.timer = "active")
             /\ z.paused > 0 => z.timer # "active"

\* Queue y is queue z, to which n was possibly added.
Grown(y, z, n) == /\ Served(y) /\ y.paused = z.paused
                  /\ \A m : InSeq(m, z.queue) => InSeq(m, y.queue)
                  /\ \A m : InSeq(m, y.queue) => InSeq(m, z.queue) \/ m = n
                  /\ z.timer = "active" => y.timer = "active"

LEMMA AddedFacts ==
  ASSUME NEW z, Served(z), NEW n \in Networks
  PROVE  LET y == AddNetworkToQueue(z, n)
         IN  Grown(y, z, n) /\ InSeq(n, y.queue)
<1>1. CASE InSeq(n, z.queue)
  BY <1>1 DEF AddNetworkToQueue, Grown
<1>2. CASE ~InSeq(n, z.queue)
  <2> DEFINE q == Append(z.queue, n)
             a == [z EXCEPT !.queue = q]
             y == EnableConnectQueue(a)
  <2>1. z.queue \in Seq(Networks) /\ Distinct(z.queue)  BY DEF Served, Queues
  <2>2. /\ q \in Seq(Networks) /\ q # <<>> /\ Distinct(q)
        /\ \A m : InSeq(m, q) <=> m = n \/ InSeq(m, z.queue)
    BY <1>2, <2>1, AppendFacts
  <2> HIDE DEF q
  <2>3. a \in Queues /\ a.queue = q /\ a.timer = z.timer /\ a.paused = z.paused
    BY <2>2 DEF Served, Queues
  <2> HIDE DEF a
  <2>4. y.queue = q /\ y.paused = z.paused /\ y \in Queues
        /\ y.timer = IF z.timer = "none" /\ z.paused = 0 THEN "active" ELSE z.timer
    BY <2>2, <2>3 DEF EnableConnectQueue, Queues
  <2>5. AddNetworkToQueue(z, n) = y  BY <1>2 DEF AddNetworkToQueue, a, q
  <2> HIDE DEF y
  <2>6. Served(y)  BY <2>2, <2>4 DEF Served, Queues
  <2>7. z.timer = "active" => y.timer = "active"  BY <2>4
  <2> QED  BY <2>2, <2>4, <2>5, <2>6, <2>7 DEF Grown
<1> QED  BY <1>1, <1>2

LEMMA CheckedFacts ==
  ASSUME NEW z, Served(z), NEW n \in Networks, NEW b \in BOOLEAN, NEW k
  PROVE  LET y == CheckIRCConnect(z, n, b, k)
         IN  Grown(y, z, n) /\ (b /\ k = NoSock => InSeq(n, y.queue))
<1>1. Grown(z, z, n)  BY DEF Grown
<1> QED  BY <1>1, AddedFacts DEF CheckIRCConnect

LEMMA PausedFacts ==
  ASSUME NEW z, Served(z), z.paused = 0
  PROVE  LET y == PauseConnectQueue(z)
         IN  /\ Served(y) /\ y.paused = 1 /\ y.queue = z.queue
             /\ z.timer = "active" => y.timer = "paused"
<1> DEFINE a == [z EXCEPT !.paused = @ + 1]
           t == IF z.timer = "none" THEN z.timer ELSE "paused"
           y == PauseConnectQueue(z)
<1>1. z \in Queues /\ t \in {"none", "paused"}  BY DEF Served
<1>2. a \in Queues /\ a.paused = 1 /\ a.queue = z.queue /\ a.timer = z.timer
  BY <1>1 DEF Queues
<1>3. y = [a EXCEPT !.timer = t]  BY DEF PauseConnectQueue
<1> HIDE DEF a, y
<1>4. y \in Queues /\ y.paused = 1 /\ y.queue = z.queue /\ y.timer = t
  <2> HIDE DEF t
  <2> QED  BY <1>1, <1>2, <1>3 DEF Queues
<1>5. Served(y)  BY <1>1, <1>4 DEF Served
<1> QED  BY <1>4, <1>5 DEF y

LEMMA ResumedFacts ==
  ASSUME NEW z, Served(z), z.paused = 1
  PROVE  LET y == ResumeConnectQueue(z)
         IN  /\ Served(y) /\ y.paused = 0 /\ y.queue = z.queue
             /\ z.timer = "paused" => y.timer = "active"
<1> DEFINE a == [z EXCEPT !.paused = @ - 1]
           e == EnableConnectQueue(a)
           y == [e EXCEPT !.timer = IF @ = "none" THEN @ ELSE "active"]
<1>1. a \in Queues /\ a.paused = 0 /\ a.queue = z.queue /\ a.timer = z.timer
  BY DEF Served, Queues
<1> HIDE DEF a
<1>2. /\ e \in Queues /\ e.paused = 0 /\ e.queue = z.queue
      /\ e.timer = IF z.timer = "none" /\ z.queue # <<>> THEN "active" ELSE z.timer
  BY <1>1 DEF EnableConnectQueue, Queues
<1> HIDE DEF e
<1>3. /\ y \in Queues /\ y.paused = 0 /\ y.queue = z.queue
      /\ y.timer = IF e.timer = "none" THEN "none" ELSE "active"
  BY <1>2 DEF Queues
<1>4. ResumeConnectQueue(z) = y  BY DEF ResumeConnectQueue, a, e
<1> HIDE DEF y
<1>5. Served(y)  BY <1>2, <1>3 DEF Served
<1>6. z.timer = "paused" => y.timer = "active"  BY <1>2, <1>3
<1> QED  BY <1>3, <1>4, <1>5, <1>6

\* RunJob's end puts the rest of its list in front.
LEMMA EndedFacts ==
  ASSUME NEW z, Served(z), NEW rest \in Seq(Networks), Distinct(rest),
         z.paused = 0 => z.timer = "active",
         \A m : ~(InSeq(m, rest) /\ InSeq(m, z.queue))
  PROVE  LET y == RunEnd(z, rest)
         IN  /\ Served(y) /\ y.paused = z.paused
             /\ \A m : InSeq(m, y.queue) <=> InSeq(m, rest) \/ InSeq(m, z.queue)
<1> DEFINE q == rest \o z.queue
           a == [z EXCEPT !.queue = q]
           y == RunEnd(z, rest)
<1>1. z.queue \in Seq(Networks) /\ Distinct(z.queue)  BY DEF Served, Queues
<1>2. /\ q \in Seq(Networks) /\ Distinct(q)
      /\ \A m : InSeq(m, q) <=> InSeq(m, rest) \/ InSeq(m, z.queue)
  BY <1>1, ConcatFacts
<1> HIDE DEF q
<1>3. a \in Queues /\ a.queue = q /\ a.timer = z.timer /\ a.paused = z.paused
  BY <1>2 DEF Served, Queues
<1>4. y = IF a.queue = <<>> THEN DisableConnectQueue(a) ELSE a  BY DEF RunEnd, q
<1> HIDE DEF a, y
<1>5. /\ y \in Queues /\ y.queue = q /\ y.paused = z.paused
      /\ y.timer = IF q = <<>> THEN "none" ELSE z.timer
  BY <1>3, <1>4 DEF DisableConnectQueue, Queues
<1>6. Served(y)  BY <1>2, <1>5 DEF Served
<1> QED  BY <1>2, <1>5, <1>6 DEF y

Removed(z, n) == [z EXCEPT !.queue = Without(@, n)]

LEMMA RemovedFacts ==
  ASSUME NEW z, Served(z), NEW n
  PROVE  LET y == Removed(z, n)
         IN  /\ Served(y) /\ y.paused = z.paused /\ y.timer = z.timer
             /\ \A m : InSeq(m, y.queue) <=> InSeq(m, z.queue) /\ m # n
<1> DEFINE q == Without(z.queue, n)
           y == Removed(z, n)
<1>1. z.queue \in Seq(Networks) /\ Distinct(z.queue)  BY DEF Served, Queues
<1>2. /\ q \in Seq(Networks) /\ Distinct(q)
      /\ \A m : InSeq(m, q) <=> InSeq(m, z.queue) /\ m # n
  BY <1>1, WithoutFacts
<1>3. q # <<>> => z.queue # <<>>
  BY <1>1, EmptyFacts DEF Without
<1>4. y = [z EXCEPT !.queue = q]  BY DEF Removed
<1> HIDE DEF q, y
<1>5. y \in Queues /\ y.queue = q /\ y.timer = z.timer /\ y.paused = z.paused
  BY <1>2, <1>4 DEF Served, Queues
<1>6. Served(y)  BY <1>2, <1>3, <1>5 DEF Served
<1> QED  BY <1>2, <1>5, <1>6 DEF y
-----------------------------------------------------------------------------
(* The inductive invariant *)

QueueInv == /\ Served(znc) /\ Distinct(local)
            /\ \A m : ~(InSeq(m, local) /\ InSeq(m, znc.queue))
            /\ \A m : InSeq(m, local) \/ InSeq(m, znc.queue) => m \in live
            /\ running => znc.timer = "active" /\ znc.paused = 0
            /\ ~running => local = <<>>

ConnectInv == TypeOK /\ QueueInv /\ NoneForgotten /\ SockOwned /\ PauseBalanced

LEMMA InitConnect == Init => ConnectInv
<1> SUFFICES ASSUME Init PROVE ConnectInv
  OBVIOUS
<1>1. TypeOK
  <2>1. znc \in [queue : Seq(Networks), timer : {"none", "active", "paused"}, paused : Nat]
    BY DEF Init
  <2>2. servers \in [Networks -> Seq(Servers)]
    <3>1. <<>> \in Seq(Servers)  OBVIOUS
    <3> QED  BY <3>1 DEF Init
  <2>3. local \in Seq(Networks)  BY DEF Init
  <2> QED  BY <2>1, <2>2, <2>3 DEF Init, TypeOK, SockStates
<1>2. QueueInv
  BY EmptyFacts DEF Init, QueueInv, Served, Queues
<1>3. NoneForgotten  BY DEF Init, NoneForgotten
<1>4. SockOwned  BY DEF Init, SockOwned
<1>5. PauseBalanced  BY DEF Init, PauseBalanced
<1> QED  BY <1>1, <1>2, <1>3, <1>4, <1>5 DEF ConnectInv

\* A command that concerns network n only, and puts it into the queue if it now wants
\* to be there, keeps the invariant.
LEMMA CommandKeeps ==
  ASSUME ConnectInv, ~running, NEW n \in Networks, n \in live', live' \in {live, live \cup {n}},
         Grown(znc', znc, n),
         enabled' \in [Networks -> BOOLEAN], servers' \in [Networks -> Seq(Servers)],
         idx' \in [Networks -> Nat], closing' \in [Socks -> BOOLEAN],
         \A m \in Networks \ {n} : enabled'[m] = enabled[m] /\ servers'[m] = servers[m],
         Wants(n)' => InSeq(n, znc'.queue),
         UNCHANGED <<sock, throttled, runVars, state, owner, identSock, crashed>>
  PROVE  ConnectInv'
<1> USE DEF ConnectInv, runVars, Grown
<1>1. TypeOK'  BY DEF TypeOK, Served, Queues
<1>2. QueueInv'  BY EmptyFacts DEF QueueInv
<1>3. NoneForgotten'
  <2> SUFFICES ASSUME NEW m \in live', Wants(m)' PROVE InSeq(m, znc'.queue)
    BY DEF NoneForgotten
  <2>1. CASE m = n  BY <2>1
  <2>2. CASE m # n
    <3>1. m \in live /\ m \in Networks /\ Wants(m)  BY <2>2 DEF TypeOK, Wants
    <3> QED  BY <3>1, EmptyFacts DEF NoneForgotten, QueueInv
  <2> QED  BY <2>1, <2>2
<1>4. SockOwned'  BY DEF SockOwned
<1>5. PauseBalanced'  BY DEF PauseBalanced
<1> QED  BY <1>1, <1>2, <1>3, <1>4, <1>5

LEMMA ListsAreLists == Lists \subseteq Seq(Servers)
  BY DEF Lists

LEMMA ClosedType == ASSUME TypeOK, NEW n PROVE Closed(n) \in [Socks -> BOOLEAN]
  BY DEF TypeOK, Closed

LEMMA AddNetworkKeeps == ASSUME ConnectInv, NEW n \in Networks, AddNetwork(n) PROVE ConnectInv'
<1>1. Grown(znc', znc, n) /\ InSeq(n, znc'.queue)
  BY CheckedFacts DEF AddNetwork, ConnectInv, QueueInv
<1>2. enabled' \in [Networks -> BOOLEAN] /\ \A m \in Networks \ {n} : enabled'[m] = enabled[m]
  BY DEF AddNetwork, ConnectInv, TypeOK
<1> QED  BY <1>1, <1>2, CommandKeeps DEF AddNetwork, Idle, ConnectInv, TypeOK, sockVars

LEMMA SetEnabledKeeps ==
  ASSUME ConnectInv, NEW n \in Networks, NEW b \in BOOLEAN, SetIRCConnectEnabled(n, b)
  PROVE  ConnectInv'
<1>1. Grown(znc', znc, n) /\ (b /\ sock[n] = NoSock => InSeq(n, znc'.queue))
  <2>1. Served(znc) /\ znc' = CheckIRCConnect(znc, n, b, sock[n])
    BY DEF SetIRCConnectEnabled, ConnectInv, QueueInv
  <2> QED  BY <2>1, CheckedFacts
<1>2. /\ enabled' \in [Networks -> BOOLEAN] /\ enabled'[n] = b
      /\ \A m \in Networks \ {n} : enabled'[m] = enabled[m]
  BY DEF SetIRCConnectEnabled, ConnectInv, TypeOK
<1>3. closing' \in [Socks -> BOOLEAN]
  BY ClosedType DEF SetIRCConnectEnabled, ConnectInv, TypeOK
<1>4. Wants(n)' => InSeq(n, znc'.queue)
  BY <1>1, <1>2 DEF Wants, SetIRCConnectEnabled
<1> QED
  BY <1>1, <1>2, <1>3, <1>4, CommandKeeps DEF SetIRCConnectEnabled, Idle, ConnectInv, TypeOK

LEMMA JumpKeeps ==
  ASSUME ConnectInv, NEW n \in Networks, NEW i \in 0..Len(servers[n]), Jump(n, i)
  PROVE  ConnectInv'
<1>1. Grown(znc', znc, n) /\ (sock[n] = NoSock => InSeq(n, znc'.queue))
  BY CheckedFacts DEF Jump, ConnectInv, QueueInv
<1>2. /\ enabled' \in [Networks -> BOOLEAN]
      /\ \A m \in Networks \ {n} : enabled'[m] = enabled[m]
  BY DEF Jump, ConnectInv, TypeOK
<1>3. closing' \in [Socks -> BOOLEAN]
  BY ClosedType DEF Jump, ConnectInv
<1>4. Wants(n)' => InSeq(n, znc'.queue)
  BY <1>1 DEF Wants, Jump
<1>5. idx' \in [Networks -> Nat]
  <2>1. servers[n] \in Seq(Servers) /\ idx \in [Networks -> Nat]  BY DEF ConnectInv, TypeOK
  <2>2. Len(servers[n]) \in Nat  BY <2>1
  <2> QED  BY <2>1, <2>2 DEF Jump
<1> QED
  BY <1>1, <1>2, <1>3, <1>4, <1>5, CommandKeeps DEF Jump, Idle, ConnectInv, TypeOK

LEMMA AddServerKeeps ==
  ASSUME ConnectInv, NEW n \in Networks, NEW s \in Servers, AddServer(n, s)
  PROVE  ConnectInv'
<1>1. Grown(znc', znc, n) /\ (enabled[n] /\ sock[n] = NoSock => InSeq(n, znc'.queue))
  <2>1. Served(znc) /\ znc' = CheckIRCConnect(znc, n, enabled[n], sock[n]) /\ enabled[n] \in BOOLEAN
    BY DEF AddServer, ConnectInv, QueueInv, TypeOK
  <2> QED  BY <2>1, CheckedFacts
<1>2. /\ servers' \in [Networks -> Seq(Servers)]
      /\ \A m \in Networks \ {n} : servers'[m] = servers[m]
  BY AppendFacts DEF AddServer, ConnectInv, TypeOK
<1>3. Wants(n)' => InSeq(n, znc'.queue)
  BY <1>1 DEF Wants, AddServer
<1> QED
  BY <1>1, <1>2, <1>3, CommandKeeps DEF AddServer, Idle, ConnectInv, TypeOK, sockVars

LEMMA ReplaceServersKeeps ==
  ASSUME ConnectInv, NEW n \in Networks, NEW b \in BOOLEAN, NEW list \in Lists,
         ReplaceServers(n, b, list)
  PROVE  ConnectInv'
<1>1. Grown(znc', znc, n) /\ (b /\ sock[n] = NoSock => InSeq(n, znc'.queue))
  <2>1. Served(znc) /\ znc' = CheckIRCConnect(znc, n, b, sock[n])
    BY DEF ReplaceServers, ConnectInv, QueueInv
  <2> QED  BY <2>1, CheckedFacts
<1>2. /\ enabled' \in [Networks -> BOOLEAN] /\ enabled'[n] = b
      /\ \A m \in Networks \ {n} : enabled'[m] = enabled[m]
  BY DEF ReplaceServers, ConnectInv, TypeOK
<1>3. /\ servers' \in [Networks -> Seq(Servers)]
      /\ \A m \in Networks \ {n} : servers'[m] = servers[m]
  BY ListsAreLists DEF ReplaceServers, ConnectInv, TypeOK
<1>4. closing' \in [Socks -> BOOLEAN]
  BY ClosedType DEF ReplaceServers, ConnectInv, TypeOK
<1>5. Wants(n)' => InSeq(n, znc'.queue)
  BY <1>1, <1>2 DEF Wants, ReplaceServers
<1> QED
  BY <1>1, <1>2, <1>3, <1>4, <1>5, CommandKeeps DEF ReplaceServers, Idle, ConnectInv, TypeOK

LEMMA CloneNetworkKeeps ==
  ASSUME ConnectInv, NEW n \in Networks, NEW b \in BOOLEAN, NEW list \in Lists,
         CloneNetwork(n, b, list)
  PROVE  ConnectInv'
<1> DEFINE z == IF list = <<>> THEN znc ELSE CheckIRCConnect(znc, n, enabled[n], sock[n])
           c == CurrentIndex(n)
           same == {a \in DOMAIN list : c # 0 /\ list[a] = servers[n][c]}
<1>1. Grown(z, znc, n)
  <2>1. Served(znc) /\ enabled[n] \in BOOLEAN  BY DEF ConnectInv, QueueInv, TypeOK
  <2>2. Grown(znc, znc, n)  BY <2>1 DEF Grown
  <2> QED  BY <2>1, <2>2, CheckedFacts
<1>2. znc' = CheckIRCConnect(z, n, b, sock[n])  BY DEF CloneNetwork
<1> HIDE DEF z
<1>3. Grown(znc', z, n) /\ (b /\ sock[n] = NoSock => InSeq(n, znc'.queue))
  BY <1>1, <1>2, CheckedFacts DEF Grown
<1>4. /\ enabled' \in [Networks -> BOOLEAN] /\ enabled'[n] = b
      /\ \A m \in Networks \ {n} : enabled'[m] = enabled[m]
  BY DEF CloneNetwork, ConnectInv, TypeOK
<1>5. /\ servers' \in [Networks -> Seq(Servers)]
      /\ \A m \in Networks \ {n} : servers'[m] = servers[m]
  BY ListsAreLists DEF CloneNetwork, ConnectInv, TypeOK
<1>6. closing' \in [Socks -> BOOLEAN]
  BY ClosedType DEF CloneNetwork, ConnectInv, TypeOK
<1>7. idx' \in [Networks -> Nat]
  <2>1. list \in Seq(Servers) /\ idx \in [Networks -> Nat]
    BY ListsAreLists DEF ConnectInv, TypeOK
  <2>2. Len(list) \in Nat /\ same \subseteq Nat  BY <2>1
  <2>3. same # {} => (CHOOSE a \in same : TRUE) \in Nat
    <3> HIDE DEF same
    <3>1. ASSUME same # {} PROVE (CHOOSE a \in same : TRUE) \in same  BY <3>1
    <3> QED  BY <3>1, <2>2
  <2>4. idx' = [idx EXCEPT ![n] = IF same = {} THEN Len(list) ELSE CHOOSE a \in same : TRUE]
    BY DEF CloneNetwork
  <2> HIDE DEF same
  <2> QED  BY <2>1, <2>2, <2>3, <2>4
<1>8. Wants(n)' => InSeq(n, znc'.queue)
  BY <1>3, <1>4 DEF Wants, CloneNetwork
<1>9. Grown(znc', znc, n)
  BY <1>1, <1>3 DEF Grown
<1> QED
  BY <1>4, <1>5, <1>6, <1>7, <1>8, <1>9, CommandKeeps
  DEF CloneNetwork, Idle, ConnectInv, TypeOK

\* The index of GetCurrentServer() and the one that DelServer leaves: the test that
\* precedes a decrement is enough, it never wraps.
LEMMA IndexFacts ==
  ASSUME TypeOK, NEW n \in Networks, NEW i \in DOMAIN servers[n]
  PROVE  /\ Len(servers[n]) \in Nat /\ i \in 1..Len(servers[n]) /\ idx[n] \in Nat
         /\ CurrentIndex(n) \in 0..Len(servers[n])
         /\ IndexAfterDel(n, i) \in Nat
<1>1. servers[n] \in Seq(Servers) /\ idx[n] \in Nat  BY DEF TypeOK
<1>2. Len(servers[n]) \in Nat /\ i \in 1..Len(servers[n])  BY <1>1
<1> QED  BY <1>1, <1>2 DEF CurrentIndex, IndexAfterDel

LEMMA DelServerKeeps ==
  ASSUME ConnectInv, NEW n \in Networks, NEW i \in DOMAIN servers[n], DelServer(n, i)
  PROVE  ConnectInv'
<1>0. TypeOK  BY DEF ConnectInv
<1>1. /\ servers' \in [Networks -> Seq(Servers)]
      /\ \A m \in Networks \ {n} : servers'[m] = servers[m]
  <2>1. RemoveIndex(servers[n], i) \in Seq(Servers)  BY <1>0, RemoveFacts DEF TypeOK
  <2> QED  BY <1>0, <2>1 DEF DelServer, TypeOK
<1>2. idx' \in [Networks -> Nat]  BY <1>0, IndexFacts DEF DelServer, TypeOK
<1>3. closing' \in [Socks -> BOOLEAN]  BY <1>0, ClosedType DEF DelServer, TypeOK
<1>4. Wants(n)' => InSeq(n, znc'.queue)
  <2>1. n \in live /\ local = <<>> /\ znc' = znc /\ enabled' = enabled /\ sock' = sock
    BY DEF DelServer, Idle, ConnectInv, QueueInv
  <2>2. servers[n] # <<>>  BY <1>0 DEF TypeOK
  <2> QED  BY <2>1, <2>2, EmptyFacts DEF Wants, ConnectInv, NoneForgotten
<1>5. Grown(znc', znc, n)  BY DEF DelServer, ConnectInv, QueueInv, Grown
<1> QED  BY <1>0, <1>1, <1>2, <1>3, <1>4, <1>5, CommandKeeps DEF DelServer, Idle, TypeOK

\* The queue once identfile has let go of socket k, if it held it.
LEMMA ReleasedFacts ==
  ASSUME TypeOK, PauseBalanced, NEW k \in Socks, Served(znc)
  PROVE  LET y == Released(znc, k)
         IN  /\ Served(y) /\ y.queue = znc.queue
             /\ y.paused = IF IdentWithout(k) = NoSock THEN 0 ELSE 1
<1>1. k # NoSock  BY NamesAssumption
<1>2. CASE identSock = k
  <2>1. znc.paused = 1  BY <1>1, <1>2 DEF PauseBalanced
  <2> QED  BY <1>2, <2>1, ResumedFacts DEF Released, IdentWithout
<1>3. CASE identSock # k
  BY <1>3 DEF Released, IdentWithout, PauseBalanced
<1> QED  BY <1>2, <1>3

LEMMA DestroySockKeeps ==
  ASSUME ConnectInv, Idle, NEW k \in Socks, state[k] \in {"resolving", "opening", "authed"},
         DestroySock(k)
  PROVE  ConnectInv'
<1> DEFINE n == owner[k]
           z == Released(znc, k)
<1>0. TypeOK /\ QueueInv /\ NoneForgotten /\ SockOwned /\ PauseBalanced /\ k # NoSock
  BY NamesAssumption DEF ConnectInv
<1>1. n \in Networks /\ sock[n] = k /\ n \in live
  BY <1>0 DEF TypeOK, SockOwned
<1>2. Served(z) /\ z.queue = znc.queue /\ z.paused = IF IdentWithout(k) = NoSock THEN 0 ELSE 1
  BY <1>0, ReleasedFacts DEF QueueInv
<1>3. Grown(znc', z, n) /\ (enabled[n] => InSeq(n, znc'.queue))
  <2>1. znc' = CheckIRCConnect(z, n, enabled[n], NoSock)  BY DEF DestroySock, IRCDisconnected
  <2>2. enabled[n] \in BOOLEAN  BY <1>0, <1>1 DEF TypeOK
  <2> HIDE DEF z, n
  <2> QED  BY <1>1, <1>2, <2>1, <2>2, CheckedFacts
<1>4. /\ sock' = [sock EXCEPT ![n] = NoSock] /\ state' = [state EXCEPT ![k] = "none"]
      /\ owner' = [owner EXCEPT ![k] = NoNetwork] /\ closing' = [closing EXCEPT ![k] = FALSE]
      /\ identSock' = IdentWithout(k)
      /\ UNCHANGED <<live, enabled, servers, idx, throttled, running, local, crashed>>
  BY DEF DestroySock, netVars, runVars
<1> HIDE DEF n, z
<1>5. TypeOK'
  BY <1>0, <1>3, <1>4 DEF TypeOK, Grown, Served, Queues, IdentWithout, SockStates
<1>6. QueueInv'
  BY <1>0, <1>1, <1>2, <1>3, <1>4, EmptyFacts DEF QueueInv, Grown, Idle
<1>7. NoneForgotten'
  <2> SUFFICES ASSUME NEW m \in live, Wants(m)' PROVE InSeq(m, znc'.queue)
    BY <1>4 DEF NoneForgotten
  <2>1. CASE m = n  BY <2>1, <1>3, <1>4 DEF Wants
  <2>2. CASE m # n
    <3>1. Wants(m)  BY <2>2, <1>0, <1>4 DEF Wants, TypeOK
    <3>2. local = <<>>  BY <1>0 DEF Idle, QueueInv
    <3> QED  BY <3>1, <3>2, <1>0, <1>2, <1>3, EmptyFacts DEF NoneForgotten, Grown
  <2> QED  BY <2>1, <2>2
<1>8. SockOwned'
  BY <1>0, <1>1, <1>4 DEF SockOwned, TypeOK
<1>9. PauseBalanced'
  BY <1>0, <1>2, <1>3, <1>4 DEF PauseBalanced, Grown, IdentWithout, TypeOK
<1> QED  BY <1>5, <1>6, <1>7, <1>8, <1>9 DEF ConnectInv

LEMMA DeleteNetworkKeeps ==
  ASSUME ConnectInv, NEW n \in Networks, DeleteNetwork(n)
  PROVE  ConnectInv'
<1> DEFINE k == sock[n]
           dies == k # NoSock /\ state[k] # "resolving"
           z == IF dies THEN IRCDisconnected(Released(znc, k), n) ELSE znc
<1>0. TypeOK /\ QueueInv /\ NoneForgotten /\ SockOwned /\ PauseBalanced
  BY DEF ConnectInv
<1>1. /\ k \in Socks \cup {NoSock} /\ NoSock \notin Socks
      /\ k # NoSock => state[k] \in {"resolving", "opening", "authed"} /\ owner[k] = n
  BY <1>0, NamesAssumption DEF TypeOK, SockOwned
<1>2. /\ Served(z) /\ \A m : m # n => (InSeq(m, z.queue) <=> InSeq(m, znc.queue))
      /\ z.paused = IF identSock' = NoSock THEN 0 ELSE 1
      /\ identSock' = IF dies /\ identSock = k THEN NoSock ELSE identSock
  <2>1. identSock' = IF dies /\ identSock = k THEN NoSock ELSE identSock
    BY <1>0, <1>1 DEF DeleteNetwork, TypeOK
  <2>2. CASE dies
    <3> DEFINE y == Released(znc, k)
    <3>1. Served(y) /\ y.queue = znc.queue /\ y.paused = IF IdentWithout(k) = NoSock THEN 0 ELSE 1
      BY <1>0, <1>1, <2>2, ReleasedFacts DEF QueueInv
    <3>2. z = CheckIRCConnect(y, n, enabled[n], NoSock) /\ enabled[n] \in BOOLEAN
      BY <1>0, <2>2 DEF IRCDisconnected, TypeOK
    <3> HIDE DEF y, z
    <3>3. Grown(z, y, n)  BY <3>1, <3>2, CheckedFacts
    <3>4. identSock' = IdentWithout(k)  BY <2>1, <2>2 DEF IdentWithout
    <3> HIDE DEF k, dies
    <3> QED  BY <2>1, <3>1, <3>3, <3>4 DEF Grown
  <2>3. CASE ~dies
    BY <2>1, <2>3, <1>0 DEF QueueInv, PauseBalanced
  <2> QED  BY <2>2, <2>3
<1>3. znc' = Removed(z, n)
  <2>1. znc' = AfterDelete(n)  BY DEF DeleteNetwork
  <2> QED  BY <2>1 DEF AfterDelete, Removed
<1> HIDE DEF z
<1>4. /\ Served(znc') /\ znc'.paused = z.paused
      /\ \A m : InSeq(m, znc'.queue) <=> InSeq(m, z.queue) /\ m # n
  BY <1>2, <1>3, RemovedFacts
<1>5. /\ ~running /\ local = <<>> /\ live' = live \ {n} /\ sock' = [sock EXCEPT ![n] = NoSock]
      /\ enabled' = [enabled EXCEPT ![n] = FALSE] /\ servers' = [servers EXCEPT ![n] = <<>>]
      /\ idx' = [idx EXCEPT ![n] = 0]
      /\ UNCHANGED <<throttled, running, local, crashed>>
  BY <1>0 DEF DeleteNetwork, Idle, QueueInv, runVars
<1>6. /\ state' \in [Socks -> SockStates] /\ owner' \in [Socks -> Networks \cup {NoNetwork}]
      /\ closing' \in [Socks -> BOOLEAN]
      /\ \A j \in Socks \ {k} : state'[j] = state[j] /\ owner'[j] = owner[j]
      /\ k # NoSock => state'[k] = IF dies THEN "none" ELSE "orphan"
  BY <1>0, <1>1 DEF DeleteNetwork, TypeOK, SockStates
<1>7. TypeOK'
  <2>1. servers' \in [Networks -> Seq(Servers)]
    <3>1. <<>> \in Seq(Servers)  OBVIOUS
    <3> QED  BY <3>1, <1>0, <1>5 DEF TypeOK
  <2>2. identSock' \in Socks \cup {NoSock} /\ znc' \in Queues
    BY <1>0, <1>2, <1>4 DEF TypeOK, Served
  <2> HIDE DEF k, dies
  <2> QED  BY <2>1, <2>2, <1>0, <1>5, <1>6 DEF TypeOK, Queues
<1>8. QueueInv'
  <2> HIDE DEF k, dies
  <2> QED  BY <1>0, <1>2, <1>4, <1>5, EmptyFacts DEF QueueInv
<1>9. NoneForgotten'
  <2> SUFFICES ASSUME NEW m \in live \ {n}, Wants(m)' PROVE InSeq(m, znc'.queue)
    BY <1>5 DEF NoneForgotten
  <2>1. Wants(m)  BY <1>0, <1>5 DEF Wants, TypeOK
  <2> QED  BY <2>1, <1>0, <1>2, <1>4, <1>5, EmptyFacts DEF NoneForgotten
<1>10. SockOwned'
  <2>1. \A m \in Networks \ {n} : sock[m] # NoSock => sock[m] # k
    BY <1>0, <1>1 DEF SockOwned
  <2>2. \A j \in Socks \ {k} : state[j] \in {"resolving", "opening", "authed"} => owner[j] # n
    BY <1>0 DEF SockOwned
  <2>3. ASSUME NEW m \in Networks, sock'[m] # NoSock
        PROVE  /\ m \in live' /\ owner'[sock'[m]] = m
               /\ state'[sock'[m]] \in {"resolving", "opening", "authed"}
    <3>1. m # n /\ sock'[m] = sock[m] /\ sock[m] \in Socks \ {k}
      BY <2>1, <2>3, <1>0, <1>5 DEF TypeOK
    <3>2. /\ m \in live' /\ owner[sock[m]] = m /\ sock[m] # NoSock
          /\ state[sock[m]] \in {"resolving", "opening", "authed"}
      BY <3>1, <2>3, <1>0, <1>5 DEF SockOwned
    <3>3. state'[sock[m]] = state[sock[m]] /\ owner'[sock[m]] = owner[sock[m]]
      BY <3>1, <1>6
    <3> QED  BY <3>1, <3>2, <3>3
  <2>4. ASSUME NEW j \in Socks, state'[j] \in {"resolving", "opening", "authed"}
        PROVE  owner'[j] # NoNetwork /\ sock'[owner'[j]] = j
    <3>1. j # k
      <4> HIDE DEF k, dies
      <4> QED  BY <2>4, <1>1, <1>6
    <3>2. state[j] = state'[j] /\ owner'[j] = owner[j] /\ owner[j] # n /\ owner[j] \in Networks
      BY <3>1, <2>2, <2>4, <1>0, <1>6 DEF SockOwned, TypeOK
    <3> QED  BY <3>2, <2>4, <1>0, <1>5 DEF SockOwned, TypeOK
  <2> QED  BY <2>3, <2>4 DEF SockOwned
<1>11. PauseBalanced'
  <2>1. znc'.paused = IF identSock' = NoSock THEN 0 ELSE 1  BY <1>2, <1>4
  <2>2. identSock' # NoSock => state'[identSock'] \notin {"none", "authed"}
    BY <1>0, <1>1, <1>2, <1>6 DEF PauseBalanced, TypeOK
  <2> QED  BY <2>1, <2>2 DEF PauseBalanced
<1> QED  BY <1>7, <1>8, <1>9, <1>10, <1>11 DEF ConnectInv
-----------------------------------------------------------------------------
(* Steps of RunJob *)

LEMMA RunStartKeeps == ASSUME ConnectInv, RunStart PROVE ConnectInv'
<1>0. TypeOK /\ QueueInv /\ NoneForgotten /\ SockOwned /\ PauseBalanced
  BY DEF ConnectInv
<1>1. /\ znc' \in Queues /\ znc'.queue = <<>> /\ znc'.timer = "active" /\ znc'.paused = 0
  <2>1. znc \in Queues /\ znc.timer = "active" /\ znc.paused = 0
    BY <1>0 DEF RunStart, QueueInv, Served, Queues
  <2>2. znc' = [znc EXCEPT !.queue = <<>>] /\ <<>> \in Seq(Networks)  BY DEF RunStart
  <2> QED  BY <2>1, <2>2 DEF Queues
<1>2. /\ running' = TRUE /\ local' = znc.queue /\ local = <<>>
      /\ UNCHANGED <<live, enabled, servers, idx, sock, throttled, state, owner, closing, identSock, crashed>>
  BY <1>0 DEF RunStart, Idle, QueueInv, netVars, sockVars
<1>3. znc.queue \in Seq(Networks) /\ Distinct(znc.queue) /\ znc.paused = 0
  BY <1>0 DEF QueueInv, Served, Queues, RunStart
<1>4. TypeOK'  BY <1>0, <1>1, <1>2, <1>3 DEF TypeOK, Queues
<1>5. QueueInv'
  <2>1. Served(znc')  BY <1>1, EmptyFacts DEF Served
  <2> QED  BY <2>1, <1>0, <1>1, <1>2, <1>3, EmptyFacts DEF QueueInv
<1>6. NoneForgotten'  BY <1>0, <1>2, EmptyFacts DEF NoneForgotten, Wants
<1>7. SockOwned'  BY <1>0, <1>2 DEF SockOwned
<1>8. PauseBalanced'  BY <1>0, <1>1, <1>2, <1>3 DEF PauseBalanced
<1> QED  BY <1>4, <1>5, <1>6, <1>7, <1>8 DEF ConnectInv

\* While RunJob is in progress identfile holds no socket, its list is sound, and what
\* it tries is a network.
LEMMA RunFacts ==
  ASSUME ConnectInv, running, local # <<>>, NEW n, n = Head(local)
  PROVE  /\ n \in Networks /\ n \in live /\ identSock = NoSock
         /\ Served(znc) /\ znc.timer = "active" /\ znc.paused = 0
         /\ Tail(local) \in Seq(Networks) /\ Distinct(Tail(local)) /\ ~InSeq(n, Tail(local))
         /\ \A m : InSeq(m, local) <=> m = n \/ InSeq(m, Tail(local))
         /\ \A m : InSeq(m, Tail(local)) => ~InSeq(m, znc.queue)
<1>0. TypeOK /\ QueueInv /\ PauseBalanced  BY DEF ConnectInv
<1>1. local \in Seq(Networks) /\ Distinct(local)  BY <1>0 DEF TypeOK, QueueInv
<1>2. /\ n \in Networks /\ Tail(local) \in Seq(Networks) /\ InSeq(n, local)
      /\ \A m : InSeq(m, local) <=> m = n \/ InSeq(m, Tail(local))
      /\ Distinct(Tail(local)) /\ ~InSeq(n, Tail(local))
  BY <1>1, TailFacts
<1>3. znc.paused = 0 /\ identSock = NoSock  BY <1>0 DEF QueueInv, PauseBalanced
<1> QED  BY <1>0, <1>2, <1>3 DEF QueueInv

\* The server that Connect() takes is one of the list.
LEMMA NextServerFacts ==
  ASSUME TypeOK, NEW n \in Networks, servers[n] # <<>>
  PROVE  /\ NextServer(n) \in Servers /\ NextIndex(n) + 1 \in 1..Len(servers[n])
         /\ Advanced(n) \in [Networks -> Nat]
<1>1. servers[n] \in Seq(Servers) /\ idx \in [Networks -> Nat]  BY DEF TypeOK
<1>2. Len(servers[n]) \in Nat /\ Len(servers[n]) > 0 /\ idx[n] \in Nat  BY <1>1
<1>3. NextIndex(n) \in Nat /\ NextIndex(n) + 1 \in 1..Len(servers[n])  BY <1>2 DEF NextIndex
<1> QED  BY <1>1, <1>3 DEF NextServer, Advanced

\* RunJob tried a network and goes on: it stays in the queue unless it wants nothing.
LEMMA TryKeeps ==
  ASSUME ConnectInv, running, local # <<>>, NEW n, n = Head(local),
         Grown(znc', znc, n), Wants(n) => InSeq(n, znc'.queue),
         local' = Tail(local), idx' \in [Networks -> Nat], throttled' \subseteq Servers,
         UNCHANGED <<live, enabled, servers, sock, running, sockVars, identSock, crashed>>
  PROVE  ConnectInv'
<1>0. TypeOK /\ QueueInv /\ NoneForgotten /\ SockOwned /\ PauseBalanced
  BY DEF ConnectInv
<1>1. /\ n \in Networks /\ n \in live /\ identSock = NoSock
      /\ Served(znc) /\ znc.timer = "active" /\ znc.paused = 0
      /\ Tail(local) \in Seq(Networks) /\ Distinct(Tail(local)) /\ ~InSeq(n, Tail(local))
      /\ \A m : InSeq(m, local) <=> m = n \/ InSeq(m, Tail(local))
      /\ \A m : InSeq(m, Tail(local)) => ~InSeq(m, znc.queue)
  BY RunFacts
<1>2. /\ Served(znc') /\ znc'.paused = znc.paused /\ znc'.timer = "active"
      /\ \A m : InSeq(m, znc.queue) => InSeq(m, znc'.queue)
      /\ \A m : InSeq(m, znc'.queue) => InSeq(m, znc.queue) \/ m = n
  BY <1>1 DEF Grown
<1>3. TypeOK'  BY <1>0, <1>1, <1>2 DEF TypeOK, Served, Queues, sockVars
<1>4. QueueInv'  BY <1>0, <1>1, <1>2 DEF QueueInv
<1>5. NoneForgotten'
  <2> SUFFICES ASSUME NEW m \in live, Wants(m) PROVE InSeq(m, znc'.queue) \/ InSeq(m, local')
    BY DEF NoneForgotten, Wants
  <2> QED  BY <1>0, <1>1, <1>2 DEF NoneForgotten
<1>6. SockOwned'  BY <1>0 DEF SockOwned, sockVars
<1>7. PauseBalanced'  BY <1>0, <1>2 DEF PauseBalanced, sockVars
<1> QED  BY <1>3, <1>4, <1>5, <1>6, <1>7 DEF ConnectInv

LEMMA TryNothingKeeps == ASSUME ConnectInv, TryNothing PROVE ConnectInv'
<1>1. Grown(znc', znc, Head(local)) BY DEF TryNothing, Grown, ConnectInv, QueueInv
<1> QED  BY <1>1, TryKeeps DEF TryNothing, ConnectInv, TypeOK, netVars

LEMMA TryThrottledKeeps == ASSUME ConnectInv, TryThrottled PROVE ConnectInv'
<1> DEFINE n == Head(local)
<1>1. running /\ local # <<>> /\ servers[n] # <<>> /\ TypeOK
  BY DEF TryThrottled, Wants, ConnectInv
<1>2. n \in Networks /\ Served(znc)  BY <1>1, RunFacts
<1>3. idx' \in [Networks -> Nat]  BY <1>1, <1>2, NextServerFacts DEF TryThrottled
<1>4. Grown(znc', znc, n) /\ InSeq(n, znc'.queue)
  BY <1>2, AddedFacts DEF TryThrottled, Requeued
<1> QED  BY <1>1, <1>3, <1>4, TryKeeps DEF TryThrottled, TypeOK

LEMMA TryAbortedKeeps ==
  ASSUME ConnectInv, NEW claimed \in BOOLEAN, TryAborted(claimed)
  PROVE  ConnectInv'
<1> DEFINE n == Head(local)
           z == IF claimed THEN ResumeConnectQueue(PauseConnectQueue(znc)) ELSE znc
           y == IRCDisconnected(z, n)
<1>1. running /\ local # <<>> /\ servers[n] # <<>> /\ TypeOK
  BY DEF TryAborted, Wants, ConnectInv
<1>2. n \in Networks /\ Served(znc) /\ znc.timer = "active" /\ znc.paused = 0  BY <1>1, RunFacts
<1>3. idx' \in [Networks -> Nat] /\ throttled' \subseteq Servers
  BY <1>1, <1>2, NextServerFacts DEF TryAborted, TypeOK
<1>4. Served(z) /\ z.timer = "active" /\ z.paused = 0 /\ z.queue = znc.queue
  <2>1. CASE claimed
    <3> DEFINE p == PauseConnectQueue(znc)
    <3>1. Served(p) /\ p.paused = 1 /\ p.queue = znc.queue /\ p.timer = "paused"
      BY <1>2, PausedFacts
    <3> HIDE DEF p
    <3>2. z = ResumeConnectQueue(p)  BY <2>1 DEF p
    <3> QED  BY <3>1, <3>2, ResumedFacts
  <2>2. CASE ~claimed  BY <2>2, <1>2
  <2> QED  BY <2>1, <2>2
<1>5. znc' = AddNetworkToQueue(y, n)  BY DEF TryAborted, Requeued
<1> HIDE DEF z, n
<1>6. Grown(y, z, n)
  <2>1. enabled[n] \in BOOLEAN  BY <1>1, <1>2 DEF TypeOK
  <2> QED  BY <1>2, <1>4, <2>1, CheckedFacts DEF IRCDisconnected
<1> HIDE DEF y
<1>7. Grown(znc', y, n) /\ InSeq(n, znc'.queue)
  BY <1>2, <1>5, <1>6, AddedFacts DEF Grown
<1>8. Grown(znc', znc, n)
  BY <1>2, <1>4, <1>6, <1>7 DEF Grown
<1>9. /\ local' = Tail(local)
      /\ UNCHANGED <<live, enabled, servers, sock, running, sockVars, identSock, crashed>>
  BY DEF TryAborted
<1> QED  BY <1>1, <1>3, <1>7, <1>8, <1>9, TryKeeps DEF n

\* RunJob ends with a list z of its own, in which n is put if it still wants a
\* connection.
LEMMA ConnectedFacts ==
  ASSUME ConnectInv, NEW n, NEW k, NEW z, Connected(n, k, z),
         Grown(z, znc, n) \/ (Served(z) /\ z.queue = znc.queue),
         z.paused = 0 => z.timer = "active"
  PROVE  /\ n \in Networks /\ n \in live /\ Wants(n) /\ state[k] = "none"
         /\ identSock = NoSock /\ running /\ local # <<>>
         /\ Served(znc') /\ znc'.paused = z.paused
         /\ \A m : InSeq(m, z.queue) => InSeq(m, znc'.queue)
         /\ \A m : InSeq(m, znc'.queue) => m \in live
         /\ \A m \in live \ {n} : Wants(m) => InSeq(m, znc'.queue)
         /\ running' = FALSE /\ local' = <<>>
         /\ idx' \in [Networks -> Nat] /\ throttled' \subseteq Servers
         /\ UNCHANGED <<live, enabled, servers, closing, crashed>>
<1>0. TypeOK /\ QueueInv /\ NoneForgotten  BY DEF ConnectInv
<1>1. /\ running /\ local # <<>> /\ n = Head(local) /\ Wants(n) /\ state[k] = "none"
      /\ running' = FALSE /\ local' = <<>> /\ znc' = RunEnd(z, Tail(local))
      /\ UNCHANGED <<live, enabled, servers, closing, crashed>>
      /\ idx' = Advanced(n) /\ throttled' = throttled \cup {NextServer(n)}
  BY DEF Connected
<1>2. /\ n \in Networks /\ n \in live /\ identSock = NoSock
      /\ Tail(local) \in Seq(Networks) /\ Distinct(Tail(local)) /\ ~InSeq(n, Tail(local))
      /\ \A m : InSeq(m, local) <=> m = n \/ InSeq(m, Tail(local))
      /\ \A m : InSeq(m, Tail(local)) => ~InSeq(m, znc.queue)
  BY <1>1, RunFacts
<1>3. /\ Served(z)
      /\ \A m : InSeq(m, znc.queue) => InSeq(m, z.queue)
      /\ \A m : InSeq(m, z.queue) => InSeq(m, znc.queue) \/ m = n
  BY DEF Grown
<1>4. \A m : ~(InSeq(m, Tail(local)) /\ InSeq(m, z.queue))
  BY <1>2, <1>3
<1>5. /\ Served(znc') /\ znc'.paused = z.paused
      /\ \A m : InSeq(m, znc'.queue) <=> InSeq(m, Tail(local)) \/ InSeq(m, z.queue)
  BY <1>1, <1>2, <1>3, <1>4, EndedFacts
<1>6. \A m : InSeq(m, znc'.queue) => m \in live
  BY <1>0, <1>2, <1>3, <1>5 DEF QueueInv
<1>7. \A m \in live \ {n} : Wants(m) => InSeq(m, znc'.queue)
  BY <1>0, <1>2, <1>3, <1>5 DEF NoneForgotten
<1>8. idx' \in [Networks -> Nat] /\ throttled' \subseteq Servers
  BY <1>0, <1>1, <1>2, NextServerFacts DEF TypeOK, Wants
<1> QED  BY <1>1, <1>2, <1>5, <1>6, <1>7, <1>8

LEMMA TryConnectKeeps ==
  ASSUME ConnectInv, NEW n \in Networks, NEW k \in Socks, TryConnect(n, k)
  PROVE  ConnectInv'
<1> DEFINE z == Claimed
           st == IF NextServer(n) \in Unix THEN "opening" ELSE "resolving"
<1>0. TypeOK /\ QueueInv /\ SockOwned /\ PauseBalanced /\ k # NoSock /\ n # NoNetwork
  BY NamesAssumption DEF ConnectInv
<1>1. running /\ local # <<>> /\ n = Head(local) /\ Connected(n, k, z) /\ Wants(n)
  BY DEF TryConnect, Connected
<1>2. /\ Served(z) /\ z.queue = znc.queue /\ z.paused = (IF IdentFile THEN 1 ELSE 0)
      /\ z.paused = 0 => z.timer = "active"
  <2>1. Served(znc) /\ znc.timer = "active" /\ znc.paused = 0  BY <1>1, RunFacts
  <2> QED  BY <2>1, PausedFacts, ModulesAssumption DEF Claimed
<1> HIDE DEF z
<1>3. /\ n \in live /\ state[k] = "none" /\ identSock = NoSock
      /\ Served(znc') /\ znc'.paused = z.paused
      /\ \A m : InSeq(m, znc'.queue) => m \in live
      /\ \A m \in live \ {n} : Wants(m) => InSeq(m, znc'.queue)
      /\ running' = FALSE /\ local' = <<>>
      /\ idx' \in [Networks -> Nat] /\ throttled' \subseteq Servers
      /\ UNCHANGED <<live, enabled, servers, closing, crashed>>
  BY <1>1, <1>2, ConnectedFacts
<1>4. /\ sock' = [sock EXCEPT ![n] = k] /\ owner' = [owner EXCEPT ![k] = n]
      /\ state' = [state EXCEPT ![k] = st] /\ st \in {"opening", "resolving"}
      /\ identSock' = IF IdentFile THEN k ELSE identSock
  BY DEF TryConnect
<1> HIDE DEF st
<1>5. TypeOK'
  <2>1. /\ local' \in Seq(Networks) /\ znc' \in Queues
        /\ identSock' \in Socks \cup {NoSock}
    BY <1>3, <1>4 DEF Served
  <2>2. /\ sock' \in [Networks -> Socks \cup {NoSock}]
        /\ owner' \in [Socks -> Networks \cup {NoNetwork}]
        /\ state' \in [Socks -> SockStates]
    BY <1>0, <1>4 DEF TypeOK, SockStates
  <2> QED  BY <1>0, <1>3, <2>1, <2>2 DEF TypeOK, Queues
<1>6. QueueInv'  BY <1>3, EmptyFacts DEF QueueInv
<1>7. NoneForgotten'
  <2> SUFFICES ASSUME NEW m \in live, Wants(m)' PROVE InSeq(m, znc'.queue)
    BY <1>3 DEF NoneForgotten
  <2>1. m # n  BY <1>0, <1>3, <1>4 DEF Wants, TypeOK
  <2>2. Wants(m)  BY <2>1, <1>0, <1>3, <1>4 DEF Wants, TypeOK
  <2> QED  BY <2>1, <2>2, <1>3
<1>8. SockOwned'
  <2>1. \A m \in Networks : sock[m] # k  BY <1>0, <1>3 DEF SockOwned
  <2>2. sock[n] = NoSock  BY <1>1 DEF Wants
  <2>3. ASSUME NEW m \in Networks, sock'[m] # NoSock
        PROVE  /\ m \in live' /\ owner'[sock'[m]] = m
               /\ state'[sock'[m]] \in {"resolving", "opening", "authed"}
    <3>1. CASE m = n  BY <3>1, <1>0, <1>3, <1>4 DEF TypeOK
    <3>2. CASE m # n  BY <3>2, <2>1, <2>3, <1>0, <1>3, <1>4 DEF TypeOK, SockOwned
    <3> QED  BY <3>1, <3>2
  <2>4. ASSUME NEW j \in Socks, state'[j] \in {"resolving", "opening", "authed"}
        PROVE  owner'[j] # NoNetwork /\ sock'[owner'[j]] = j
    <3>1. CASE j = k  BY <3>1, <1>0, <1>4 DEF TypeOK
    <3>2. CASE j # k
      <4>1. owner'[j] = owner[j] /\ state'[j] = state[j]  BY <3>2, <1>0, <1>4 DEF TypeOK
      <4>2. owner[j] # NoNetwork /\ sock[owner[j]] = j /\ owner[j] \in Networks
        BY <4>1, <2>4, <1>0 DEF SockOwned, TypeOK
      <4>3. owner[j] # n  BY <4>2, <2>2, NamesAssumption
      <4> QED  BY <4>1, <4>2, <4>3, <1>0, <1>4 DEF TypeOK
    <3> QED  BY <3>1, <3>2
  <2> QED  BY <2>3, <2>4 DEF SockOwned
<1>9. PauseBalanced'
  BY <1>0, <1>2, <1>3, <1>4 DEF PauseBalanced, TypeOK
<1> QED  BY <1>5, <1>6, <1>7, <1>8, <1>9 DEF ConnectInv

LEMMA TryUnixFailsKeeps ==
  ASSUME ConnectInv, NEW n \in Networks, NEW k \in Socks, TryUnixFails(n, k)
  PROVE  ConnectInv'
<1> DEFINE r == IF IdentFile THEN ResumeConnectQueue(Claimed) ELSE znc
           z == IRCDisconnected(r, n)
<1>0. TypeOK /\ QueueInv /\ SockOwned /\ PauseBalanced
  BY DEF ConnectInv
<1>1. running /\ local # <<>> /\ n = Head(local) /\ Connected(n, k, z) /\ enabled[n]
  BY DEF TryUnixFails, Connected, Wants
<1>2. Served(znc) /\ znc.timer = "active" /\ znc.paused = 0  BY <1>1, RunFacts
<1>3. Served(r) /\ r.timer = "active" /\ r.paused = 0 /\ r.queue = znc.queue
  <2>1. CASE IdentFile
    <3> DEFINE p == PauseConnectQueue(znc)
    <3>1. Served(p) /\ p.paused = 1 /\ p.queue = znc.queue /\ p.timer = "paused"
      BY <1>2, PausedFacts
    <3> HIDE DEF p
    <3>2. r = ResumeConnectQueue(p)  BY <2>1 DEF p, Claimed
    <3> QED  BY <3>1, <3>2, ResumedFacts
  <2>2. CASE ~IdentFile  BY <2>2, <1>2
  <2> QED  BY <2>1, <2>2
<1> HIDE DEF r
<1>4. Grown(z, r, n) /\ InSeq(n, z.queue)
  <2>1. enabled[n] \in BOOLEAN  BY <1>0 DEF TypeOK
  <2> QED  BY <1>1, <1>3, <2>1, CheckedFacts DEF IRCDisconnected
<1> HIDE DEF z
<1>5. Grown(z, znc, n) /\ z.timer = "active" /\ z.paused = 0
  BY <1>2, <1>3, <1>4 DEF Grown
<1>6. /\ n \in live /\ identSock = NoSock
      /\ Served(znc') /\ znc'.paused = z.paused
      /\ \A m : InSeq(m, z.queue) => InSeq(m, znc'.queue)
      /\ \A m : InSeq(m, znc'.queue) => m \in live
      /\ \A m \in live \ {n} : Wants(m) => InSeq(m, znc'.queue)
      /\ running' = FALSE /\ local' = <<>>
      /\ idx' \in [Networks -> Nat] /\ throttled' \subseteq Servers
      /\ UNCHANGED <<live, enabled, servers, closing, crashed>>
  BY <1>1, <1>5, ConnectedFacts
<1>7. UNCHANGED <<sock, state, owner, identSock>>  BY DEF TryUnixFails
<1>8. TypeOK'
  <2>1. local' \in Seq(Networks) /\ znc' \in Queues  BY <1>6 DEF Served
  <2> QED  BY <1>0, <1>6, <1>7, <2>1 DEF TypeOK, Queues
<1>9. QueueInv'  BY <1>6, EmptyFacts DEF QueueInv
<1>10. NoneForgotten'
  <2> SUFFICES ASSUME NEW m \in live, Wants(m) PROVE InSeq(m, znc'.queue)
    BY <1>6, <1>7 DEF NoneForgotten, Wants
  <2> QED  BY <1>4, <1>6
<1>11. SockOwned'  BY <1>0, <1>6, <1>7 DEF SockOwned
<1>12. PauseBalanced'  BY <1>5, <1>6, <1>7 DEF PauseBalanced
<1> QED  BY <1>8, <1>9, <1>10, <1>11, <1>12 DEF ConnectInv

LEMMA RunFinishKeeps == ASSUME ConnectInv, RunFinish PROVE ConnectInv'
<1>0. TypeOK /\ QueueInv /\ NoneForgotten /\ SockOwned /\ PauseBalanced
  BY DEF ConnectInv
<1>1. /\ Served(znc') /\ znc'.paused = znc.paused
      /\ \A m : InSeq(m, znc'.queue) <=> InSeq(m, znc.queue)
  <2>1. <<>> \in Seq(Networks) /\ Served(znc) /\ znc.timer = "active"
    BY <1>0 DEF QueueInv, RunFinish
  <2> QED  BY <2>1, EndedFacts, EmptyFacts DEF RunFinish
<1>2. /\ running' = FALSE /\ local = <<>> /\ local' = <<>>
      /\ UNCHANGED <<live, enabled, servers, idx, sock, throttled, state, owner, closing, identSock, crashed>>
  BY DEF RunFinish, netVars, sockVars
<1>3. TypeOK'  BY <1>0, <1>1, <1>2 DEF TypeOK, Served, Queues
<1>4. QueueInv'  BY <1>0, <1>1, <1>2, EmptyFacts DEF QueueInv
<1>5. NoneForgotten'  BY <1>0, <1>1, <1>2, EmptyFacts DEF NoneForgotten, Wants
<1>6. SockOwned'  BY <1>0, <1>2 DEF SockOwned
<1>7. PauseBalanced'  BY <1>0, <1>1, <1>2 DEF PauseBalanced
<1> QED  BY <1>3, <1>4, <1>5, <1>6, <1>7 DEF ConnectInv
-----------------------------------------------------------------------------
(* Events of a socket, and the invariant of the specification *)

LEMMA ResolvedKeeps == ASSUME ConnectInv, NEW k \in Socks, Resolved(k) PROVE ConnectInv'
<1> USE DEF ConnectInv, Resolved, netVars, runVars
<1>1. TypeOK'  BY DEF TypeOK, SockStates
<1>2. QueueInv'  BY DEF QueueInv
<1>3. NoneForgotten'  BY DEF NoneForgotten, Wants
<1>4. SockOwned'  BY DEF SockOwned, TypeOK
<1>5. PauseBalanced'  BY DEF PauseBalanced, TypeOK
<1> QED  BY <1>1, <1>2, <1>3, <1>4, <1>5

LEMMA LoggedInKeeps == ASSUME ConnectInv, NEW k \in Socks, LoggedIn(k) PROVE ConnectInv'
<1>0. TypeOK /\ QueueInv /\ NoneForgotten /\ SockOwned /\ PauseBalanced /\ NoSock \notin Socks
  BY NamesAssumption DEF ConnectInv
<1>1. /\ Served(znc') /\ znc'.queue = znc.queue
      /\ znc'.paused = IF IdentWithout(k) = NoSock THEN 0 ELSE 1
  BY <1>0, ReleasedFacts DEF LoggedIn, QueueInv
<1>2. /\ ~running /\ state[k] = "opening" /\ state' = [state EXCEPT ![k] = "authed"]
      /\ identSock' = IdentWithout(k)
      /\ UNCHANGED <<live, enabled, servers, idx, sock, throttled, running, local, owner, closing, crashed>>
  BY DEF LoggedIn, Idle, netVars, runVars
<1>3. TypeOK'
  BY <1>0, <1>1, <1>2 DEF TypeOK, Served, Queues, IdentWithout, SockStates
<1>4. QueueInv'  BY <1>0, <1>1, <1>2 DEF QueueInv
<1>5. NoneForgotten'  BY <1>0, <1>1, <1>2 DEF NoneForgotten, Wants
<1>6. SockOwned'  BY <1>0, <1>2 DEF SockOwned, TypeOK
<1>7. PauseBalanced'  BY <1>0, <1>1, <1>2 DEF PauseBalanced, IdentWithout, TypeOK
<1> QED  BY <1>3, <1>4, <1>5, <1>6, <1>7 DEF ConnectInv

\* The flag crashed and the throttle are of no importance for the invariant.
LEMMA OthersKeep ==
  ASSUME ConnectInv, throttled' \subseteq Servers, crashed' \in BOOLEAN,
         UNCHANGED <<live, enabled, servers, idx, sock, znc, running, local, state, owner,
                     closing, identSock>>
  PROVE  ConnectInv'
  BY DEF ConnectInv, TypeOK, QueueInv, NoneForgotten, Wants, SockOwned, PauseBalanced

LEMMA NextConnect == ConnectInv /\ [Next]_vars => ConnectInv'
<1> SUFFICES ASSUME ConnectInv, [Next]_vars PROVE ConnectInv'
  OBVIOUS
<1>0. TypeOK  BY DEF ConnectInv
<1>1. CASE TimerStep
  BY <1>1, RunStartKeeps, TryNothingKeeps, TryThrottledKeeps, RunFinishKeeps, TryAbortedKeeps,
     TryConnectKeeps, TryUnixFailsKeeps DEF TimerStep
<1>2. ASSUME NEW n \in Networks, NetworkStep(n) PROVE ConnectInv'
  <2>1. CASE AddNetwork(n) \/ DeleteNetwork(n)  BY <2>1, AddNetworkKeeps, DeleteNetworkKeeps
  <2>2. ASSUME NEW b \in BOOLEAN, SetIRCConnectEnabled(n, b) PROVE ConnectInv'
    BY <2>2, SetEnabledKeeps
  <2>3. ASSUME NEW i \in 0..Len(servers[n]), Jump(n, i) PROVE ConnectInv'  BY <2>3, JumpKeeps
  <2>4. ASSUME NEW x \in Servers, AddServer(n, x) PROVE ConnectInv'  BY <2>4, AddServerKeeps
  <2>5. ASSUME NEW i \in DOMAIN servers[n], DelServer(n, i) PROVE ConnectInv'
    BY <2>5, DelServerKeeps
  <2>6. ASSUME NEW b \in BOOLEAN, NEW list \in Lists,
               ReplaceServers(n, b, list) \/ CloneNetwork(n, b, list)
        PROVE  ConnectInv'
    BY <2>6, ReplaceServersKeeps, CloneNetworkKeeps
  <2> QED  BY <1>2, <2>1, <2>2, <2>3, <2>4, <2>5, <2>6 DEF NetworkStep
<1>3. ASSUME NEW k \in Socks, SockStep(k) PROVE ConnectInv'
  <2>1. CASE Resolved(k)  BY <2>1, ResolvedKeeps
  <2>2. CASE ResolveFails(k)
    <3>1. CASE state[k] = "resolving" /\ DestroySock(k)
      BY <2>2, <3>1, DestroySockKeeps DEF ResolveFails
    <3>2. CASE state[k] # "resolving"
      BY <1>0, <2>2, <3>2, OthersKeep DEF ResolveFails, TypeOK, netVars, runVars, sockVars
    <3> QED  BY <2>2, <3>1, <3>2 DEF ResolveFails
  <2>3. CASE LoggedIn(k)  BY <2>3, LoggedInKeeps
  <2>4. CASE SockEnds(k)  BY <2>4, DestroySockKeeps DEF SockEnds
  <2> QED  BY <1>3, <2>1, <2>2, <2>3, <2>4 DEF SockStep
<1>4. ASSUME NEW x \in Servers, ThrottleExpires(x) PROVE ConnectInv'
  BY <1>0, <1>4, OthersKeep DEF ThrottleExpires, TypeOK, netVars, runVars, sockVars
<1>5. CASE Ended \/ UNCHANGED vars
  BY <1>0, <1>5, OthersKeep DEF Ended, TypeOK, vars
<1> QED  BY <1>1, <1>2, <1>3, <1>4, <1>5 DEF Next

THEOREM ConnectInvariant == Spec => []ConnectInv
  BY InitConnect, NextConnect, PTL DEF Spec

\* No event leaves a network that is to be connected outside the queue.
THEOREM ConnectNoneForgotten == Spec => []NoneForgotten
<1>1. ConnectInv => NoneForgotten  BY DEF ConnectInv
<1> QED  BY <1>1, ConnectInvariant, PTL

\* The state has its type (no unsigned counter wraps), the queue is served by a timer
\* unless it is paused, and no network is in it twice or after its destruction.
THEOREM ConnectQueueSound == Spec => []QueueSound
<1>1. ConnectInv => QueueSound
  <2> SUFFICES ASSUME ConnectInv PROVE QueueSound
    OBVIOUS
  <2> DEFINE all == local \o znc.queue
  <2>1. TypeOK /\ QueueInv  BY DEF ConnectInv
  <2>2. TimerRuns  BY <2>1 DEF QueueInv, Served, TimerRuns
  <2>3. local \in Seq(Networks) /\ znc.queue \in Seq(Networks)
    BY <2>1 DEF TypeOK
  <2>4. Distinct(all) /\ \A m : InSeq(m, all) <=> InSeq(m, local) \/ InSeq(m, znc.queue)
    BY <2>1, <2>3, ConcatFacts DEF QueueInv, Served
  <2> HIDE DEF all
  <2>5. \A i \in DOMAIN all : all[i] \in live
    BY <2>1, <2>4 DEF QueueInv, InSeq
  <2> QED  BY <2>1, <2>2, <2>4, <2>5 DEF QueueSound, Distinct, all
<1> QED  BY <1>1, ConnectInvariant, PTL

\* A network and its socket point at each other, whatever is deleted or fails first.
THEOREM ConnectSockOwned == Spec => []SockOwned
<1>1. ConnectInv => SockOwned  BY DEF ConnectInv
<1> QED  BY <1>1, ConnectInvariant, PTL

\* identfile's pauses and resumes of the queue are balanced.
THEOREM ConnectPauseBalanced == Spec => []PauseBalanced
<1>1. ConnectInv => PauseBalanced  BY DEF ConnectInv
<1> QED  BY <1>1, ConnectInvariant, PTL
-----------------------------------------------------------------------------
(* The server that is tried next *)

Follows(n, i) == NextServer(n)' = IF i # NextIndex(n) + 1 THEN NextServer(n)
                                  ELSE servers[n][(i % Len(servers[n])) + 1]

LEMMA DelServerFollows ==
  ASSUME TypeOK, NEW n \in Networks, NEW i, DelServer(n, i), servers'[n] # <<>>
  PROVE  Follows(n, i)
<1> DEFINE s == servers[n]
           t == servers'[n]
           x == idx[n]
           L == Len(s)
<1>1. /\ s \in Seq(Servers) /\ i \in DOMAIN s /\ t = RemoveIndex(s, i)
      /\ idx'[n] = IndexAfterDel(n, i)
  BY DEF DelServer, TypeOK
<1>2. L \in Nat /\ i \in 1..L /\ x \in Nat /\ IndexAfterDel(n, i) \in Nat
  BY <1>1, IndexFacts
<1>3. /\ t \in Seq(Servers) /\ Len(t) = L - 1
      /\ \A j \in 1..(L - 1) : t[j] = IF j < i THEN s[j] ELSE s[j + 1]
  BY <1>1, RemoveFacts
<1>4. L >= 2  BY <1>2, <1>3
<1> DEFINE p == IF x >= L THEN 0 ELSE x
           q == IF idx'[n] >= L - 1 THEN 0 ELSE idx'[n]
<1>5. NextServer(n) = s[p + 1] /\ NextIndex(n) = p /\ NextServer(n)' = t[q + 1]
  BY <1>3 DEF NextServer, NextIndex
<1>6. idx'[n] = IF x = 0 THEN 0
                ELSE IF x > L \/ i <= x THEN x - 1 ELSE x
  BY <1>1, <1>2 DEF IndexAfterDel, CurrentIndex
<1> HIDE DEF s, t, x, L
<1>7. CASE i # p + 1
  <2>1. q + 1 \in 1..(L - 1) /\ IF q + 1 < i THEN q = p ELSE q + 1 = p
    BY <1>2, <1>4, <1>6, <1>7
  <2> QED  BY <2>1, <1>2, <1>3, <1>5, <1>7 DEF Follows
<1>8. CASE i = p + 1
  <2>1. IF i = L THEN q + 1 = 1 /\ 1 < i ELSE q + 1 = i /\ i \in 1..(L - 1)
    BY <1>2, <1>4, <1>6, <1>8
  <2>2. (i % L) + 1 = IF i = L THEN 1 ELSE i + 1
    BY <1>2, <1>4
  <2>3. t[q + 1] = s[(i % L) + 1]
    <3> HIDE DEF q
    <3>1. CASE i = L
      <4>1. q + 1 = 1 /\ 1 < i /\ (i % L) + 1 = 1 /\ 1 \in 1..(L - 1)
        BY <3>1, <2>1, <2>2, <1>2, <1>4
      <4> QED  BY <4>1, <1>3
    <3>2. CASE i # L
      <4>1. q + 1 = i /\ ~(i < i) /\ (i % L) + 1 = i + 1 /\ i \in 1..(L - 1)
        BY <3>2, <2>1, <2>2, <1>2
      <4> QED  BY <4>1, <1>3
    <3> QED  BY <3>1, <3>2
  <2> QED  BY <2>3, <1>5, <1>8 DEF Follows, s, L
<1> QED  BY <1>7, <1>8

\* Whichever servers are deleted, and in whichever order, the network goes on with the
\* server that it would have tried next, or, if that is the one deleted, with its successor.
THEOREM ConnectNextServerKept == Spec => NextServerKept
<1>1. TypeOK => [\A n \in Networks, i \in 1..Cardinality(Servers) :
                   DelServer(n, i) /\ servers'[n] # <<>>
                     => NextServer(n)' = IF i # NextIndex(n) + 1 THEN NextServer(n)
                                         ELSE servers[n][(i % Len(servers[n])) + 1]]_vars
  BY DelServerFollows DEF Follows
<1>2. ConnectInv => TypeOK  BY DEF ConnectInv
<1> QED  BY <1>1, <1>2, ConnectInvariant, PTL DEF NextServerKept
=============================================================================
