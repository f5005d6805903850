--------------------------- MODULE MCState_proof -----------------------------
(***************************************************************************)
(* Proofs about the parts of MCState, for any values of the constants: no    *)
(* line of a buffer is lost (Playback), pages are shown to who may see them  *)
(* (Web), and what a module owns ends with it (ModuleHost).                  *)
(***************************************************************************)
EXTENDS MCState, SequenceTheorems, WellFoundedInduction, TLAPS

-----------------------------------------------------------------------------
(* Buffers *)

LEMMA RangeOf ==
  ASSUME NEW S, NEW s \in Seq(S)
  PROVE  /\ Range(s) = {s[i] : i \in 1..Len(s)} /\ Range(s) \subseteq S
         /\ DOMAIN s = 1..Len(s) /\ Len(s) \in Nat
  BY DEF Range

LEMMA EmptyFacts == ASSUME NEW S PROVE <<>> \in Seq(S) /\ Len(<<>>) = 0 /\ Range(<<>>) = {}
  BY DEF Range

LEMMA AppendFacts ==
  ASSUME NEW S, NEW s \in Seq(S), NEW e \in S
  PROVE  /\ Append(s, e) \in Seq(S) /\ Len(Append(s, e)) = Len(s) + 1
         /\ Range(Append(s, e)) = Range(s) \cup {e}
<1> DEFINE t == Append(s, e)
<1>1. /\ t \in Seq(S) /\ Len(t) = Len(s) + 1 /\ Len(s) \in Nat
      /\ \A i \in 1..Len(s) : t[i] = s[i]
      /\ t[Len(s) + 1] = e
  OBVIOUS
<1> HIDE DEF t
<1>2. Range(t) = {t[i] : i \in 1..Len(t)} /\ Range(s) = {s[i] : i \in 1..Len(s)}
  BY <1>1, RangeOf
<1>3. \A i \in 1..Len(t) : i \in 1..Len(s) \/ i = Len(s) + 1  BY <1>1
<1>4. 1..Len(s) \subseteq 1..Len(t) /\ Len(s) + 1 \in 1..Len(t)  BY <1>1
<1>5. Range(t) = Range(s) \cup {e}  BY <1>1, <1>2, <1>3, <1>4
<1> QED  BY <1>1, <1>5 DEF t

LEMMA ShrunkFacts ==
  ASSUME NEW S, NEW s \in Seq(S), NEW n \in Nat
  PROVE  /\ Shrunk(s, n) \in Seq(S) /\ Len(Shrunk(s, n)) <= n /\ Len(Shrunk(s, n)) <= Len(s)
         /\ Range(Shrunk(s, n)) \subseteq Range(s)
<1>1. CASE Len(s) <= n  BY <1>1 DEF Shrunk
<1>2. CASE ~(Len(s) <= n)
  <2> DEFINE k == Len(s) - n
             t == SubSeq(s, k + 1, Len(s))
  <2>1. Shrunk(s, n) = t  BY <1>2 DEF Shrunk
  <2>2. Len(s) \in Nat /\ k \in Nat /\ k + 1 <= Len(s) + 1 /\ k <= Len(s) BY <1>2
  <2>3. \A i \in (k + 1)..Len(s) : s[i] \in S /\ i \in 1..Len(s)  BY <2>2
  <2>4. k + 1 \in Int /\ Len(s) \in Int /\ (\A i \in (k + 1)..Len(s) : s[i] \in S)  BY <2>2, <2>3
  <2>5. /\ t \in Seq(S) /\ Len(t) = IF k + 1 <= Len(s) THEN Len(s) - (k + 1) + 1 ELSE 0
        /\ \A i \in 1..(Len(s) - (k + 1) + 1) : t[i] = s[(k + 1) + i - 1]
    <3> HIDE DEF k
    <3> QED  BY <2>4, SubSeqProperties
  <2> HIDE DEF t
  <2>6. Len(t) = n  BY <2>2, <2>5
  <2>7. \A i \in 1..Len(t) : i + k \in 1..Len(s) /\ t[i] = s[i + k]
    <3> SUFFICES ASSUME NEW i \in 1..Len(t) PROVE i + k \in 1..Len(s) /\ t[i] = s[i + k]
      OBVIOUS
    <3>1. i + k \in 1..Len(s) /\ (k + 1) + i - 1 = i + k /\ i \in 1..(Len(s) - (k + 1) + 1)
      BY <2>2, <2>6
    <3> QED  BY <3>1, <2>5
  <2>8. Range(t) = {t[i] : i \in 1..Len(t)} /\ Range(s) = {s[i] : i \in 1..Len(s)}
    BY <2>5, RangeOf
  <2>9. Range(t) \subseteq Range(s)  BY <2>7, <2>8
  <2> QED  BY <1>2, <2>1, <2>2, <2>5, <2>6, <2>9
<1> QED  BY <1>1, <1>2

LEMMA AddLineFacts ==
  ASSUME NEW S, NEW s \in Seq(S), NEW n \in Nat, NEW l \in S
  PROVE  /\ AddLine(s, n, l) \in Seq(S) /\ (Len(s) <= n => Len(AddLine(s, n, l)) <= n)
         /\ Range(AddLine(s, n, l)) \subseteq Range(s) \cup {l}
<1>1. CASE n = 0  BY <1>1 DEF AddLine
<1>2. CASE n # 0
  <2> DEFINE t == Shrunk(s, n - 1)
  <2>1. n - 1 \in Nat  BY <1>2
  <2>2. t \in Seq(S) /\ Len(t) <= n - 1 /\ Range(t) \subseteq Range(s) /\ Len(t) \in Nat
    BY <2>1, ShrunkFacts
  <2>3. AddLine(s, n, l) = Append(t, l)  BY <1>2 DEF AddLine
  <2> HIDE DEF t
  <2>4. /\ Append(t, l) \in Seq(S) /\ Len(Append(t, l)) = Len(t) + 1
        /\ Range(Append(t, l)) = Range(t) \cup {l}
    BY <2>2, AppendFacts
  <2>5. Len(t) + 1 <= n  BY <2>2
  <2> QED  BY <2>2, <2>3, <2>4, <2>5
<1> QED  BY <1>1, <1>2
-----------------------------------------------------------------------------
(* The network *)

Query == [name : Peers, size : Nat, buffer : Seq(Nat)]
Nets == [detached : BOOLEAN, auto : BOOLEAN, size : Nat, buffer : Seq(Nat),
         queries : Seq(Query), autoQuery : BOOLEAN, notices : Seq(Nat), flood : Nat,
         seen : SUBSET Nat, gone : SUBSET Nat, unheard : SUBSET Nat,
         got : [Clients -> SUBSET Nat], twice : BOOLEAN]

\* What is accounted for: sent, dropped, or waiting.
Held(s) == s.seen \cup s.gone \cup s.unheard \cup Range(s.buffer) \cup Lines(s.queries)
           \cup Range(s.notices)

\* A line waits in one place, and all that wait were sent to ZNC: they are among the first n.
Apart(b, q, o, n) == /\ b \cap q = {} /\ b \cap o = {} /\ q \cap o = {}
                     /\ b \cup q \cup o \subseteq 1..n

\* With buffers that clear themselves (on), what waits in the channel's buffer was sent to
\* no client there is.
Unheard(b, got, on, n) == \A c \in Clients : got[c] \subseteq 1..n /\ (on => got[c] \cap b = {})

\* The network s, when n lines came and those in K are accounted for.
Good(s, n, K) == /\ s \in Nets /\ ~s.twice /\ K \subseteq Held(s)
                 /\ Apart(Range(s.buffer), Lines(s.queries), Range(s.notices), n)
                 /\ Unheard(Range(s.buffer), s.got, s.auto /\ s.autoQuery, n)

Fits(s) == Len(s.buffer) <= s.size /\ Few(s.queries) /\ s.flood <= FloodLines

\* The parts of a network that t shares with s.
SameFlags(s, t) == /\ t.detached = s.detached /\ t.auto = s.auto /\ t.autoQuery = s.autoQuery
                   /\ t.size = s.size /\ t.flood = s.flood
SameGhosts(s, t) == t.seen = s.seen /\ t.unheard = s.unheard /\ t.got = s.got /\ t.twice = s.twice
SameBuffers(s, t) == t.buffer = s.buffer /\ t.queries = s.queries /\ t.notices = s.notices

LEMMA LinesOf ==
  ASSUME NEW qs \in Seq(Query)
  PROVE  /\ \A l : l \in Lines(qs) <=> \E i \in 1..Len(qs) : l \in Range(qs[i].buffer)
         /\ Lines(qs) \subseteq Nat
<1>1. Range(qs) = {qs[i] : i \in 1..Len(qs)}  BY RangeOf
<1>2. \A l : l \in Lines(qs) <=> \E i \in 1..Len(qs) : l \in Range(qs[i].buffer)
  BY <1>1 DEF Lines
<1>3. \A i \in 1..Len(qs) : qs[i].buffer \in Seq(Nat)
  <2>1. \A i \in 1..Len(qs) : qs[i] \in Query  OBVIOUS
  <2> QED  BY <2>1 DEF Query
<1>4. \A i \in 1..Len(qs) : \A l \in Range(qs[i].buffer) : l \in Nat
  <2> SUFFICES ASSUME NEW i \in 1..Len(qs) PROVE Range(qs[i].buffer) \subseteq Nat  OBVIOUS
  <2>1. qs[i].buffer \in Seq(Nat)  BY <1>3
  <2> QED  BY <2>1, RangeOf, Zenon
<1>5. \A l \in Lines(qs) : l \in Nat  BY <1>2, <1>4
<1> QED  BY <1>2, <1>5

LEMMA NetFacts ==
  ASSUME NEW s \in Nets
  PROVE  /\ s.buffer \in Seq(Nat) /\ s.queries \in Seq(Query) /\ s.notices \in Seq(Nat)
         /\ s.size \in Nat /\ s.detached \in BOOLEAN /\ s.auto \in BOOLEAN
         /\ s.autoQuery \in BOOLEAN /\ s.got \in [Clients -> SUBSET Nat] /\ s.twice \in BOOLEAN
         /\ s.seen \subseteq Nat /\ s.gone \subseteq Nat /\ s.unheard \subseteq Nat /\ s.flood \in Nat
  BY DEF Nets

LEMMA Waiting ==
  ASSUME NEW s \in Nets
  PROVE  Range(s.buffer) \subseteq Nat /\ Lines(s.queries) \subseteq Nat /\ Range(s.notices) \subseteq Nat
  BY NetFacts, RangeOf, LinesOf

LEMMA EmptyWaiting == Range(<<>>) = {} /\ Lines(<<>>) = {} /\ <<>> \in Seq(Nat) /\ <<>> \in Seq(Query)
  BY EmptyFacts DEF Lines

-----------------------------------------------------------------------------
(* What changes of one or two fields leave *)

LEMMA BufferSet ==
  ASSUME NEW s \in Nets, NEW b \in Seq(Nat), NEW ls \in SUBSET Nat
  PROVE  LET t == SetBuffer(s, b, ls) IN
         /\ t \in Nets /\ SameFlags(s, t) /\ SameGhosts(s, t)
         /\ t.buffer = b /\ t.queries = s.queries /\ t.notices = s.notices
         /\ t.gone = s.gone \cup (ls \ Range(b))
  BY DEF SetBuffer, Dropped, Nets, SameFlags, SameGhosts

LEMMA QueriesSet ==
  ASSUME NEW s \in Nets, NEW qs \in Seq(Query), NEW ls \in SUBSET Nat
  PROVE  LET t == SetQueries(s, qs, ls) IN
         /\ t \in Nets /\ SameFlags(s, t) /\ SameGhosts(s, t)
         /\ t.buffer = s.buffer /\ t.queries = qs /\ t.notices = s.notices
         /\ t.gone = s.gone \cup (ls \ Lines(qs))
  BY DEF SetQueries, Dropped, Nets, SameFlags, SameGhosts

\* What cs were sent: those that are not away have it.
Got(s, t, cs, ls) == \A c \in Clients : t.got[c] = IF c \in cs \ away THEN s.got[c] \cup ls ELSE s.got[c]
Seen(s, cs, ls) == IF cs = {} THEN s.seen ELSE s.seen \cup ls

LEMMA ToldFacts ==
  ASSUME NEW s \in Nets, NEW cs \in SUBSET Clients, NEW ls \in SUBSET Nat
  PROVE  LET t == Told(s, cs, ls) IN
         /\ t \in Nets /\ SameFlags(s, t) /\ SameBuffers(s, t)
         /\ t.gone = s.gone /\ t.unheard = s.unheard /\ t.twice = s.twice
         /\ t.seen = Seen(s, cs, ls) /\ Got(s, t, cs, ls)
  BY DEF Told, Nets, SameFlags, SameBuffers, Seen, Got
-----------------------------------------------------------------------------
(* Handlers that keep a network good *)

\* None of the lines X waits or was sent to a client there is.
Unused(s, X) == /\ X \cap Range(s.buffer) = {} /\ X \cap Lines(s.queries) = {}
                /\ X \cap Range(s.notices) = {} /\ \A c \in Clients : X \cap s.got[c] = {}

LEMMA BufferGood ==
  ASSUME NEW s, NEW n \in Nat, NEW K, Good(s, n, K), NEW X \in SUBSET (1..n), Unused(s, X),
         NEW b \in Seq(Nat), Range(b) \subseteq Range(s.buffer) \cup X
  PROVE  Good(SetBuffer(s, b, Range(s.buffer) \cup X), n, K \cup X)
<1> DEFINE ls == Range(s.buffer) \cup X
           t == SetBuffer(s, b, ls)
<1>1. s \in Nets /\ ~s.twice /\ K \subseteq Held(s)  BY DEF Good
<1>2. ls \in SUBSET Nat  BY <1>1, Waiting
<1>3. /\ t \in Nets /\ SameFlags(s, t) /\ SameGhosts(s, t)
      /\ t.buffer = b /\ t.queries = s.queries /\ t.notices = s.notices
      /\ t.gone = s.gone \cup (ls \ Range(b))
  BY <1>1, <1>2, BufferSet
<1> HIDE DEF t
<1>4. K \cup X \subseteq Held(t)  BY <1>1, <1>3 DEF Held, SameGhosts
<1>5. Apart(Range(t.buffer), Lines(t.queries), Range(t.notices), n)
  BY <1>3 DEF Good, Apart, Unused
<1>6. Unheard(Range(t.buffer), t.got, t.auto /\ t.autoQuery, n)
  BY <1>3 DEF Good, Unheard, Unused, SameFlags, SameGhosts
<1>7. ~t.twice  BY <1>1, <1>3 DEF SameGhosts
<1> QED  BY <1>3, <1>4, <1>5, <1>6, <1>7 DEF Good, t

LEMMA QueriesGood ==
  ASSUME NEW s, NEW n \in Nat, NEW K, Good(s, n, K), NEW X \in SUBSET (1..n), Unused(s, X),
         NEW qs \in Seq(Query), Lines(qs) \subseteq Lines(s.queries) \cup X
  PROVE  Good(SetQueries(s, qs, Lines(s.queries) \cup X), n, K \cup X)
<1> DEFINE ls == Lines(s.queries) \cup X
           t == SetQueries(s, qs, ls)
<1>1. s \in Nets /\ ~s.twice /\ K \subseteq Held(s)  BY DEF Good
<1>2. ls \in SUBSET Nat  BY <1>1, Waiting
<1>3. /\ t \in Nets /\ SameFlags(s, t) /\ SameGhosts(s, t)
      /\ t.buffer = s.buffer /\ t.queries = qs /\ t.notices = s.notices
      /\ t.gone = s.gone \cup (ls \ Lines(qs))
  BY <1>1, <1>2, QueriesSet
<1> HIDE DEF t
<1>4. K \cup X \subseteq Held(t)  BY <1>1, <1>3 DEF Held, SameGhosts
<1>5. Apart(Range(t.buffer), Lines(t.queries), Range(t.notices), n)
  BY <1>3 DEF Good, Apart, Unused
<1>6. Unheard(Range(t.buffer), t.got, t.auto /\ t.autoQuery, n)
  BY <1>3 DEF Good, SameFlags, SameGhosts
<1>7. ~t.twice  BY <1>1, <1>3 DEF SameGhosts
<1> QED  BY <1>3, <1>4, <1>5, <1>6, <1>7 DEF Good, t

LEMMA NothingUnused == ASSUME NEW s PROVE Unused(s, {})  BY DEF Unused

\* The line l is added to the buffer of the channel.
LEMMA AddBufferGood ==
  ASSUME NEW s, NEW n \in Nat, NEW K, Good(s, n, K), NEW l \in 1..n, Unused(s, {l})
  PROVE  /\ Good(AddBuffer(s, l), n, K \cup {l}) /\ (Fits(s) => Fits(AddBuffer(s, l)))
         /\ SameFlags(s, AddBuffer(s, l)) /\ SameGhosts(s, AddBuffer(s, l))
<1> DEFINE b == AddLine(s.buffer, s.size, l)
           X == {l}
           t == SetBuffer(s, b, Range(s.buffer) \cup X)
<1>1. AddBuffer(s, l) = t  BY DEF AddBuffer
<1>2. s \in Nets /\ s.buffer \in Seq(Nat) /\ s.size \in Nat /\ l \in Nat  BY NetFacts DEF Good
<1>3. /\ b \in Seq(Nat) /\ (Len(s.buffer) <= s.size => Len(b) <= s.size)
      /\ Range(b) \subseteq Range(s.buffer) \cup {l}
  BY <1>2, AddLineFacts
<1>4. Range(s.buffer) \cup X \in SUBSET Nat  BY <1>2, Waiting
<1> HIDE DEF b
<1>5. Good(t, n, K \cup X)  BY <1>3, BufferGood
<1>6. SameFlags(s, t) /\ SameGhosts(s, t) /\ t.buffer = b /\ t.queries = s.queries
  BY <1>2, <1>3, <1>4, BufferSet
<1> HIDE DEF t
<1>7. Fits(s) => Fits(t)  BY <1>3, <1>6 DEF Fits, SameFlags
<1> QED  BY <1>1, <1>5, <1>6, <1>7

\* The buffer of the channel gets shorter.
LEMMA ShortenGood ==
  ASSUME NEW s, NEW n \in Nat, NEW K, Good(s, n, K), NEW b \in Seq(Nat), Range(b) \subseteq Range(s.buffer)
  PROVE  LET t == SetBuffer(s, b, Range(s.buffer))
         IN  /\ Good(t, n, K) /\ SameFlags(s, t) /\ SameGhosts(s, t)
             /\ t.buffer = b /\ t.queries = s.queries /\ t.notices = s.notices
<1> DEFINE t == SetBuffer(s, b, Range(s.buffer))
           X == {}
<1>1. s \in Nets /\ Range(s.buffer) \in SUBSET Nat  BY Waiting DEF Good
<1>2. Range(s.buffer) \cup X = Range(s.buffer) /\ K \cup X = K /\ X \in SUBSET (1..n) /\ Unused(s, X)
  BY NothingUnused
<1> HIDE DEF X
<1>3. Good(SetBuffer(s, b, Range(s.buffer) \cup X), n, K \cup X)  BY <1>2, BufferGood
<1>4. Good(t, n, K)  BY <1>2, <1>3
<1>5. /\ SameFlags(s, t) /\ SameGhosts(s, t)
      /\ t.buffer = b /\ t.queries = s.queries /\ t.notices = s.notices
  BY <1>1, BufferSet
<1> QED  BY <1>4, <1>5

LEMMA ClearBufferGood ==
  ASSUME NEW s, NEW n \in Nat, NEW K, Good(s, n, K)
  PROVE  LET t == ClearBuffer(s)
         IN  /\ Good(t, n, K) /\ SameFlags(s, t) /\ SameGhosts(s, t) /\ t.queries = s.queries
             /\ (Fits(s) => Fits(t))
<1> DEFINE b == <<>>
           t == SetBuffer(s, b, Range(s.buffer))
<1>1. b \in Seq(Nat) /\ Range(b) \subseteq Range(s.buffer) /\ Len(b) = 0  BY EmptyFacts
<1>2. ClearBuffer(s) = t  BY DEF ClearBuffer
<1>3. s \in Nets /\ s.size \in Nat  BY NetFacts DEF Good
<1> HIDE DEF b
<1>4. /\ Good(t, n, K) /\ SameFlags(s, t) /\ SameGhosts(s, t) /\ t.queries = s.queries
      /\ t.buffer = b
  BY <1>1, ShortenGood
<1> HIDE DEF t
<1>5. Fits(s) => Fits(t)  BY <1>1, <1>3, <1>4 DEF Fits, SameFlags
<1> QED  BY <1>2, <1>4, <1>5

LEMMA ClearQueriesGood ==
  ASSUME NEW s, NEW n \in Nat, NEW K, Good(s, n, K)
  PROVE  LET t == ClearQueries(s)
         IN  /\ Good(t, n, K) /\ SameFlags(s, t) /\ SameGhosts(s, t) /\ (Fits(s) => Fits(t))
<1> DEFINE qs == <<>>
           X == {}
           t == SetQueries(s, qs, Lines(s.queries))
<1>1. qs \in Seq(Query) /\ Lines(qs) = {} /\ Len(qs) = 0  BY EmptyWaiting, EmptyFacts
<1>2. /\ Lines(s.queries) \cup X = Lines(s.queries) /\ K \cup X = K
      /\ X \in SUBSET (1..n) /\ Unused(s, X)
  BY NothingUnused
<1>3. ClearQueries(s) = t  BY DEF ClearQueries
<1>4. s \in Nets /\ Lines(s.queries) \in SUBSET Nat  BY Waiting DEF Good
<1> HIDE DEF qs, X
<1>5. Good(SetQueries(s, qs, Lines(s.queries) \cup X), n, K \cup X)  BY <1>1, <1>2, QueriesGood
<1>6. Good(t, n, K)  BY <1>2, <1>5
<1>7. SameFlags(s, t) /\ SameGhosts(s, t) /\ t.buffer = s.buffer /\ t.queries = qs
  <2> DEFINE ls == Lines(s.queries)
  <2>1. qs \in Seq(Query) /\ ls \in SUBSET Nat /\ t = SetQueries(s, qs, ls)  BY <1>1, <1>4
  <2> HIDE DEF ls, t
  <2> QED  BY <1>4, <2>1, QueriesSet
<1> HIDE DEF t
<1>8. Fits(s) => Fits(t)  BY <1>1, <1>7, LimitsAssumption DEF Fits, Few, SameFlags
<1> QED  BY <1>3, <1>6, <1>7, <1>8
-----------------------------------------------------------------------------
(* Queries *)

\* The elements of a sequence of queries that is as long as qs and holds the same, shorter
\* buffers, and perhaps the lines X.
LEMMA QueriesMapped ==
  ASSUME NEW qs \in Seq(Query), NEW X, NEW rs \in [1..Len(qs) -> Query],
         \A i \in 1..Len(qs) : Range(rs[i].buffer) \subseteq Range(qs[i].buffer) \cup X
  PROVE  rs \in Seq(Query) /\ Len(rs) = Len(qs) /\ Lines(rs) \subseteq Lines(qs) \cup X
<1>1. Len(qs) \in Nat  OBVIOUS
<1>2. rs \in Seq(Query) /\ Len(rs) = Len(qs)  BY <1>1
<1>3. ASSUME NEW l \in Lines(rs) PROVE l \in Lines(qs) \cup X
  <2>1. PICK i \in 1..Len(rs) : l \in Range(rs[i].buffer)  BY <1>2, <1>3, LinesOf
  <2>2. i \in 1..Len(qs) /\ (l \in Range(qs[i].buffer) \/ l \in X)  BY <1>2, <2>1
  <2> QED  BY <2>2, LinesOf
<1> QED  BY <1>2, <1>3

LEMMA ShrunkQueries ==
  ASSUME NEW qs \in Seq(Query), NEW n \in Nat
  PROVE  Shrunk(qs, n) \in Seq(Query) /\ Len(Shrunk(qs, n)) <= n /\ Lines(Shrunk(qs, n)) \subseteq Lines(qs)
<1> DEFINE t == Shrunk(qs, n)
<1>1. t \in Seq(Query) /\ Len(t) <= n /\ Range(t) \subseteq Range(qs)  BY ShrunkFacts
<1>2. Lines(t) \subseteq Lines(qs)  BY <1>1 DEF Lines
<1> QED  BY <1>1, <1>2

LEMMA AddQueryFacts ==
  ASSUME NEW qs \in Seq(Query), NEW who \in Peers
  PROVE  /\ AddQuery(qs, who) \in Seq(Query) /\ Lines(AddQuery(qs, who)) \subseteq Lines(qs)
         /\ (Few(qs) => Few(AddQuery(qs, who)))
<1> DEFINE q == [name |-> who, size |-> DefaultSize, buffer |-> <<>>]
           rs == Append(qs, q)
<1>1. q \in Query /\ q.buffer = <<>>  BY EmptyFacts, SizesAssumption DEF Query
<1> HIDE DEF q
<1>2. rs \in Seq(Query) /\ Range(rs) = Range(qs) \cup {q}  BY <1>1, AppendFacts
<1>3. Lines(rs) \subseteq Lines(qs)
  <2> SUFFICES ASSUME NEW l \in Lines(rs) PROVE l \in Lines(qs)  OBVIOUS
  <2>1. PICK r \in Range(rs) : l \in Range(r.buffer)  BY DEF Lines
  <2>2. Range(<<>>) = {}  BY EmptyWaiting
  <2>3. r \in Range(qs)  BY <1>1, <1>2, <2>1, <2>2
  <2> QED  BY <2>1, <2>3 DEF Lines
<1> HIDE DEF rs
<1>4. /\ Shrunk(rs, MaxQueryBuffers) \in Seq(Query) /\ Len(Shrunk(rs, MaxQueryBuffers)) <= MaxQueryBuffers
      /\ Lines(Shrunk(rs, MaxQueryBuffers)) \subseteq Lines(rs)
  BY <1>2, LimitsAssumption, ShrunkQueries
<1>5. AddQuery(qs, who) = qs \/ (AddQuery(qs, who) = rs /\ Few(rs)) \/ AddQuery(qs, who) = Shrunk(rs, MaxQueryBuffers)
  BY DEF AddQuery, rs, q
<1>6. Few(Shrunk(rs, MaxQueryBuffers))  BY <1>4 DEF Few
<1> QED  BY <1>2, <1>3, <1>4, <1>5, <1>6

\* The line l comes into the buffer of a query.
LEMMA QueryLineGood ==
  ASSUME NEW s, NEW n \in Nat, NEW K, Good(s, n, K), NEW l \in 1..n, Unused(s, {l}), NEW who \in Peers
  PROVE  /\ Good(QueryLine(s, who, l), n, K \cup {l}) /\ (Fits(s) => Fits(QueryLine(s, who, l)))
         /\ SameFlags(s, QueryLine(s, who, l)) /\ SameGhosts(s, QueryLine(s, who, l))
         /\ QueryLine(s, who, l).buffer = s.buffer
<1> DEFINE qs == AddQuery(s.queries, who)
           X == {l}
           rs == [i \in DOMAIN qs |-> IF qs[i].name # who THEN qs[i]
                                      ELSE [qs[i] EXCEPT !.buffer = AddLine(@, qs[i].size, l)]]
           t == SetQueries(s, rs, Lines(s.queries) \cup X)
<1>1. QueryLine(s, who, l) = t  BY DEF QueryLine
<1>2. s \in Nets /\ s.queries \in Seq(Query) /\ l \in Nat  BY NetFacts DEF Good
<1>3. /\ qs \in Seq(Query) /\ Lines(qs) \subseteq Lines(s.queries)
      /\ (Few(s.queries) => Few(qs))
  BY <1>2, AddQueryFacts
<1> HIDE DEF qs
<1>4. \A i \in 1..Len(qs) : rs[i] \in Query /\ Range(rs[i].buffer) \subseteq Range(qs[i].buffer) \cup X
  <2> SUFFICES ASSUME NEW i \in 1..Len(qs)
               PROVE  rs[i] \in Query /\ Range(rs[i].buffer) \subseteq Range(qs[i].buffer) \cup X
    OBVIOUS
  <2> DEFINE q == qs[i]
             b == AddLine(q.buffer, q.size, l)
  <2>1. q \in Query  BY <1>3
  <2>2. rs[i] = q \/ rs[i] = [q EXCEPT !.buffer = b]  BY <1>3
  <2> HIDE DEF q, rs, X
  <2>3. q.buffer \in Seq(Nat) /\ q.size \in Nat  BY <2>1 DEF Query
  <2>4. b \in Seq(Nat) /\ Range(b) \subseteq Range(q.buffer) \cup {l}  BY <1>2, <2>3, AddLineFacts
  <2> HIDE DEF b
  <2>5. [q EXCEPT !.buffer = b] \in Query /\ [q EXCEPT !.buffer = b].buffer = b
    BY <2>1, <2>4 DEF Query
  <2>6. rs[i] \in Query /\ Range(rs[i].buffer) \subseteq Range(q.buffer) \cup {l}
    BY <2>1, <2>2, <2>4, <2>5
  <2> QED  BY <2>6 DEF q, X
<1>5. rs \in [1..Len(qs) -> Query]
  <2>1. DOMAIN qs = 1..Len(qs)  BY <1>3
  <2>2. rs = [i \in 1..Len(qs) |-> rs[i]]  BY <2>1
  <2>3. \A i \in 1..Len(qs) : rs[i] \in Query  BY <1>4
  <2> HIDE DEF rs
  <2> QED  BY <2>2, <2>3
<1> HIDE DEF rs, X
<1>6. rs \in Seq(Query) /\ Len(rs) = Len(qs) /\ Lines(rs) \subseteq Lines(qs) \cup X
  BY <1>3, <1>4, <1>5, QueriesMapped
<1>7. X = {l} /\ X \in SUBSET (1..n)  BY DEF X
<1>8. Good(t, n, K \cup X)  BY <1>3, <1>6, <1>7, QueriesGood
<1>9. /\ SameFlags(s, t) /\ SameGhosts(s, t) /\ t.buffer = s.buffer /\ t.queries = rs
  <2> DEFINE ls == Lines(s.queries) \cup X
  <2>1. ls \in SUBSET Nat /\ rs \in Seq(Query)  BY <1>2, <1>6, <1>7, Waiting
  <2>2. t = SetQueries(s, rs, ls)  OBVIOUS
  <2> HIDE DEF ls, t
  <2> QED  BY <1>2, <2>1, <2>2, QueriesSet
<1> HIDE DEF t
<1>10. Fits(s) => Fits(t)  BY <1>3, <1>6, <1>9 DEF Fits, Few, SameFlags
<1> QED  BY <1>1, <1>7, <1>8, <1>9, <1>10
-----------------------------------------------------------------------------
(* Lines sent to clients *)

LEMMA PutUserFacts ==
  ASSUME NEW s \in Nets, NEW cs \in SUBSET Clients, NEW ls \in SUBSET Nat, ~s.twice, ~Again(s, cs, ls)
  PROVE  LET t == PutUser(s, cs, ls) IN
         /\ t \in Nets /\ SameFlags(s, t) /\ SameBuffers(s, t)
         /\ t.gone = s.gone /\ t.unheard = s.unheard /\ ~t.twice
         /\ t.seen = Seen(s, cs, ls) /\ Got(s, t, cs, ls)
<1> DEFINE u == Told(s, cs, ls)
           t == PutUser(s, cs, ls)
<1>1. /\ u \in Nets /\ SameFlags(s, u) /\ SameBuffers(s, u)
      /\ u.gone = s.gone /\ u.unheard = s.unheard /\ u.twice = s.twice
      /\ u.seen = Seen(s, cs, ls) /\ Got(s, u, cs, ls)
  BY ToldFacts
<1>2. t = [u EXCEPT !.twice = u.twice \/ Again(s, cs, ls)]  BY DEF PutUser
<1> HIDE DEF u, t
<1>3. t = [u EXCEPT !.twice = FALSE]
  <2>1. (u.twice \/ Again(s, cs, ls)) = FALSE  BY <1>1
  <2> QED  BY <1>2, <2>1
<1>4. /\ t \in Nets /\ SameFlags(u, t) /\ SameBuffers(u, t) /\ t.gone = u.gone /\ t.unheard = u.unheard
      /\ ~t.twice /\ t.seen = u.seen /\ t.got = u.got
  BY <1>1, <1>3 DEF Nets, SameFlags, SameBuffers
<1>5. SameFlags(s, t) /\ SameBuffers(s, t)  BY <1>1, <1>4 DEF SameFlags, SameBuffers
<1>6. Got(s, t, cs, ls)  BY <1>1, <1>4 DEF Got
<1> QED  BY <1>1, <1>4, <1>5, <1>6 DEF t

\* Clients are sent lines they were not sent before and that do not wait in the buffer of
\* the channel, or are all away.
LEMMA PutUserGood ==
  ASSUME NEW s, NEW n \in Nat, NEW K, Good(s, n, K), NEW cs \in SUBSET Clients, NEW ls \in SUBSET (1..n),
         s.auto /\ s.autoQuery =>
           /\ \A c \in cs : s.got[c] \cap ls = {}
           /\ cs \ away = {} \/ ls \cap Range(s.buffer) = {}
  PROVE  LET t == PutUser(s, cs, ls) IN
         /\ Good(t, n, K) /\ (cs # {} => Good(t, n, K \cup ls))
         /\ SameFlags(s, t) /\ SameBuffers(s, t) /\ Got(s, t, cs, ls)
<1> DEFINE t == PutUser(s, cs, ls)
<1>1. s \in Nets /\ ~s.twice /\ K \subseteq Held(s) /\ ls \in SUBSET Nat  BY DEF Good
<1>2. ~Again(s, cs, ls)  BY DEF Again
<1>3. /\ t \in Nets /\ SameFlags(s, t) /\ SameBuffers(s, t)
      /\ t.gone = s.gone /\ t.unheard = s.unheard /\ ~t.twice
      /\ t.seen = Seen(s, cs, ls) /\ Got(s, t, cs, ls)
  BY <1>1, <1>2, PutUserFacts
<1> HIDE DEF t
<1>4. K \subseteq Held(t) /\ (cs # {} => ls \subseteq Held(t))
  BY <1>1, <1>3 DEF Held, Seen, SameBuffers
<1>5. Apart(Range(t.buffer), Lines(t.queries), Range(t.notices), n)  BY <1>3 DEF Good, SameBuffers
<1>6. Unheard(Range(t.buffer), t.got, t.auto /\ t.autoQuery, n)
  <2>1. t.buffer = s.buffer /\ t.auto = s.auto /\ t.autoQuery = s.autoQuery
    BY <1>3 DEF SameBuffers, SameFlags
  <2>2. Unheard(Range(s.buffer), s.got, s.auto /\ s.autoQuery, n)  BY DEF Good
  <2> SUFFICES ASSUME NEW c \in Clients
               PROVE  /\ t.got[c] \subseteq 1..n
                      /\ s.auto /\ s.autoQuery => t.got[c] \cap Range(s.buffer) = {}
    BY <2>1 DEF Unheard
  <2>3. /\ s.got[c] \subseteq 1..n /\ (s.auto /\ s.autoQuery => s.got[c] \cap Range(s.buffer) = {})
        /\ t.got[c] = IF c \in cs \ away THEN s.got[c] \cup ls ELSE s.got[c]
    BY <1>3, <2>2 DEF Unheard, Got
  <2> QED  BY <2>3
<1> QED  BY <1>3, <1>4, <1>5, <1>6 DEF Good, t

\* CChan::SendBuffer, and the attaching that calls it.
LEMMA SendBufferGood ==
  ASSUME NEW s, NEW n \in Nat, NEW K, Good(s, n, K), NEW cs \in SUBSET Clients
  PROVE  LET t == SendBuffer(s, cs) IN
         /\ Good(t, n, K) /\ (Fits(s) => Fits(t)) /\ SameFlags(s, t)
         /\ t.queries = s.queries /\ t.notices = s.notices
         /\ \A c \in Clients : t.got[c] \subseteq s.got[c] \cup Range(s.buffer)
<1> DEFINE B == Range(s.buffer)
           u == PutUser(s, cs, B)
           un == IF cs = {} THEN u.unheard \cup B ELSE u.unheard
           t == [u EXCEPT !.buffer = <<>>, !.unheard = un]
<1>1. /\ s \in Nets /\ ~s.twice /\ K \subseteq Held(s) /\ B \in SUBSET Nat /\ B \in SUBSET (1..n)
      /\ Apart(B, Lines(s.queries), Range(s.notices), n)
      /\ Unheard(B, s.got, s.auto /\ s.autoQuery, n)
  BY Waiting DEF Good, Apart
<1>2. ~Again(s, cs, B)  BY <1>1 DEF Again, Unheard
<1>3. SendBuffer(s, cs) = IF ~s.auto THEN u ELSE t
  <2>1. u.buffer = s.buffer /\ u.auto = s.auto
    <3> HIDE DEF B
    <3> QED  BY <1>1, <1>2, PutUserFacts DEF SameBuffers, SameFlags
  <2> QED  BY <2>1 DEF SendBuffer
<1> HIDE DEF B
<1>4. /\ u \in Nets /\ SameFlags(s, u) /\ SameBuffers(s, u)
      /\ u.gone = s.gone /\ u.unheard = s.unheard /\ ~u.twice
      /\ u.seen = Seen(s, cs, B) /\ Got(s, u, cs, B)
  BY <1>1, <1>2, PutUserFacts
<1>5. \A c \in Clients : u.got[c] \subseteq 1..n /\ u.got[c] \subseteq s.got[c] \cup B
  BY <1>1, <1>4 DEF Got, Unheard
<1>6. CASE ~s.auto
  <2>1. Good(u, n, K)  BY <1>1, <1>6, PutUserGood
  <2>2. Fits(s) => Fits(u)  BY <1>4 DEF Fits, SameFlags, SameBuffers
  <2>3. SendBuffer(s, cs) = u  BY <1>3, <1>6
  <2> QED  BY <1>4, <1>5, <2>1, <2>2, <2>3 DEF SameBuffers, B
<1>7. CASE s.auto
  <2>1. SendBuffer(s, cs) = t  BY <1>3, <1>7
  <2>2. u.unheard \cup B \in SUBSET Nat /\ un \in SUBSET Nat  BY <1>1, <1>4, NetFacts
  <2>3. un = IF cs = {} THEN s.unheard \cup B ELSE s.unheard  BY <1>4
  <2> HIDE DEF u, un
  <2>4. /\ t \in Nets /\ SameFlags(u, t) /\ t.buffer = <<>> /\ t.queries = u.queries
        /\ t.notices = u.notices /\ t.gone = u.gone /\ t.unheard = un /\ t.twice = u.twice
        /\ t.seen = u.seen /\ t.got = u.got
    BY <1>4, <2>2, EmptyWaiting DEF Nets, SameFlags
  <2> HIDE DEF t
  <2>5. SameFlags(s, t) /\ t.queries = s.queries /\ t.notices = s.notices
    BY <1>4, <2>4 DEF SameFlags, SameBuffers
  <2>6. Range(t.buffer) = {}  BY <2>4, EmptyWaiting
  <2>7. K \subseteq Held(t)
    <3>1. /\ t.seen = Seen(s, cs, B) /\ t.gone = s.gone
          /\ t.unheard = IF cs = {} THEN s.unheard \cup B ELSE s.unheard
      BY <1>4, <2>3, <2>4
    <3> QED  BY <1>1, <2>5, <2>6, <3>1 DEF Held, Seen, B
  <2>8. Apart(Range(t.buffer), Lines(t.queries), Range(t.notices), n)  BY <1>1, <2>5, <2>6 DEF Apart
  <2>9. Unheard(Range(t.buffer), t.got, t.auto /\ t.autoQuery, n)  BY <1>5, <2>4, <2>6 DEF Unheard
  <2>10. ~t.twice  BY <1>4, <2>4
  <2>11. Good(t, n, K)  BY <2>4, <2>7, <2>8, <2>9, <2>10 DEF Good
  <2>12. Fits(s) => Fits(t)
    <3>1. Len(t.buffer) = 0 /\ s.size \in Nat  BY <1>1, <2>4, EmptyFacts, NetFacts
    <3> QED  BY <2>5, <3>1 DEF Fits, SameFlags
  <2>13. \A c \in Clients : t.got[c] \subseteq s.got[c] \cup B  BY <1>5, <2>4
  <2> QED  BY <2>1, <2>5, <2>11, <2>12, <2>13 DEF B
<1>8. s.auto \in BOOLEAN  BY <1>1, NetFacts
<1> QED  BY <1>6, <1>7, <1>8

LEMMA DetachedGood ==
  ASSUME NEW s, NEW n \in Nat, NEW K, Good(s, n, K), NEW b \in BOOLEAN
  PROVE  LET t == [s EXCEPT !.detached = b] IN
         /\ Good(t, n, K) /\ (Fits(s) => Fits(t)) /\ SameBuffers(s, t) /\ SameGhosts(s, t)
         /\ t.auto = s.auto /\ t.autoQuery = s.autoQuery
<1> DEFINE t == [s EXCEPT !.detached = b]
<1>1. s \in Nets  BY DEF Good
<1>2. /\ t \in Nets /\ SameBuffers(s, t) /\ SameGhosts(s, t) /\ t.gone = s.gone
      /\ t.auto = s.auto /\ t.autoQuery = s.autoQuery /\ t.size = s.size /\ t.flood = s.flood
  BY <1>1 DEF Nets, SameBuffers, SameGhosts
<1> HIDE DEF t
<1>3. Held(t) = Held(s)  BY <1>2 DEF Held, SameBuffers, SameGhosts
<1>4. Good(t, n, K)
  <2>1. /\ t.buffer = s.buffer /\ t.queries = s.queries /\ t.notices = s.notices
        /\ t.got = s.got /\ t.twice = s.twice
    BY <1>2 DEF SameBuffers, SameGhosts
  <2> QED  BY <1>2, <1>3, <2>1 DEF Good
<1>5. Fits(s) => Fits(t)  BY <1>2 DEF Fits, SameBuffers
<1> QED  BY <1>2, <1>4, <1>5 DEF t

LEMMA AttachUserGood ==
  ASSUME NEW s, NEW n \in Nat, NEW K, Good(s, n, K), NEW cs \in SUBSET Clients
  PROVE  LET t == AttachUser(s, cs) IN
         /\ Good(t, n, K) /\ (Fits(s) => Fits(t)) /\ t.auto = s.auto /\ t.autoQuery = s.autoQuery
         /\ t.queries = s.queries /\ t.notices = s.notices
         /\ \A c \in Clients : t.got[c] \subseteq s.got[c] \cup Range(s.buffer)
<1> DEFINE b == FALSE
           u == [s EXCEPT !.detached = b]
           t == SendBuffer(u, cs)
<1>1. b \in BOOLEAN /\ AttachUser(s, cs) = t  BY DEF AttachUser
<1> HIDE DEF b
<1>2. /\ Good(u, n, K) /\ (Fits(s) => Fits(u)) /\ SameBuffers(s, u) /\ SameGhosts(s, u)
      /\ u.auto = s.auto /\ u.autoQuery = s.autoQuery
  BY <1>1, DetachedGood
<1> HIDE DEF u
<1>3. /\ Good(t, n, K) /\ (Fits(u) => Fits(t)) /\ SameFlags(u, t)
      /\ t.queries = u.queries /\ t.notices = u.notices
      /\ \A c \in Clients : t.got[c] \subseteq u.got[c] \cup Range(u.buffer)
  BY <1>2, SendBufferGood
<1> HIDE DEF t
<1>4. u.queries = s.queries /\ u.notices = s.notices /\ u.buffer = s.buffer /\ u.got = s.got
  BY <1>2 DEF SameBuffers, SameGhosts
<1>5. t.auto = s.auto /\ t.autoQuery = s.autoQuery  BY <1>2, <1>3 DEF SameFlags
<1>6. \A c \in Clients : t.got[c] \subseteq s.got[c] \cup Range(s.buffer)  BY <1>3, <1>4
<1> QED  BY <1>1, <1>2, <1>3, <1>4, <1>5, <1>6

LEMMA DetachUserGood ==
  ASSUME NEW s, NEW n \in Nat, NEW K, Good(s, n, K)
  PROVE  Good(DetachUser(s), n, K) /\ (Fits(s) => Fits(DetachUser(s)))
<1> DEFINE b == TRUE
           t == [s EXCEPT !.detached = b]
<1>1. b \in BOOLEAN /\ DetachUser(s) = t  BY DEF DetachUser
<1> HIDE DEF b
<1>2. Good(t, n, K) /\ (Fits(s) => Fits(t))  BY <1>1, DetachedGood
<1> QED  BY <1>1, <1>2
-----------------------------------------------------------------------------
(* What a client is sent that attaches *)

\* The queries' lines go to c, which has none of them.
LEMMA SendQueriesGood ==
  ASSUME NEW s, NEW n \in Nat, NEW K, Good(s, n, K), NEW c \in Clients,
         s.got[c] \cap Lines(s.queries) = {}
  PROVE  LET t == SendQueries(s, c) IN
         /\ Good(t, n, K) /\ (Fits(s) => Fits(t)) /\ t.notices = s.notices
         /\ t.got[c] \subseteq s.got[c] \cup Lines(s.queries)
<1> DEFINE Q == Lines(s.queries)
           cs == {c}
           u == PutUser(s, cs, Q)
           t == [u EXCEPT !.queries = <<>>]
<1>1. /\ s \in Nets /\ Q \in SUBSET (1..n) /\ Apart(Range(s.buffer), Q, Range(s.notices), n)
      /\ cs \in SUBSET Clients /\ cs # {} /\ Q \cap Range(s.buffer) = {}
      /\ \A d \in cs : s.got[d] \cap Q = {}
  BY DEF Good, Apart
<1>2. SendQueries(s, c) = IF s.autoQuery THEN t ELSE u  BY DEF SendQueries
<1> HIDE DEF Q, cs
<1>3. /\ Good(u, n, K) /\ Good(u, n, K \cup Q) /\ SameFlags(s, u) /\ SameBuffers(s, u) /\ Got(s, u, cs, Q)
  BY <1>1, PutUserGood
<1> HIDE DEF u
<1>4. Fits(s) => Fits(u)  BY <1>3 DEF Fits, SameFlags, SameBuffers
<1>5. u.got[c] \subseteq s.got[c] \cup Q /\ u.notices = s.notices  BY <1>3 DEF Got, SameBuffers
<1>6. CASE ~s.autoQuery  BY <1>2, <1>3, <1>4, <1>5, <1>6 DEF Q
<1>7. CASE s.autoQuery
  <2>1. u \in Nets /\ u.seen \in SUBSET Nat  BY <1>3, NetFacts DEF Good
  <2>2. /\ t \in Nets /\ SameGhosts(u, t) /\ SameFlags(u, t) /\ t.buffer = u.buffer /\ t.queries = <<>>
        /\ t.notices = u.notices /\ t.gone = u.gone
    BY <2>1, EmptyWaiting DEF Nets, SameGhosts, SameFlags
  <2> HIDE DEF t
  <2>3. Lines(t.queries) = {} /\ Len(t.queries) = 0  BY <2>2, EmptyWaiting, EmptyFacts
  <2>4. K \subseteq Held(t)
    <3>1. u.seen = Seen(s, cs, Q)
      <4>1. s \in Nets /\ cs \in SUBSET Clients /\ Q \in SUBSET Nat /\ ~s.twice /\ ~Again(s, cs, Q)
        BY <1>1 DEF Again, Good
      <4> QED  BY <4>1, PutUserFacts DEF u
    <3>2. Q \subseteq t.seen  BY <1>1, <2>2, <3>1 DEF Seen, SameGhosts
    <3>3. Lines(u.queries) = Q  BY <1>3 DEF SameBuffers, Q
    <3> QED  BY <1>3, <2>2, <3>2, <3>3 DEF Good, Held, SameGhosts
  <2>5. Apart(Range(t.buffer), Lines(t.queries), Range(t.notices), n)
    BY <1>3, <2>2, <2>3 DEF Good, Apart
  <2>6. Unheard(Range(t.buffer), t.got, t.auto /\ t.autoQuery, n)
    BY <1>3, <2>2 DEF Good, SameGhosts, SameFlags
  <2>7. Good(t, n, K)  BY <1>3, <2>2, <2>4, <2>5, <2>6 DEF Good, SameGhosts
  <2>8. Fits(u) => Fits(t)  BY <2>2, <2>3, LimitsAssumption DEF Fits, Few, SameFlags
  <2>9. t.got[c] \subseteq s.got[c] \cup Q  BY <1>5, <2>2 DEF SameGhosts
  <2> QED  BY <1>2, <1>4, <1>5, <1>7, <2>2, <2>7, <2>8, <2>9 DEF Q
<1>8. s.autoQuery \in BOOLEAN  BY <1>1, NetFacts
<1> QED  BY <1>6, <1>7, <1>8

\* The notices go to c, which has none of them.
LEMMA SendNoticesGood ==
  ASSUME NEW s, NEW n \in Nat, NEW K, Good(s, n, K), NEW c \in Clients,
         s.got[c] \cap Range(s.notices) = {}
  PROVE  Good(SendNotices(s, c), n, K) /\ (Fits(s) => Fits(SendNotices(s, c)))
<1> DEFINE O == Range(s.notices)
           cs == {c}
           u == PutUser(s, cs, O)
           t == [u EXCEPT !.notices = <<>>]
<1>1. /\ s \in Nets /\ O \in SUBSET (1..n) /\ Apart(Range(s.buffer), Lines(s.queries), O, n)
      /\ cs \in SUBSET Clients /\ cs # {} /\ O \cap Range(s.buffer) = {}
      /\ \A d \in cs : s.got[d] \cap O = {}
  BY DEF Good, Apart
<1>2. SendNotices(s, c) = t  BY DEF SendNotices
<1> HIDE DEF O, cs
<1>3. /\ Good(u, n, K) /\ SameFlags(s, u) /\ SameBuffers(s, u)
  BY <1>1, PutUserGood
<1>4. u.seen = Seen(s, cs, O)
  <2>1. s \in Nets /\ cs \in SUBSET Clients /\ O \in SUBSET Nat /\ ~s.twice /\ ~Again(s, cs, O)
    BY <1>1 DEF Again, Good
  <2> QED  BY <2>1, PutUserFacts
<1> HIDE DEF u
<1>5. u \in Nets  BY <1>3 DEF Good
<1>6. /\ t \in Nets /\ SameGhosts(u, t) /\ SameFlags(u, t) /\ t.buffer = u.buffer /\ t.notices = <<>>
      /\ t.queries = u.queries /\ t.gone = u.gone
  BY <1>5, EmptyWaiting DEF Nets, SameGhosts, SameFlags
<1> HIDE DEF t
<1>7. Range(t.notices) = {}  BY <1>6, EmptyWaiting
<1>8. K \subseteq Held(t)
  <2>1. O \subseteq t.seen  BY <1>1, <1>4, <1>6 DEF Seen, SameGhosts
  <2>2. Range(u.notices) = O  BY <1>3 DEF SameBuffers, O
  <2> QED  BY <1>3, <1>6, <2>1, <2>2 DEF Good, Held, SameGhosts
<1>9. Apart(Range(t.buffer), Lines(t.queries), Range(t.notices), n)
  BY <1>3, <1>6, <1>7 DEF Good, Apart
<1>10. Unheard(Range(t.buffer), t.got, t.auto /\ t.autoQuery, n)
  BY <1>3, <1>6 DEF Good, SameGhosts, SameFlags
<1>11. Good(t, n, K)  BY <1>3, <1>6, <1>8, <1>9, <1>10 DEF Good, SameGhosts
<1>12. Fits(s) => Fits(t)  BY <1>3, <1>6 DEF Fits, SameFlags, SameBuffers
<1> QED  BY <1>2, <1>11, <1>12

\* CIRCNetwork::ClientConnected: a new client was sent nothing yet.
LEMMA ReplayGood ==
  ASSUME NEW s, NEW n \in Nat, NEW K, Good(s, n, K), NEW c \in Clients, s.got[c] = {}
  PROVE  Good(Replay(s, c), n, K) /\ (Fits(s) => Fits(Replay(s, c)))
<1> DEFINE cs == {c}
           u == IF s.detached THEN s ELSE AttachUser(s, cs)
           v == SendQueries(u, c)
           t == SendNotices(v, c)
<1>1. Replay(s, c) = t  BY DEF Replay
<1>2. /\ Good(u, n, K) /\ (Fits(s) => Fits(u)) /\ u.queries = s.queries /\ u.notices = s.notices
      /\ u.got[c] \subseteq Range(s.buffer)
  <2>1. CASE s.detached  BY <2>1
  <2>2. CASE ~s.detached
    <3>1. u = AttachUser(s, cs) /\ cs \in SUBSET Clients  BY <2>2
    <3> HIDE DEF cs, u
    <3> QED  BY <3>1, AttachUserGood
  <2> QED  BY <2>1, <2>2
<1>3. Apart(Range(s.buffer), Lines(s.queries), Range(s.notices), n)  BY DEF Good
<1> HIDE DEF u
<1>4. u.got[c] \cap Lines(u.queries) = {}  BY <1>2, <1>3 DEF Apart
<1>5. /\ Good(v, n, K) /\ (Fits(u) => Fits(v)) /\ v.notices = u.notices
      /\ v.got[c] \subseteq u.got[c] \cup Lines(u.queries)
  BY <1>2, <1>4, SendQueriesGood
<1> HIDE DEF v
<1>6. v.got[c] \cap Range(v.notices) = {}  BY <1>2, <1>3, <1>5 DEF Apart
<1>7. Good(t, n, K) /\ (Fits(v) => Fits(t))  BY <1>5, <1>6, SendNoticesGood
<1> QED  BY <1>1, <1>2, <1>5, <1>7
-----------------------------------------------------------------------------
(* Other handlers and commands *)

\* The line l comes into the buffer of notices.
LEMMA AddNoticeGood ==
  ASSUME NEW s, NEW n \in Nat, NEW K, Good(s, n, K), NEW l \in 1..n, Unused(s, {l})
  PROVE  LET t == AddNotice(s, l) IN
         /\ Good(t, n, K \cup {l}) /\ (Fits(s) => Fits(t)) /\ SameGhosts(s, t) /\ t.buffer = s.buffer
<1> DEFINE b == AddLine(s.notices, NoticeLines, l)
           ls == (Range(s.notices) \cup {l}) \ Range(b)
           t == Dropped([s EXCEPT !.notices = b], ls)
<1>1. s \in Nets /\ s.notices \in Seq(Nat) /\ l \in Nat  BY NetFacts DEF Good
<1>2. b \in Seq(Nat) /\ Range(b) \subseteq Range(s.notices) \cup {l}
  BY <1>1, LimitsAssumption, AddLineFacts
<1>3. AddNotice(s, l) = t  BY DEF AddNotice
<1> HIDE DEF b
<1>4. Range(s.notices) \in SUBSET Nat  BY <1>1, Waiting
<1>5. ls \in SUBSET Nat /\ Range(s.notices) \cup {l} \subseteq ls \cup Range(b)  BY <1>1, <1>4
<1> HIDE DEF ls
<1>6. /\ t \in Nets /\ SameFlags(s, t) /\ SameGhosts(s, t) /\ t.gone = s.gone \cup ls
      /\ t.buffer = s.buffer /\ t.queries = s.queries /\ t.notices = b
  BY <1>1, <1>2, <1>5 DEF Dropped, Nets, SameFlags, SameGhosts
<1> HIDE DEF t
<1>7. K \cup {l} \subseteq Held(t)  BY <1>5, <1>6 DEF Good, Held, SameGhosts
<1>8. Apart(Range(t.buffer), Lines(t.queries), Range(t.notices), n)
  BY <1>2, <1>6 DEF Good, Apart, Unused
<1>9. Unheard(Range(t.buffer), t.got, t.auto /\ t.autoQuery, n)
  BY <1>6 DEF Good, SameFlags, SameGhosts
<1>10. Good(t, n, K \cup {l})  BY <1>6, <1>7, <1>8, <1>9 DEF Good, SameGhosts
<1>11. Fits(s) => Fits(t)  BY <1>6 DEF Fits, SameFlags
<1> QED  BY <1>3, <1>6, <1>10, <1>11

\* A line is dropped.
LEMMA DroppedGood ==
  ASSUME NEW s, NEW n \in Nat, NEW K, Good(s, n, K), NEW l \in 1..n
  PROVE  LET t == Dropped(s, {l}) IN Good(t, n, K \cup {l}) /\ (Fits(s) => Fits(t))
<1> DEFINE t == Dropped(s, {l})
<1>1. s \in Nets /\ l \in Nat  BY DEF Good
<1>2. t \in Nets /\ SameFlags(s, t) /\ SameGhosts(s, t) /\ SameBuffers(s, t) /\ t.gone = s.gone \cup {l}
  BY <1>1 DEF Dropped, Nets, SameFlags, SameGhosts, SameBuffers
<1> HIDE DEF t
<1>3. t.buffer = s.buffer /\ t.queries = s.queries /\ t.notices = s.notices  BY <1>2 DEF SameBuffers
<1>4. K \cup {l} \subseteq Held(t)  BY <1>2, <1>3 DEF Good, Held, SameGhosts
<1>5. Unheard(Range(t.buffer), t.got, t.auto /\ t.autoQuery, n)
  BY <1>2, <1>3 DEF Good, SameFlags, SameGhosts
<1>6. Good(t, n, K \cup {l})  BY <1>2, <1>3, <1>4, <1>5 DEF Good, SameGhosts
<1>7. Fits(s) => Fits(t)  BY <1>2, <1>3 DEF Fits, SameFlags
<1> QED  BY <1>6, <1>7 DEF t

\* Some clients leave, or what they were sent does not count any more.
LEMMA GotGood ==
  ASSUME NEW s, NEW n \in Nat, NEW K, Good(s, n, K), NEW g \in [Clients -> SUBSET Nat],
         \A c \in Clients : g[c] \subseteq s.got[c]
  PROVE  LET t == [s EXCEPT !.got = g] IN
         Good(t, n, K) /\ (Fits(s) => Fits(t)) /\ t.got = g /\ SameFlags(s, t) /\ SameBuffers(s, t)
<1> DEFINE t == [s EXCEPT !.got = g]
<1>1. s \in Nets  BY DEF Good
<1>2. /\ t \in Nets /\ SameFlags(s, t) /\ SameBuffers(s, t) /\ t.gone = s.gone /\ t.got = g
      /\ t.seen = s.seen /\ t.unheard = s.unheard /\ t.twice = s.twice
  BY <1>1 DEF Nets, SameFlags, SameBuffers
<1> HIDE DEF t
<1>3. t.buffer = s.buffer /\ t.queries = s.queries /\ t.notices = s.notices  BY <1>2 DEF SameBuffers
<1>4. K \subseteq Held(t)  BY <1>2, <1>3 DEF Good, Held
<1>5. Unheard(Range(t.buffer), t.got, t.auto /\ t.autoQuery, n)
  <2>1. Unheard(Range(s.buffer), s.got, s.auto /\ s.autoQuery, n)  BY DEF Good
  <2>2. Unheard(Range(s.buffer), g, s.auto /\ s.autoQuery, n)  BY <2>1 DEF Unheard
  <2> QED  BY <1>2, <1>3, <2>2 DEF SameFlags
<1>6. Good(t, n, K)  BY <1>2, <1>3, <1>4, <1>5 DEF Good
<1>7. Fits(s) => Fits(t)  BY <1>2, <1>3 DEF Fits, SameFlags
<1> QED  BY <1>2, <1>6, <1>7 DEF t

\* A setting of autoclearing changes, and what was sent before does not count.
LEMMA AutoGood ==
  ASSUME NEW s, NEW n \in Nat, NEW K, Good(s, n, K), NEW a \in BOOLEAN, NEW q \in BOOLEAN
  PROVE  LET t == [s EXCEPT !.auto = a, !.autoQuery = q, !.got = [c \in Clients |-> {}]] IN
         Good(t, n, K) /\ (Fits(s) => Fits(t))
<1> DEFINE g == [c \in Clients |-> {}]
           t == [s EXCEPT !.auto = a, !.autoQuery = q, !.got = g]
<1>1. s \in Nets /\ g \in [Clients -> SUBSET Nat] /\ \A c \in Clients : g[c] = {}  BY DEF Good
<1> HIDE DEF g
<1>2. /\ t \in Nets /\ SameBuffers(s, t) /\ t.gone = s.gone /\ t.got = g
      /\ t.seen = s.seen /\ t.unheard = s.unheard /\ t.twice = s.twice
      /\ t.size = s.size /\ t.flood = s.flood
  BY <1>1 DEF Nets, SameBuffers
<1> HIDE DEF t
<1>3. t.buffer = s.buffer /\ t.queries = s.queries /\ t.notices = s.notices  BY <1>2 DEF SameBuffers
<1>4. K \subseteq Held(t)  BY <1>2, <1>3 DEF Good, Held
<1>5. Unheard(Range(t.buffer), t.got, t.auto /\ t.autoQuery, n)  BY <1>1, <1>2 DEF Unheard
<1>6. Good(t, n, K)  BY <1>2, <1>3, <1>4, <1>5 DEF Good
<1>7. Fits(s) => Fits(t)  BY <1>2, <1>3 DEF Fits
<1> QED  BY <1>6, <1>7 DEF t, g

LEMMA SetAutoClearGood ==
  ASSUME NEW s, NEW n \in Nat, NEW K, Good(s, n, K), NEW b \in BOOLEAN
  PROVE  Good(SetAutoClear(s, b), n, K) /\ (Fits(s) => Fits(SetAutoClear(s, b)))
<1> DEFINE q == s.autoQuery
           t == [s EXCEPT !.auto = b, !.autoQuery = q, !.got = [c \in Clients |-> {}]]
<1>1. s \in Nets /\ q \in BOOLEAN  BY NetFacts DEF Good
<1>2. t = [s EXCEPT !.auto = b, !.got = [c \in Clients |-> {}]]  BY <1>1 DEF Nets
<1>3. SetAutoClear(s, b) \in {t, ClearBuffer(t)}
  <2>1. t = [s EXCEPT !.auto = b, !.got = [c \in Clients |-> {}]]  BY <1>2
  <2> HIDE DEF t
  <2> QED  BY <2>1 DEF SetAutoClear
<1> HIDE DEF q
<1>4. Good(t, n, K) /\ (Fits(s) => Fits(t))  BY <1>1, AutoGood
<1> HIDE DEF t
<1>5. Good(ClearBuffer(t), n, K) /\ (Fits(t) => Fits(ClearBuffer(t)))  BY <1>4, ClearBufferGood
<1> QED  BY <1>3, <1>4, <1>5

LEMMA SetAutoClearQueryGood ==
  ASSUME NEW s, NEW n \in Nat, NEW K, Good(s, n, K), NEW b \in BOOLEAN
  PROVE  Good(SetAutoClearQuery(s, b), n, K) /\ (Fits(s) => Fits(SetAutoClearQuery(s, b)))
<1> DEFINE a == s.auto
           t == [s EXCEPT !.auto = a, !.autoQuery = b, !.got = [c \in Clients |-> {}]]
<1>1. s \in Nets /\ a \in BOOLEAN  BY NetFacts DEF Good
<1>2. t = [s EXCEPT !.autoQuery = b, !.got = [c \in Clients |-> {}]]  BY <1>1 DEF Nets
<1>3. SetAutoClearQuery(s, b) = t
  <2>1. t = [s EXCEPT !.autoQuery = b, !.got = [c \in Clients |-> {}]]  BY <1>2
  <2> HIDE DEF t
  <2> QED  BY <2>1 DEF SetAutoClearQuery
<1> HIDE DEF a
<1>4. Good(t, n, K) /\ (Fits(s) => Fits(t))  BY <1>1, AutoGood
<1> QED  BY <1>3, <1>4

\* clearbufferonmsg
LEMMA ClearAllGood ==
  ASSUME NEW s, NEW n \in Nat, NEW K, Good(s, n, K)
  PROVE  LET t == ClearAllBuffers(s) IN Good(t, n, K) /\ (Fits(s) => Fits(t))
<1> DEFINE b == FALSE
           u == ClearBuffer(s)
           v == IF s.detached THEN s ELSE SetAutoClear(u, b)
           w == ClearQueries(v)
           t == SetAutoClearQuery(w, b)
<1>1. ClearAllBuffers(s) = t /\ b \in BOOLEAN  BY DEF ClearAllBuffers
<1> HIDE DEF b
<1>2. Good(u, n, K) /\ (Fits(s) => Fits(u))  BY ClearBufferGood
<1> HIDE DEF u
<1>3. Good(SetAutoClear(u, b), n, K) /\ (Fits(u) => Fits(SetAutoClear(u, b)))
  BY <1>1, <1>2, SetAutoClearGood
<1>4. Good(v, n, K) /\ (Fits(s) => Fits(v))  BY <1>2, <1>3
<1> HIDE DEF v
<1>5. Good(w, n, K) /\ (Fits(v) => Fits(w))  BY <1>4, ClearQueriesGood
<1> HIDE DEF w
<1>6. Good(t, n, K) /\ (Fits(w) => Fits(t))  BY <1>1, <1>5, SetAutoClearQueryGood
<1> QED  BY <1>1, <1>4, <1>5, <1>6

\* flooddetach's count changes.
LEMMA FloodGood ==
  ASSUME NEW s, NEW n \in Nat, NEW K, Good(s, n, K), NEW f \in Nat
  PROVE  LET t == [s EXCEPT !.flood = f] IN
         /\ Good(t, n, K) /\ (Fits(s) /\ f <= FloodLines => Fits(t))
         /\ t.flood = f /\ t.detached = s.detached
<1> DEFINE t == [s EXCEPT !.flood = f]
<1>1. s \in Nets  BY DEF Good
<1>2. /\ t \in Nets /\ SameBuffers(s, t) /\ SameGhosts(s, t) /\ t.gone = s.gone
      /\ t.auto = s.auto /\ t.autoQuery = s.autoQuery /\ t.size = s.size /\ t.flood = f
      /\ t.detached = s.detached
  BY <1>1 DEF Nets, SameBuffers, SameGhosts
<1> HIDE DEF t
<1>3. /\ t.buffer = s.buffer /\ t.queries = s.queries /\ t.notices = s.notices
      /\ t.got = s.got /\ t.twice = s.twice
  BY <1>2 DEF SameBuffers, SameGhosts
<1>4. K \subseteq Held(t)  BY <1>2, <1>3 DEF Good, Held, SameGhosts
<1>5. Good(t, n, K)  BY <1>2, <1>3, <1>4 DEF Good
<1>6. Fits(s) /\ f <= FloodLines => Fits(t)  BY <1>2, <1>3 DEF Fits
<1> QED  BY <1>2, <1>5, <1>6 DEF t

LEMMA FloodMessageGood ==
  ASSUME NEW s, NEW n \in Nat, NEW K, Good(s, n, K)
  PROVE  Good(FloodMessage(s), n, K) /\ (Fits(s) => Fits(FloodMessage(s)))
<1> DEFINE f == s.flood + 1
           t == [s EXCEPT !.flood = f]
<1>1. s.flood \in Nat /\ f \in Nat /\ FloodLines \in Nat  BY NetFacts, LimitsAssumption DEF Good
<1>2. s.flood < FloodLines => f <= FloodLines  BY <1>1
<1>3. s.flood >= FloodLines \/ s.flood < FloodLines  BY <1>1
<1>4. FloodMessage(s) = s \/ (s.flood < FloodLines /\ FloodMessage(s) \in {t, DetachUser(t)})
  <2>1. t = [s EXCEPT !.flood = s.flood + 1]  OBVIOUS
  <2> HIDE DEF t, f
  <2> QED  BY <1>3, <2>1 DEF FloodMessage
<1> HIDE DEF f
<1>5. Good(t, n, K) /\ (Fits(s) /\ f <= FloodLines => Fits(t))  BY <1>1, FloodGood
<1> HIDE DEF t
<1>6. Good(DetachUser(t), n, K) /\ (Fits(t) => Fits(DetachUser(t)))  BY <1>5, DetachUserGood
<1> QED  BY <1>2, <1>4, <1>5, <1>6

LEMMA FloodOverGood ==
  ASSUME NEW s, NEW n \in Nat, NEW K, Good(s, n, K), clients \subseteq Clients
  PROVE  Good(FloodOver(s), n, K) /\ (Fits(s) => Fits(FloodOver(s)))
<1> DEFINE f == 0
           t == [s EXCEPT !.flood = f]
           u == ClearBuffer(t)
           v == AttachUser(u, clients)
<1>1. FloodOver(s) \in {t, v}  BY DEF FloodOver
<1>2. f \in Nat /\ f <= FloodLines  BY LimitsAssumption
<1> HIDE DEF f
<1>3. Good(t, n, K) /\ (Fits(s) => Fits(t))  BY <1>2, FloodGood
<1> HIDE DEF t
<1>4. Good(u, n, K) /\ (Fits(t) => Fits(u))  BY <1>3, ClearBufferGood
<1> HIDE DEF u
<1>5. Good(v, n, K) /\ (Fits(u) => Fits(v))  BY <1>4, AttachUserGood
<1> QED  BY <1>1, <1>3, <1>4, <1>5

LEMMA HookedGood ==
  ASSUME NEW s, NEW n \in Nat, NEW K, Good(s, n, K), clients \subseteq Clients, NEW t \in Hooked(s)
  PROVE  Good(t, n, K) /\ (Fits(s) => Fits(t))
<1>1. t \in {s, AttachUser(s, clients), FloodMessage(s)}  BY DEF Hooked, TryAttach
<1>2. Good(FloodMessage(s), n, K) /\ (Fits(s) => Fits(FloodMessage(s)))  BY FloodMessageGood
<1>3. Good(AttachUser(s, clients), n, K) /\ (Fits(s) => Fits(AttachUser(s, clients)))
  BY AttachUserGood
<1> QED  BY <1>1, <1>2, <1>3

\* SetBuffer for the channel, for queries.
LEMMA SetBufferCountGood ==
  ASSUME NEW s, NEW n \in Nat, NEW K, Good(s, n, K), NEW k \in Nat
  PROVE  Good(SetBufferCount(s, k), n, K) /\ (Fits(s) => Fits(SetBufferCount(s, k)))
<1> DEFINE u == [s EXCEPT !.size = k]
           b == Shrunk(u.buffer, k)
           t == SetBuffer(u, b, Range(u.buffer))
<1>1. s \in Nets  BY DEF Good
<1>2. /\ u \in Nets /\ SameBuffers(s, u) /\ SameGhosts(s, u) /\ u.gone = s.gone
      /\ u.auto = s.auto /\ u.autoQuery = s.autoQuery /\ u.size = k /\ u.flood = s.flood
  BY <1>1 DEF Nets, SameBuffers, SameGhosts
<1>3. SetBufferCount(s, k) = t
  <2>1. u.buffer = s.buffer  BY <1>2 DEF SameBuffers
  <2> QED  BY <2>1 DEF SetBufferCount
<1> HIDE DEF u
<1>4. /\ u.buffer = s.buffer /\ u.queries = s.queries /\ u.notices = s.notices
      /\ u.got = s.got /\ u.twice = s.twice
  BY <1>2 DEF SameBuffers, SameGhosts
<1>5. K \subseteq Held(u)  BY <1>2, <1>4 DEF Good, Held, SameGhosts
<1>6. Good(u, n, K)  BY <1>2, <1>4, <1>5 DEF Good
<1>7. b \in Seq(Nat) /\ Len(b) <= k /\ Range(b) \subseteq Range(u.buffer)
  BY <1>2, NetFacts, ShrunkFacts
<1> HIDE DEF b
<1>8. Good(t, n, K) /\ SameFlags(u, t) /\ t.buffer = b /\ t.queries = u.queries
  BY <1>6, <1>7, ShortenGood
<1> HIDE DEF t
<1>9. Fits(s) => Fits(t)  BY <1>2, <1>4, <1>7, <1>8 DEF Fits, SameFlags
<1> QED  BY <1>3, <1>8, <1>9

\* Every query of qs, shortened to k lines.
LEMMA ResizedQueries ==
  ASSUME NEW qs \in Seq(Query), NEW k \in Nat
  PROVE  LET rs == [i \in DOMAIN qs |-> [qs[i] EXCEPT !.size = k, !.buffer = Shrunk(@, k)]]
         IN  rs \in Seq(Query) /\ Len(rs) = Len(qs) /\ Lines(rs) \subseteq Lines(qs)
<1> DEFINE rs == [i \in DOMAIN qs |-> [qs[i] EXCEPT !.size = k, !.buffer = Shrunk(@, k)]]
           X == {}
<1>1. DOMAIN qs = 1..Len(qs)  OBVIOUS
<1>2. \A i \in 1..Len(qs) : rs[i] \in Query /\ Range(rs[i].buffer) \subseteq Range(qs[i].buffer)
  <2> SUFFICES ASSUME NEW i \in 1..Len(qs)
               PROVE  rs[i] \in Query /\ Range(rs[i].buffer) \subseteq Range(qs[i].buffer)
    OBVIOUS
  <2> DEFINE q == qs[i]
             b == Shrunk(q.buffer, k)
  <2>1. q \in Query /\ q.buffer \in Seq(Nat)
    <3>1. q \in Query  OBVIOUS
    <3> HIDE DEF q
    <3> QED  BY <3>1 DEF Query
  <2>2. rs[i] = [q EXCEPT !.size = k, !.buffer = b]  BY <1>1
  <2> HIDE DEF q, rs
  <2>3. b \in Seq(Nat) /\ Range(b) \subseteq Range(q.buffer)  BY <2>1, ShrunkFacts
  <2> HIDE DEF b
  <2>4. rs[i] \in Query /\ rs[i].buffer = b  BY <2>1, <2>2, <2>3 DEF Query
  <2> QED  BY <2>3, <2>4 DEF q
<1>3. rs = [i \in 1..Len(qs) |-> rs[i]]  BY <1>1
<1> HIDE DEF rs
<1>4. rs \in [1..Len(qs) -> Query]  BY <1>2, <1>3
<1>5. \A i \in 1..Len(qs) : Range(rs[i].buffer) \subseteq Range(qs[i].buffer) \cup X  BY <1>2
<1> HIDE DEF X
<1>6. rs \in Seq(Query) /\ Len(rs) = Len(qs) /\ Lines(rs) \subseteq Lines(qs) \cup X
  BY <1>4, <1>5, QueriesMapped
<1> QED  BY <1>6 DEF rs, X

LEMMA SetQueriesGood ==
  ASSUME NEW s, NEW n \in Nat, NEW K, Good(s, n, K), NEW rs \in Seq(Query),
         Lines(rs) \subseteq Lines(s.queries), Len(rs) = Len(s.queries)
  PROVE  LET t == SetQueries(s, rs, Lines(s.queries)) IN Good(t, n, K) /\ (Fits(s) => Fits(t))
<1> DEFINE ls == Lines(s.queries)
           t == SetQueries(s, rs, ls)
           X == {}
<1>1. s \in Nets /\ ls \in SUBSET Nat  BY Waiting DEF Good
<1>2. ls \cup X = ls /\ K \cup X = K /\ X \in SUBSET (1..n) /\ Unused(s, X)  BY NothingUnused
<1> HIDE DEF X
<1>3. Good(SetQueries(s, rs, Lines(s.queries) \cup X), n, K \cup X)  BY <1>2, QueriesGood
<1>4. Good(t, n, K)  BY <1>2, <1>3
<1> HIDE DEF ls
<1>5. t.queries = rs /\ SameFlags(s, t) /\ t.buffer = s.buffer  BY <1>1, QueriesSet
<1> HIDE DEF t
<1>6. Fits(s) => Fits(t)  BY <1>5 DEF Fits, Few, SameFlags
<1> QED  BY <1>4, <1>6 DEF t, ls

\* PlayBuffer of a query: the lines do not wait in the channel's buffer.
LEMMA ToldGood ==
  ASSUME NEW s, NEW n \in Nat, NEW K, Good(s, n, K), NEW cs \in SUBSET Clients, NEW ls \in SUBSET (1..n),
         ls \cap Range(s.buffer) = {}
  PROVE  LET t == Told(s, cs, ls) IN Good(t, n, K) /\ (Fits(s) => Fits(t))
<1> DEFINE t == Told(s, cs, ls)
<1>1. s \in Nets /\ ~s.twice /\ K \subseteq Held(s) /\ ls \in SUBSET Nat  BY DEF Good
<1>2. /\ t \in Nets /\ SameFlags(s, t) /\ SameBuffers(s, t)
      /\ t.gone = s.gone /\ t.unheard = s.unheard /\ t.twice = s.twice
      /\ t.seen = Seen(s, cs, ls) /\ Got(s, t, cs, ls)
  BY <1>1, ToldFacts
<1> HIDE DEF t
<1>3. t.buffer = s.buffer /\ t.queries = s.queries /\ t.notices = s.notices  BY <1>2 DEF SameBuffers
<1>4. K \subseteq Held(t)  BY <1>1, <1>2, <1>3 DEF Held, Seen
<1>5. Unheard(Range(t.buffer), t.got, t.auto /\ t.autoQuery, n)
  <2>1. Unheard(Range(s.buffer), s.got, s.auto /\ s.autoQuery, n)  BY DEF Good
  <2> SUFFICES ASSUME NEW c \in Clients
               PROVE  /\ t.got[c] \subseteq 1..n
                      /\ s.auto /\ s.autoQuery => t.got[c] \cap Range(s.buffer) = {}
    BY <1>2, <1>3 DEF Unheard, SameFlags
  <2>2. /\ s.got[c] \subseteq 1..n /\ (s.auto /\ s.autoQuery => s.got[c] \cap Range(s.buffer) = {})
        /\ t.got[c] = IF c \in cs \ away THEN s.got[c] \cup ls ELSE s.got[c]
    BY <1>2, <2>1 DEF Unheard, Got
  <2> QED  BY <2>2
<1>6. Good(t, n, K)  BY <1>1, <1>2, <1>3, <1>4, <1>5 DEF Good
<1>7. Fits(s) => Fits(t)  BY <1>2, <1>3 DEF Fits, SameFlags
<1> QED  BY <1>6, <1>7 DEF t

\* The next line is new to the network.
LEMMA NextLine ==
  ASSUME NEW s, NEW n \in Nat, NEW K, Good(s, n, K)
  PROVE  Good(s, n + 1, K) /\ Unused(s, {n + 1}) /\ n + 1 \in 1..(n + 1)
<1> DEFINE m == n + 1
<1>1. 1..n \subseteq 1..m /\ m \notin 1..n /\ m \in 1..m  OBVIOUS
<1> HIDE DEF m
<1>2. Good(s, m, K)  BY <1>1 DEF Good, Apart, Unheard
<1>3. Unused(s, {m})  BY <1>1 DEF Good, Apart, Unheard, Unused
<1> QED  BY <1>1, <1>2, <1>3 DEF m
-----------------------------------------------------------------------------
(* A new line *)

\* The line l goes out to the clients.  Nobody has it, and it does not wait in the channel's
\* buffer while a client is there that buffers clear themselves for; without clients it is
\* accounted for.
LEMMA LineOut ==
  ASSUME NEW s, NEW n \in Nat, NEW K, Good(s, n, K), NEW l \in 1..n, clients \subseteq Clients,
         \A c \in Clients : l \notin s.got[c],
         clients = {} => l \in K,
         s.auto /\ IsUserOnline => l \notin Range(s.buffer)
  PROVE  LET t == PutUser(s, clients, {l}) IN Good(t, n, K \cup {l}) /\ (Fits(s) => Fits(t))
<1> DEFINE ls == {l}
           cs == clients
           t == PutUser(s, cs, ls)
<1>1. /\ ls \in SUBSET (1..n) /\ cs \in SUBSET Clients
      /\ \A c \in cs : s.got[c] \cap ls = {}
      /\ s.auto => cs \ away = {} \/ ls \cap Range(s.buffer) = {}
  BY DEF IsUserOnline
<1>2. cs = {} => K \cup ls = K  OBVIOUS
<1> HIDE DEF ls, cs
<1>3. /\ Good(t, n, K) /\ (cs # {} => Good(t, n, K \cup ls)) /\ SameFlags(s, t) /\ SameBuffers(s, t)
  BY <1>1, PutUserGood
<1> HIDE DEF t
<1>4. Fits(s) => Fits(t)  BY <1>3 DEF Fits, SameFlags, SameBuffers
<1> QED  BY <1>2, <1>3, <1>4 DEF t, cs, ls

\* A line of the channel is buffered unless a client is there and the buffer clears itself,
\* and goes out.
LEMMA BufferedOut ==
  ASSUME NEW s, NEW n \in Nat, NEW K, Good(s, n, K), NEW l \in 1..n, Unused(s, {l}),
         clients \subseteq Clients, NEW t,
         (t = s /\ s.auto /\ IsUserOnline) \/ (t = AddBuffer(s, l) /\ (~s.auto \/ ~IsUserOnline))
  PROVE  LET r == PutUser(t, clients, {l}) IN Good(r, n, K \cup {l}) /\ (Fits(s) => Fits(r))
<1> DEFINE r == PutUser(t, clients, {l})
<1>1. CASE t = s /\ s.auto /\ IsUserOnline
  <2>1. /\ \A c \in Clients : l \notin s.got[c]
        /\ clients # {} /\ l \notin Range(s.buffer)
    BY <1>1 DEF Unused, IsUserOnline
  <2> QED  BY <1>1, <2>1, LineOut
<1>2. CASE t = AddBuffer(s, l) /\ (~s.auto \/ ~IsUserOnline)
  <2> DEFINE L == K \cup {l}
  <2>1. /\ Good(t, n, L) /\ (Fits(s) => Fits(t)) /\ SameFlags(s, t) /\ SameGhosts(s, t)
    BY <1>2, AddBufferGood
  <2>2. /\ \A c \in Clients : l \notin t.got[c]
        /\ l \in L /\ L \cup {l} = L
        /\ t.auto /\ IsUserOnline => l \notin Range(t.buffer)
    BY <1>2, <2>1 DEF Unused, SameGhosts, SameFlags
  <2> HIDE DEF L
  <2>3. Good(r, n, L \cup {l}) /\ (Fits(t) => Fits(r))  BY <2>1, <2>2, LineOut
  <2> QED  BY <2>1, <2>2, <2>3 DEF L
<1> QED  BY <1>1, <1>2

LEMMA ChanLineGood ==
  ASSUME NEW s, NEW n \in Nat, NEW K, Good(s, n, K), NEW l \in 1..n, Unused(s, {l}),
         clients \subseteq Clients
  PROVE  LET t == Buffered(s, l)
             r == IF t.detached THEN t ELSE PutUser(t, clients, {l})
         IN  Good(r, n, K \cup {l}) /\ (Fits(s) => Fits(r))
<1> DEFINE u == AddBuffer(s, l)
           t == Buffered(s, l)
<1>1. t = IF ~s.auto \/ ~IsUserOnline \/ s.detached THEN u ELSE s  BY DEF Buffered
<1>2. Good(u, n, K \cup {l}) /\ (Fits(s) => Fits(u)) /\ SameFlags(s, u)  BY AddBufferGood
<1>3. t.detached = s.detached  BY <1>1, <1>2 DEF SameFlags
<1>4. CASE s.detached
  <2>1. t = u /\ t.detached  BY <1>1, <1>3, <1>4
  <2> QED  BY <1>2, <2>1
<1>5. CASE ~s.detached
  <2>1. (t = s /\ s.auto /\ IsUserOnline) \/ (t = u /\ (~s.auto \/ ~IsUserOnline))  BY <1>1, <1>5
  <2>2. ~t.detached  BY <1>3, <1>5
  <2> HIDE DEF t
  <2>3. /\ Good(PutUser(t, clients, {l}), n, K \cup {l})
        /\ (Fits(s) => Fits(PutUser(t, clients, {l})))
    BY <2>1, BufferedOut
  <2> QED  BY <2>2, <2>3 DEF t
<1>6. s.detached \in BOOLEAN  BY NetFacts DEF Good
<1> QED  BY <1>4, <1>5, <1>6

\* A line of a query.
LEMMA QueryOut ==
  ASSUME NEW s, NEW n \in Nat, NEW K, Good(s, n, K), NEW l \in 1..n, Unused(s, {l}), NEW who \in Peers,
         clients \subseteq Clients, NEW t, (t = s /\ IsUserOnline) \/ t = QueryLine(s, who, l)
  PROVE  LET r == PutUser(t, clients, {l}) IN Good(r, n, K \cup {l}) /\ (Fits(s) => Fits(r))
<1> DEFINE r == PutUser(t, clients, {l})
<1>1. l \notin Range(s.buffer) /\ \A c \in Clients : l \notin s.got[c]  BY DEF Unused
<1>2. CASE t = s /\ IsUserOnline
  <2>1. clients # {}  BY <1>2 DEF IsUserOnline
  <2> QED  BY <1>1, <1>2, <2>1, LineOut
<1>3. CASE t = QueryLine(s, who, l)
  <2> DEFINE L == K \cup {l}
  <2>1. Good(t, n, L) /\ (Fits(s) => Fits(t)) /\ SameGhosts(s, t) /\ t.buffer = s.buffer
    BY <1>3, QueryLineGood
  <2>2. /\ \A c \in Clients : l \notin t.got[c]
        /\ l \in L /\ L \cup {l} = L /\ l \notin Range(t.buffer)
    BY <1>1, <2>1 DEF SameGhosts
  <2> HIDE DEF L
  <2>3. Good(r, n, L \cup {l}) /\ (Fits(t) => Fits(r))  BY <2>1, <2>2, LineOut
  <2> QED  BY <2>1, <2>2, <2>3 DEF L
<1> QED  BY <1>2, <1>3

\* A notice.
LEMMA NoticeOut ==
  ASSUME NEW s, NEW n \in Nat, NEW K, Good(s, n, K), NEW l \in 1..n, Unused(s, {l}),
         clients \subseteq Clients, NEW t, (t = s /\ IsUserOnline) \/ t = AddNotice(s, l)
  PROVE  LET r == PutUser(t, clients, {l}) IN Good(r, n, K \cup {l}) /\ (Fits(s) => Fits(r))
<1> DEFINE r == PutUser(t, clients, {l})
<1>1. l \notin Range(s.buffer) /\ \A c \in Clients : l \notin s.got[c]  BY DEF Unused
<1>2. CASE t = s /\ IsUserOnline
  <2>1. clients # {}  BY <1>2 DEF IsUserOnline
  <2> QED  BY <1>1, <1>2, <2>1, LineOut
<1>3. CASE t = AddNotice(s, l)
  <2> DEFINE L == K \cup {l}
  <2>1. Good(t, n, L) /\ (Fits(s) => Fits(t)) /\ SameGhosts(s, t) /\ t.buffer = s.buffer
    BY <1>3, AddNoticeGood
  <2>2. /\ \A c \in Clients : l \notin t.got[c]
        /\ l \in L /\ L \cup {l} = L /\ l \notin Range(t.buffer)
    BY <1>1, <2>1 DEF SameGhosts
  <2> HIDE DEF L
  <2>3. Good(r, n, L \cup {l}) /\ (Fits(t) => Fits(r))  BY <2>1, <2>2, LineOut
  <2> QED  BY <2>1, <2>2, <2>3 DEF L
<1> QED  BY <1>2, <1>3
-----------------------------------------------------------------------------
(* The inductive invariant *)

\* What savebuff wrote.
Stored(v, n) == /\ v.buffer \in Seq(Nat) /\ v.queries \in Seq(Query)
                /\ Few(v.queries)
                /\ Apart(Range(v.buffer), Lines(v.queries), {}, n)

PlaybackInv == /\ clients \subseteq Clients /\ away \subseteq clients /\ mod \in Mods /\ lines \in Nat
               /\ Good(net, lines, 1..lines) /\ Fits(net)
               /\ Stored(saved, lines)

LEMMA PlaybackInit == Init => PlaybackInv
<1> SUFFICES ASSUME Init PROVE PlaybackInv  OBVIOUS
<1>1. /\ clients = {} /\ away = {} /\ mod \in Mods /\ lines = 0 /\ net = Network
      /\ saved = [buffer |-> <<>>, queries |-> <<>>]
  BY DEF Init
<1>2. Network \in Nets  BY SizesAssumption, EmptyWaiting DEF Network, Nets
<1>3. /\ Network.buffer = <<>> /\ Network.queries = <<>> /\ Network.notices = <<>>
      /\ Network.size \in Nat /\ Network.flood = 0 /\ ~Network.twice
      /\ \A c \in Clients : Network.got[c] = {}
  BY SizesAssumption DEF Network
<1>4. Apart({}, {}, {}, 0) /\ 1..0 = {}  BY DEF Apart
<1>5. Good(Network, 0, 1..0)  BY <1>2, <1>3, <1>4, EmptyWaiting DEF Good, Unheard
<1>6. Fits(Network)  BY <1>3, EmptyFacts, LimitsAssumption DEF Fits, Few
<1>7. saved.buffer = <<>> /\ saved.queries = <<>>  BY <1>1
<1>8. Stored(saved, 0)
  <2> DEFINE b == saved.buffer
             qs == saved.queries
  <2>1. b \in Seq(Nat) /\ qs \in Seq(Query) /\ Range(b) = {} /\ Lines(qs) = {}  BY <1>7, EmptyWaiting
  <2>2. Len(qs) = 0 /\ 0 <= MaxQueryBuffers  BY <1>7, EmptyFacts, LimitsAssumption
  <2>3. Apart(Range(b), Lines(qs), {}, 0)  BY <1>4, <2>1
  <2>4. Few(qs)  BY <2>2 DEF Few
  <2> QED  BY <2>1, <2>3, <2>4, Zenon DEF Stored
<1> QED  BY <1>1, <1>5, <1>6, <1>8 DEF PlaybackInv

\* The handlers of lines, and the others, by the network they leave.
LEMMA LineCounted ==
  ASSUME PlaybackInv, NewLine, NEW t, net' = t, Good(t, lines + 1, (1..lines) \cup {lines + 1}), Fits(t)
  PROVE  PlaybackInv'
<1>1. /\ lines' = lines + 1 /\ clients' = clients /\ away' = away /\ mod' = mod /\ saved' = saved
  BY DEF NewLine
<1>2. lines \in Nat /\ Stored(saved, lines)  BY DEF PlaybackInv
<1>3. 1..(lines + 1) = (1..lines) \cup {lines + 1} /\ 1..lines \subseteq 1..(lines + 1)  BY <1>2
<1>4. Stored(saved, lines + 1)
  <2> DEFINE m == lines + 1
  <2>1. 1..lines \subseteq 1..m  BY <1>3
  <2> HIDE DEF m
  <2>2. Stored(saved, m)  BY <1>2, <2>1 DEF Stored, Apart
  <2> QED  BY <2>2 DEF m
<1>5. Good(net', lines', 1..lines')  BY <1>1, <1>3
<1>6. Fits(net') /\ Stored(saved', lines') /\ lines' \in Nat  BY <1>1, <1>2, <1>4
<1> QED  BY <1>1, <1>5, <1>6 DEF PlaybackInv

LEMMA NetKept ==
  ASSUME PlaybackInv, UNCHANGED <<mod, saved, lines>>, clients' \subseteq Clients, away' \subseteq clients',
         NEW t, net' = t, Good(t, lines, 1..lines), Fits(t)
  PROVE  PlaybackInv'
<1>1. mod' = mod /\ saved' = saved /\ lines' = lines  OBVIOUS
<1>2. Good(net', lines', 1..lines') /\ Fits(net')  BY <1>1
<1> QED  BY <1>1, <1>2 DEF PlaybackInv
-----------------------------------------------------------------------------
(* The steps *)

\* What holds of the network when a line comes.
LEMMA Coming ==
  ASSUME PlaybackInv
  PROVE  /\ lines \in Nat /\ lines + 1 \in Nat /\ clients \subseteq Clients /\ away \subseteq clients
         /\ Good(net, lines, 1..lines) /\ Fits(net)
         /\ net.auto \in BOOLEAN /\ net.detached \in BOOLEAN
<1>1. lines \in Nat /\ Good(net, lines, 1..lines) /\ Fits(net)  BY DEF PlaybackInv
<1>2. net \in Nets  BY <1>1 DEF Good
<1>3. net.auto \in BOOLEAN /\ net.detached \in BOOLEAN  BY <1>2, NetFacts
<1> QED  BY <1>1, <1>3 DEF PlaybackInv

LEMMA ChanMessageStep == ASSUME PlaybackInv, ChanMessage PROVE PlaybackInv'
<1> DEFINE m == lines + 1
           K == 1..lines
<1>1. NewLine /\ lines' = m  BY DEF ChanMessage, NewLine
<1>2. PICK s \in Hooked(net) :
        net' = IF Buffered(s, m).detached THEN Buffered(s, m) ELSE PutUser(Buffered(s, m), clients, {m})
  BY <1>1, Zenon DEF ChanMessage
<1>3. Good(s, lines, K) /\ Fits(s)  BY Coming, HookedGood
<1>4. Good(s, m, K) /\ Unused(s, {m}) /\ m \in 1..m /\ m \in Nat  BY <1>3, Coming, NextLine
<1> DEFINE r == IF Buffered(s, m).detached THEN Buffered(s, m) ELSE PutUser(Buffered(s, m), clients, {m})
<1> HIDE DEF K, m
<1>5. Good(r, m, K \cup {m}) /\ (Fits(s) => Fits(r))  BY <1>4, Coming, ChanLineGood
<1> HIDE DEF r
<1>6. Good(r, m, K \cup {m}) /\ Fits(r) /\ net' = r  BY <1>2, <1>3, <1>5 DEF r
<1> QED  BY <1>1, <1>6, LineCounted DEF m, K

LEMMA PrivMessageStep == ASSUME PlaybackInv, PrivMessage PROVE PlaybackInv'
<1> DEFINE m == lines + 1
           K == 1..lines
<1>1. NewLine /\ lines' = m  BY DEF PrivMessage, NewLine
<1>2. PICK who \in Peers :
        net' = PutUser(IF ~IsUserOnline \/ ~net.autoQuery THEN QueryLine(net, who, m) ELSE net, clients, {m})
  BY <1>1, Zenon DEF PrivMessage
<1>4. Good(net, m, K) /\ Unused(net, {m}) /\ m \in 1..m /\ m \in Nat  BY Coming, NextLine
<1> DEFINE t == IF ~IsUserOnline \/ ~net.autoQuery THEN QueryLine(net, who, m) ELSE net
           r == PutUser(t, clients, {m})
<1> HIDE DEF K, m
<1>5. (t = net /\ IsUserOnline) \/ t = QueryLine(net, who, m)  OBVIOUS
<1>6. net' = r  BY <1>2
<1> HIDE DEF t
<1>7. Good(r, m, K \cup {m}) /\ (Fits(net) => Fits(r))  BY <1>4, <1>5, Coming, QueryOut
<1> HIDE DEF r
<1> QED  BY <1>1, <1>6, <1>7, Coming, LineCounted DEF m, K

LEMMA PrivNoticeStep == ASSUME PlaybackInv, PrivNotice PROVE PlaybackInv'
<1> DEFINE m == lines + 1
           K == 1..lines
           t == IF IsUserOnline THEN net ELSE AddNotice(net, m)
           r == PutUser(t, clients, {m})
<1>1. NewLine /\ lines' = m  BY DEF PrivNotice, NewLine
<1>2. net' = r  BY <1>1 DEF PrivNotice
<1>4. Good(net, m, K) /\ Unused(net, {m}) /\ m \in 1..m /\ m \in Nat  BY Coming, NextLine
<1> HIDE DEF K, m
<1>5. (t = net /\ IsUserOnline) \/ t = AddNotice(net, m)  OBVIOUS
<1> HIDE DEF t
<1>7. Good(r, m, K \cup {m}) /\ (Fits(net) => Fits(r))  BY <1>4, <1>5, Coming, NoticeOut
<1> HIDE DEF r
<1> QED  BY <1>1, <1>2, <1>7, Coming, LineCounted DEF m, K

LEMMA ExtraLineStep == ASSUME PlaybackInv, ExtraLine PROVE PlaybackInv'
<1> DEFINE m == lines + 1
           K == 1..lines
           u == AddBuffer(net, m)
           t == IF net.auto /\ IsUserOnline THEN net ELSE u
           r == IF ~t.detached THEN PutUser(t, clients, {m})
                ELSE IF net.auto /\ IsUserOnline THEN Dropped(net, {m}) ELSE t
<1>1. NewLine /\ lines' = m  BY DEF ExtraLine, NewLine
<1>2. net' = r  BY <1>1 DEF ExtraLine
<1>3. Good(net, m, K) /\ Unused(net, {m}) /\ m \in 1..m /\ m \in Nat  BY Coming, NextLine
<1> HIDE DEF K, m
<1>4. Good(u, m, K \cup {m}) /\ (Fits(net) => Fits(u))  BY <1>3, AddBufferGood
<1>5. (t = net /\ net.auto /\ IsUserOnline) \/ (t = u /\ (~net.auto \/ ~IsUserOnline))  OBVIOUS
<1>6. /\ Good(Dropped(net, {m}), m, K \cup {m}) /\ (Fits(net) => Fits(Dropped(net, {m})))
  BY <1>3, DroppedGood
<1>7. r \in {PutUser(t, clients, {m}), Dropped(net, {m})} \/ r = u  BY <1>5
<1> HIDE DEF t, r
<1>8. /\ Good(PutUser(t, clients, {m}), m, K \cup {m})
      /\ (Fits(net) => Fits(PutUser(t, clients, {m})))
  BY <1>3, <1>5, Coming, BufferedOut
<1>9. Good(r, m, K \cup {m}) /\ Fits(r)  BY <1>4, <1>6, <1>7, <1>8, Coming
<1> QED  BY <1>1, <1>2, <1>9, LineCounted DEF m, K

LEMMA ClientMessageStep ==
  ASSUME PlaybackInv, NEW c \in Clients, ClientMessage(c) PROVE PlaybackInv'
<1> DEFINE m == lines + 1
           K == 1..lines
           s == IF mod = "clearbufferonmsg" THEN ClearAllBuffers(net) ELSE net
           t == IF ~s.auto \/ ~IsUserOnline THEN AddBuffer(s, m) ELSE s
<1>1. NewLine /\ lines' = m  BY DEF ClientMessage, NewLine
<1>2. \/ net' = PutUser(t, clients, {m})
      \/ \E who \in Peers :
           net' = PutUser(IF ~s.autoQuery \/ ~IsUserOnline THEN QueryLine(s, who, m) ELSE s, clients, {m})
  BY <1>1, Zenon DEF ClientMessage
<1>3. Good(s, lines, K) /\ Fits(s)  BY Coming, ClearAllGood
<1>4. Good(s, m, K) /\ Unused(s, {m}) /\ m \in 1..m /\ m \in Nat
  <2> HIDE DEF s
  <2> QED  BY <1>3, Coming, NextLine
<1> HIDE DEF K, m, s
<1>5. CASE net' = PutUser(t, clients, {m})
  <2> DEFINE r == PutUser(t, clients, {m})
  <2>1. s.auto \in BOOLEAN  BY <1>4, NetFacts DEF Good
  <2>2. \/ t = s /\ s.auto /\ IsUserOnline
        \/ t = AddBuffer(s, m) /\ (~s.auto \/ ~IsUserOnline)
    BY <2>1
  <2> HIDE DEF t
  <2>3. Good(r, m, K \cup {m}) /\ (Fits(s) => Fits(r))  BY <1>4, <2>2, Coming, BufferedOut
  <2>4. net' = r  BY <1>5
  <2> HIDE DEF r
  <2> QED  BY <1>1, <1>3, <2>3, <2>4, LineCounted DEF m, K
<1>6. ASSUME NEW who \in Peers,
             net' = PutUser(IF ~s.autoQuery \/ ~IsUserOnline THEN QueryLine(s, who, m) ELSE s, clients, {m})
      PROVE  PlaybackInv'
  <2> DEFINE v == IF ~s.autoQuery \/ ~IsUserOnline THEN QueryLine(s, who, m) ELSE s
             r == PutUser(v, clients, {m})
  <2>1. (v = s /\ IsUserOnline) \/ v = QueryLine(s, who, m)  OBVIOUS
  <2>2. net' = r  BY <1>6
  <2> HIDE DEF v
  <2>3. Good(r, m, K \cup {m}) /\ (Fits(s) => Fits(r))  BY <1>4, <2>1, Coming, QueryOut
  <2> HIDE DEF r
  <2> QED  BY <1>1, <1>3, <2>2, <2>3, LineCounted DEF m, K
<1> QED  BY <1>2, <1>5, <1>6

LEMMA ClientConnectedStep ==
  ASSUME PlaybackInv, NEW c \in Clients, ClientConnected(c) PROVE PlaybackInv'
<1> DEFINE g == [d \in Clients |-> IF d \in clients' \ {c} THEN net.got[d] ELSE {}]
           s == [net EXCEPT !.got = g]
           t == Replay(s, c)
<1>1. /\ clients' \subseteq Clients /\ away' \subseteq clients' /\ UNCHANGED <<mod, saved, lines>>
      /\ net' = t
  BY Coming DEF ClientConnected
<1>2. net.got \in [Clients -> SUBSET Nat]  BY Coming, NetFacts DEF Good
<1>3. /\ g \in [Clients -> SUBSET Nat] /\ g[c] = {}
      /\ \A d \in Clients : g[d] \subseteq net.got[d]
  BY <1>2
<1> HIDE DEF g
<1>4. Good(s, lines, 1..lines) /\ (Fits(net) => Fits(s)) /\ s.got = g  BY <1>3, Coming, GotGood
<1> HIDE DEF s
<1>5. s.got[c] = {}  BY <1>3, <1>4
<1>6. Good(t, lines, 1..lines) /\ (Fits(s) => Fits(t))  BY <1>4, <1>5, Coming, ReplayGood
<1> HIDE DEF t
<1> QED  BY <1>1, <1>4, <1>6, Coming, NetKept

LEMMA ClientDisconnectedStep ==
  ASSUME PlaybackInv, NEW c \in Clients, ClientDisconnected(c) PROVE PlaybackInv'
<1> DEFINE g == [net.got EXCEPT ![c] = {}]
           s == [net EXCEPT !.got = g]
<1>1. /\ clients' \subseteq Clients /\ away' \subseteq clients' /\ UNCHANGED <<mod, saved, lines>>
      /\ net' = s
  BY Coming DEF ClientDisconnected
<1>2. net.got \in [Clients -> SUBSET Nat]  BY Coming, NetFacts DEF Good
<1>3. g \in [Clients -> SUBSET Nat] /\ \A d \in Clients : g[d] \subseteq net.got[d]  BY <1>2
<1> HIDE DEF g
<1>4. Good(s, lines, 1..lines) /\ (Fits(net) => Fits(s))  BY <1>3, Coming, GotGood
<1> HIDE DEF s
<1> QED  BY <1>1, <1>4, Coming, NetKept

\* Commands that change nothing but the network.
LEMMA NetCommand ==
  ASSUME PlaybackInv, UNCHANGED <<clients, away, mod, saved, lines>>,
         NEW t, net' = t, Good(t, lines, 1..lines), Fits(net) => Fits(t)
  PROVE  PlaybackInv'
<1>1. UNCHANGED <<mod, saved, lines>> /\ clients' \subseteq Clients /\ away' \subseteq clients'
  BY Coming
<1> QED  BY <1>1, Coming, NetKept

LEMMA ClientAwayStep == ASSUME PlaybackInv, NEW c \in Clients, ClientAway(c) PROVE PlaybackInv'
<1>1. /\ clients' \subseteq Clients /\ away' \subseteq clients' /\ UNCHANGED <<mod, saved, lines>>
      /\ net' = net
  BY Coming DEF ClientAway, Command
<1> QED  BY <1>1, Coming, NetKept

LEMMA AttachStep ==
  ASSUME PlaybackInv, NEW c \in Clients, ClientJoin(c) \/ Attach(c) \/ Detach(c) PROVE PlaybackInv'
<1>1. UNCHANGED <<clients, away, mod, saved, lines>>
  BY DEF ClientJoin, Attach, Detach, Attached, Command
<1>2. net' \in {AttachUser(net, {c}), AttachUser(net, clients), DetachUser(net)}
  BY DEF ClientJoin, Attach, Detach
<1>3. ASSUME NEW cs \in SUBSET Clients
      PROVE  /\ Good(AttachUser(net, cs), lines, 1..lines)
             /\ (Fits(net) => Fits(AttachUser(net, cs)))
  BY Coming, AttachUserGood
<1>4. {c} \in SUBSET Clients /\ clients \in SUBSET Clients  BY Coming
<1>5. CASE net' = AttachUser(net, {c})
  <2> DEFINE cs == {c}
  <2>1. cs \in SUBSET Clients /\ net' = AttachUser(net, cs)  BY <1>5
  <2> HIDE DEF cs
  <2> QED  BY <1>1, <1>3, <2>1, NetCommand
<1>6. CASE net' = AttachUser(net, clients)  BY <1>1, <1>3, <1>4, <1>6, NetCommand
<1>7. CASE net' = DetachUser(net)  BY <1>1, <1>7, Coming, DetachUserGood, NetCommand
<1> QED  BY <1>2, <1>5, <1>6, <1>7

LEMMA PlayBufferStep == ASSUME PlaybackInv, NEW c \in Clients, PlayBuffer(c) PROVE PlaybackInv'
<1> DEFINE cs == {c}
           s == SendBuffer(net, cs)
<1>1. UNCHANGED <<clients, away, mod, saved, lines>>  BY DEF PlayBuffer, Attached, Command
<1>2. \/ net' = [s EXCEPT !.twice = net.twice]
      \/ \E q \in Range(net.queries) : net' = Told(net, cs, Range(q.buffer))
  BY DEF PlayBuffer
<1>3. cs \in SUBSET Clients  OBVIOUS
<1> HIDE DEF cs
<1>4. CASE net' = [s EXCEPT !.twice = net.twice]
  <2>1. Good(s, lines, 1..lines) /\ (Fits(net) => Fits(s))  BY <1>3, Coming, SendBufferGood
  <2> HIDE DEF s
  <2>2. s \in Nets /\ net \in Nets /\ ~s.twice /\ ~net.twice  BY <2>1, Coming DEF Good
  <2>3. net.twice = s.twice
    <3>1. net.twice \in BOOLEAN /\ s.twice \in BOOLEAN  BY <2>2, NetFacts
    <3> QED  BY <2>2, <3>1
  <2>4. [s EXCEPT !.twice = s.twice] = s  BY <2>2 DEF Nets
  <2>5. net' = s  BY <1>4, <2>3, <2>4
  <2> QED  BY <1>1, <2>1, <2>5, NetCommand
<1>5. ASSUME NEW q \in Range(net.queries), net' = Told(net, cs, Range(q.buffer)) PROVE PlaybackInv'
  <2> DEFINE ls == Range(q.buffer)
             t == Told(net, cs, ls)
  <2>1. ls \subseteq Lines(net.queries)  BY DEF Lines
  <2>2. Apart(Range(net.buffer), Lines(net.queries), Range(net.notices), lines)  BY Coming DEF Good
  <2>3. ls \in SUBSET (1..lines) /\ ls \cap Range(net.buffer) = {} /\ net' = t
    BY <1>5, <2>1, <2>2 DEF Apart
  <2> HIDE DEF ls
  <2>4. Good(t, lines, 1..lines) /\ (Fits(net) => Fits(t))  BY <1>3, <2>3, Coming, ToldGood
  <2> HIDE DEF t
  <2> QED  BY <1>1, <2>3, <2>4, NetCommand
<1> QED  BY <1>2, <1>4, <1>5

LEMMA ClearBuffersStep == ASSUME PlaybackInv, NEW c \in Clients, ClearBuffers(c) PROVE PlaybackInv'
<1> DEFINE q == ClearQueries(net)
           t == ClearBuffer(net)
           r == ClearBuffer(q)
<1>1. UNCHANGED <<clients, away, mod, saved, lines>> /\ net' \in {t, q, r}
  BY DEF ClearBuffers, Attached, Command
<1>2. Good(t, lines, 1..lines) /\ (Fits(net) => Fits(t))  BY Coming, ClearBufferGood
<1>3. Good(q, lines, 1..lines) /\ (Fits(net) => Fits(q))  BY Coming, ClearQueriesGood
<1> HIDE DEF t, q
<1>4. Good(r, lines, 1..lines) /\ (Fits(q) => Fits(r))  BY <1>3, Coming, ClearBufferGood
<1> HIDE DEF r
<1> QED  BY <1>1, <1>2, <1>3, <1>4, NetCommand

LEMMA SetBufferStep == ASSUME PlaybackInv, NEW c \in Clients, SetBufferCommand(c) PROVE PlaybackInv'
<1>1. UNCHANGED <<clients, away, mod, saved, lines>>  BY DEF SetBufferCommand, Attached, Command
<1>2. PICK k \in Sizes :
        \/ net' = SetBufferCount(net, k)
        \/ net' = SetQueries(net, [i \in DOMAIN net.queries |->
                                    [net.queries[i] EXCEPT !.size = k, !.buffer = Shrunk(@, k)]],
                             Lines(net.queries))
  BY Zenon DEF SetBufferCommand
<1>3. k \in Nat  BY SizesAssumption
<1>4. CASE net' = SetBufferCount(net, k)
  BY <1>1, <1>3, <1>4, Coming, SetBufferCountGood, NetCommand
<1>5. CASE net' # SetBufferCount(net, k)
  <2> DEFINE qs == net.queries
             rs == [i \in DOMAIN qs |-> [qs[i] EXCEPT !.size = k, !.buffer = Shrunk(@, k)]]
             t == SetQueries(net, rs, Lines(net.queries))
  <2>1. net' = t  BY <1>2, <1>5
  <2>2. qs \in Seq(Query)  BY Coming, NetFacts DEF Good
  <2> HIDE DEF qs
  <2>3. rs \in Seq(Query) /\ Len(rs) = Len(qs) /\ Lines(rs) \subseteq Lines(qs)
    BY <1>3, <2>2, ResizedQueries
  <2>4. Len(rs) = Len(net.queries) /\ Lines(rs) \subseteq Lines(net.queries)  BY <2>3 DEF qs
  <2> HIDE DEF rs
  <2>5. Good(t, lines, 1..lines) /\ (Fits(net) => Fits(t))  BY <2>3, <2>4, Coming, SetQueriesGood
  <2> HIDE DEF t
  <2> QED  BY <1>1, <2>1, <2>5, NetCommand
<1> QED  BY <1>4, <1>5

LEMMA SetAutoClearStep == ASSUME PlaybackInv, SetAutoClearCommand PROVE PlaybackInv'
<1> DEFINE a == ~net.auto
           q == ~net.autoQuery
           t == SetAutoClear(net, a)
           u == SetAutoClearQuery(net, q)
<1>1. UNCHANGED <<clients, away, mod, saved, lines>> /\ net' \in {t, u}
  BY DEF SetAutoClearCommand, Command
<1>2. a \in BOOLEAN /\ q \in BOOLEAN  OBVIOUS
<1> HIDE DEF a, q
<1>3. Good(t, lines, 1..lines) /\ (Fits(net) => Fits(t))  BY <1>2, Coming, SetAutoClearGood
<1>4. Good(u, lines, 1..lines) /\ (Fits(net) => Fits(u))  BY <1>2, Coming, SetAutoClearQueryGood
<1> HIDE DEF t, u
<1> QED  BY <1>1, <1>3, <1>4, NetCommand

LEMMA FloodCleanupStep == ASSUME PlaybackInv, FloodCleanup PROVE PlaybackInv'
<1> DEFINE t == FloodOver(net)
<1>1. UNCHANGED <<clients, away, mod, saved, lines>> /\ net' = t  BY DEF FloodCleanup
<1>2. Good(t, lines, 1..lines) /\ (Fits(net) => Fits(t))  BY Coming, FloodOverGood
<1> HIDE DEF t
<1> QED  BY <1>1, <1>2, NetCommand

LEMMA FloodForgetsStep == ASSUME PlaybackInv, FloodForgets PROVE PlaybackInv'
<1> DEFINE f == 0
           t == [net EXCEPT !.flood = f]
<1>1. UNCHANGED <<clients, away, mod, saved, lines>> /\ net' = t  BY DEF FloodForgets, Command
<1>2. f \in Nat /\ f <= FloodLines  BY LimitsAssumption
<1> HIDE DEF f
<1>3. Good(t, lines, 1..lines) /\ (Fits(net) => Fits(t))  BY <1>2, Coming, FloodGood
<1> HIDE DEF t
<1> QED  BY <1>1, <1>3, NetCommand

LEMMA NetStored ==
  ASSUME PlaybackInv PROVE Stored([buffer |-> net.buffer, queries |-> net.queries], lines)
<1> DEFINE v == [buffer |-> net.buffer, queries |-> net.queries]
<1>1. v.buffer = net.buffer /\ v.queries = net.queries  OBVIOUS
<1> HIDE DEF v
<1>2. net.buffer \in Seq(Nat) /\ net.queries \in Seq(Query)  BY Coming, NetFacts DEF Good
<1>3. Apart(Range(net.buffer), Lines(net.queries), {}, lines)  BY Coming DEF Good, Apart
<1>4. Few(net.queries)  BY Coming DEF Fits
<1>5. Stored(v, lines)  BY <1>1, <1>2, <1>3, <1>4, Zenon DEF Stored
<1> QED  BY <1>5 DEF v

LEMMA SaveBuffersStep == ASSUME PlaybackInv, SaveBuffers PROVE PlaybackInv'
<1> DEFINE v == [buffer |-> net.buffer, queries |-> net.queries]
<1>1. /\ clients' = clients /\ away' = away /\ mod' = mod /\ net' = net /\ lines' = lines
      /\ saved' = v
  BY DEF SaveBuffers
<1>2. Stored(v, lines)  BY NetStored
<1> HIDE DEF v
<1> QED  BY <1>1, <1>2 DEF PlaybackInv

LEMMA RestartStep == ASSUME PlaybackInv, Restart PROVE PlaybackInv'
<1> DEFINE v == [buffer |-> net.buffer, queries |-> net.queries]
           qs == saved'.queries
           rs == [i \in DOMAIN qs |-> [qs[i] EXCEPT !.size = DefaultSize, !.buffer = Shrunk(@, DefaultSize)]]
           b == Shrunk(saved'.buffer, net.size)
           W == Range(net.buffer) \cup Lines(net.queries) \cup Range(net.notices)
           lost == W \ (Range(b) \cup Lines(rs))
           g == [c \in Clients |-> {}]
           t == Dropped([net EXCEPT !.buffer = b, !.queries = rs, !.notices = <<>>, !.flood = 0,
                                    !.got = g], lost)
<1>1. /\ clients' = {} /\ away' = {} /\ mod' = mod /\ lines' = lines
      /\ saved' \in {saved, v}
      /\ net' = t
  BY DEF Restart, Command
<1>2. Stored(saved', lines)
  <2>1. Stored(saved, lines) /\ Stored(v, lines)  BY NetStored DEF PlaybackInv
  <2> QED  BY <1>1, <2>1
<1>3. net \in Nets /\ net.size \in Nat /\ DefaultSize \in Nat  BY Coming, NetFacts, SizesAssumption DEF Good
<1>4. qs \in Seq(Query) /\ Few(qs) /\ saved'.buffer \in Seq(Nat)
      /\ Apart(Range(saved'.buffer), Lines(qs), {}, lines)
  BY <1>2 DEF Stored
<1> HIDE DEF qs
<1>5. rs \in Seq(Query) /\ Len(rs) = Len(qs) /\ Lines(rs) \subseteq Lines(qs)
  BY <1>3, <1>4, ResizedQueries
<1>6. b \in Seq(Nat) /\ Len(b) <= net.size /\ Range(b) \subseteq Range(saved'.buffer)
  BY <1>3, <1>4, ShrunkFacts
<1> HIDE DEF rs, b
<1>7. W \in SUBSET Nat  BY <1>3, Waiting
<1>8. lost \in SUBSET Nat /\ W \subseteq lost \cup Range(b) \cup Lines(rs)  BY <1>7
<1>9. g \in [Clients -> SUBSET Nat] /\ \A c \in Clients : g[c] = {}  OBVIOUS
<1> HIDE DEF lost, g
<1>10. /\ t \in Nets /\ t.buffer = b /\ t.queries = rs /\ t.notices = <<>> /\ t.flood = 0 /\ t.got = g
       /\ t.gone = net.gone \cup lost /\ t.seen = net.seen /\ t.unheard = net.unheard
       /\ t.twice = net.twice /\ t.size = net.size
  BY <1>3, <1>5, <1>6, <1>8, <1>9, EmptyWaiting DEF Dropped, Nets
<1> HIDE DEF t
<1>11. Range(t.notices) = {}  BY <1>10, EmptyWaiting
<1>12. 1..lines \subseteq Held(t)
  <2>1. 1..lines \subseteq net.seen \cup net.gone \cup net.unheard \cup W  BY Coming DEF Good, Held
  <2> HIDE DEF W
  <2> QED  BY <1>8, <1>10, <2>1 DEF Held
<1>13. Apart(Range(t.buffer), Lines(t.queries), Range(t.notices), lines)
  BY <1>4, <1>5, <1>6, <1>10, <1>11 DEF Apart
<1>14. Unheard(Range(t.buffer), t.got, t.auto /\ t.autoQuery, lines)  BY <1>9, <1>10 DEF Unheard
<1>15. Good(t, lines, 1..lines)
  <2>1. ~t.twice  BY <1>10, Coming DEF Good
  <2> QED  BY <1>10, <1>12, <1>13, <1>14, <2>1 DEF Good
<1>16. Fits(t)
  <2>1. Len(b) <= net.size /\ Few(rs) /\ 0 <= FloodLines
    BY <1>4, <1>5, <1>6, LimitsAssumption DEF Few
  <2> QED  BY <1>10, <2>1 DEF Fits
<1> QED  BY <1>1, <1>2, <1>15, <1>16, Coming DEF PlaybackInv

LEMMA PlaybackNext == PlaybackInv /\ [Next]_vars => PlaybackInv'
<1> SUFFICES ASSUME PlaybackInv, [Next]_vars PROVE PlaybackInv'  OBVIOUS
<1>1. CASE UNCHANGED vars  BY <1>1 DEF vars, PlaybackInv
<1>2. ASSUME NEW c \in Clients, ByClient(c) PROVE PlaybackInv'
  BY <1>2, ClientMessageStep, ClientConnectedStep, ClientDisconnectedStep, ClientAwayStep,
     AttachStep, PlayBufferStep, ClearBuffersStep, SetBufferStep, Zenon DEF ByClient
<1> QED
  BY <1>1, <1>2, ChanMessageStep, PrivMessageStep, PrivNoticeStep, ExtraLineStep, SetAutoClearStep,
     FloodCleanupStep, FloodForgetsStep, SaveBuffersStep, RestartStep, Zenon DEF Next

LEMMA PlaybackMeans == PlaybackInv => NoLineLost
<1> SUFFICES ASSUME PlaybackInv PROVE NoLineLost  OBVIOUS
<1>1. net \in Nets /\ net.flood \in Nat /\ ~net.twice /\ 1..lines \subseteq Held(net)
      /\ Apart(Range(net.buffer), Lines(net.queries), Range(net.notices), lines)
  BY Coming, NetFacts DEF Good
<1>2. Kept /\ NotTwice  BY <1>1 DEF Kept, NotTwice, Held
<1>3. net.flood \in 0..FloodLines
  <2>1. net.flood <= FloodLines /\ FloodLines \in Nat  BY Coming, LimitsAssumption DEF Fits
  <2> QED  BY <1>1, <2>1
<1>4. Len(net.buffer) <= net.size /\ Few(net.queries)  BY Coming DEF Fits
<1>5. Range(net.buffer) \subseteq 1..lines  BY <1>1 DEF Apart
<1>6. TypeOK  BY <1>3, <1>4, <1>5, Zenon DEF TypeOK, PlaybackInv
<1> QED  BY <1>2, <1>6 DEF NoLineLost

\* Every line was sent to a client, waits in one of the buffers or was dropped for a reason, and
\* no client is sent one twice unasked, whatever the order in which clients come, go, are
\* away, attach and detach, buffers are resized and cleared, and ZNC restarts.
THEOREM PlaybackNoLineLost == Spec => []NoLineLost
<1>1. Spec => []PlaybackInv  BY PlaybackInit, PlaybackNext, PTL DEF Spec
<1> QED  BY <1>1, PlaybackMeans, PTL
-----------------------------------------------------------------------------
(* Web: the types of a world *)

\* The user of a session: one of U, or nobody that is logged in.
OrNobody(U) == U \cup {""}

Names == {"/", "/logout", "/login", "admin", "user"}
Ids == Wb!Ids
IdsOrNone == Ids \cup {Wb!None}
Sockets == [st : {"free", "auth", "body", "sent"}, ip : IPs, by : Browsers, cookie : IdsOrNone, sess : IdsOrNone,
            page : Names, post : BOOLEAN, basic : BOOLEAN, logged : BOOLEAN]
SessionRecs == [ip : IPs, user : OrNobody(Wb!Users)]
Worlds == [sock : [Socks -> Sockets], sess : [Ids -> SessionRecs], msp : SUBSET Ids,
           act : SUBSET (Ids \X Ids), jar : [Browsers -> IdsOrNone]]

\* Browser b has the cookie of session i, or a socket that may still show its pages.
Has(w, b, i) ==
  \/ w.jar[b] = i
  \/ \E s \in Socks : /\ w.sock[s].by = b
                      /\ w.sock[s].cookie = i \/ (w.sock[s].st # "sent" /\ w.sock[s].sess = i)

\* No session is shared by two browsers, and its user's password is known to the one that has it.
Private(w) == \A i \in Ids, b \in Browsers :
  Has(w, b, i) => /\ w.sess[i].user \in OrNobody(Wb!Knows(b))
                  /\ \A c \in Browsers : Has(w, c, i) => c = b

\* What refers to a session refers to one there is.
Counted(w) == /\ w.msp \subseteq Wb!Objects(w)
              /\ \A b \in Browsers : w.jar[b] \in Wb!Objects(w) \cup {Wb!None}
              /\ \A s \in Socks : /\ w.sock[s].cookie \in Wb!Objects(w) \cup {Wb!None}
                                  /\ w.sock[s].sess \in Wb!Objects(w) \cup {Wb!None}

\* The sessions that are found are those of users there are.
Living(w, l) == \A i \in w.msp : w.sess[i].user \in OrNobody(l)

WorldRight(w, l) == w \in Worlds /\ Private(w) /\ Counted(w) /\ Living(w, l)

FaultNames == {"none", "deleted", "null"}

WebInv == /\ WorldRight(Wb!World, live) /\ live \subseteq Wb!Users /\ shown = TRUE /\ fault \in FaultNames

LEMMA FirstFacts == Wb!First \in IPs /\ (CHOOSE b \in Browsers : TRUE) \in Browsers
  BY WebAssumption DEF Wb!First

LEMMA NoneFacts == Wb!None \notin Ids /\ Wb!Free \in Sockets /\ Wb!Free.cookie = Wb!None
                   /\ Wb!Free.sess = Wb!None /\ Wb!Free.st = "free"
<1>1. Wb!None \notin Ids  BY DEF Wb!None, Ids, Wb!Ids
<1> DEFINE b0 == CHOOSE b \in Browsers : TRUE
<1>2. b0 \in Browsers /\ Wb!First \in IPs  BY FirstFacts
<1>3. Wb!Free = [st |-> "free", ip |-> Wb!First, by |-> b0, cookie |-> Wb!None, sess |-> Wb!None,
                 page |-> "/", post |-> FALSE, basic |-> FALSE, logged |-> FALSE]
  BY DEF Wb!Free
<1> HIDE DEF b0
<1> QED  BY <1>1, <1>2, <1>3 DEF Sockets, IdsOrNone, Names

LEMMA NobodyFacts == \A U, x : x \in U => x \in OrNobody(U)
  BY DEF OrNobody

LEMMA PrivateKept ==
  ASSUME NEW w, NEW v, Private(w),
         \A i \in Ids, b \in Browsers :
           Has(v, b, i) => Has(w, b, i) /\ v.sess[i].user \in OrNobody({w.sess[i].user})
  PROVE  Private(v)
<1> SUFFICES ASSUME NEW i \in Ids, NEW b \in Browsers, Has(v, b, i)
             PROVE  /\ v.sess[i].user \in OrNobody(Wb!Knows(b))
                    /\ \A c \in Browsers : Has(v, c, i) => c = b
  BY DEF Private
<1>1. Has(w, b, i) /\ v.sess[i].user \in OrNobody({w.sess[i].user})  OBVIOUS
<1>2. w.sess[i].user \in OrNobody(Wb!Knows(b))  BY <1>1 DEF Private
<1>3. v.sess[i].user \in OrNobody(Wb!Knows(b))  BY <1>1, <1>2 DEF OrNobody
<1>4. ASSUME NEW c \in Browsers, Has(v, c, i) PROVE c = b  BY <1>1, <1>4 DEF Private
<1> QED  BY <1>3, <1>4

LEMMA PrivateSame ==
  ASSUME NEW w, NEW v, Private(w), v.sess = w.sess,
         \A i \in Ids, b \in Browsers : Has(v, b, i) => Has(w, b, i)
  PROVE  Private(v)
<1>1. \A i : v.sess[i].user \in OrNobody({w.sess[i].user})  BY NobodyFacts
<1> QED  BY <1>1, PrivateKept

\* The fields of a world after a change of one of them.
LEMMA WorldFields ==
  ASSUME NEW w \in Worlds
  PROVE  /\ w.sock \in [Socks -> Sockets] /\ w.sess \in [Ids -> SessionRecs] /\ w.msp \subseteq Ids
         /\ w.act \subseteq Ids \X Ids /\ w.jar \in [Browsers -> IdsOrNone]
  BY DEF Worlds

LEMMA SocketFields ==
  ASSUME NEW w \in Worlds, NEW s \in Socks
  PROVE  /\ w.sock[s] \in Sockets /\ w.sock[s].by \in Browsers /\ w.sock[s].ip \in IPs
         /\ w.sock[s].sess \in IdsOrNone /\ w.sock[s].cookie \in IdsOrNone
         /\ w.sock[s].st \in {"free", "auth", "body", "sent"}
  BY DEF Worlds, Sockets

LEMMA UpdatedFacts ==
  ASSUME NEW w \in Worlds, NEW i \in Ids, NEW v, v.act = Wb!Updated(w, i)
  PROVE  v.act \subseteq Ids \X Ids /\ Wb!Objects(v) = Wb!Objects(w) \cup {i}
<1>1. w.act \subseteq Ids \X Ids  BY DEF Worlds
<1>2. Wb!Objects(w) \subseteq Ids /\ Wb!Objects(v) \subseteq Ids  BY DEF Wb!Objects, Ids
<1>3. ASSUME NEW p \in v.act PROVE p \in Ids \X Ids
  BY <1>1, <1>2 DEF Wb!Updated
<1>4. ASSUME NEW j \in Ids PROVE <<j, j>> \in v.act <=> <<j, j>> \in w.act \/ j = i
  <2>1. <<j, j>>[1] = j /\ <<j, j>>[2] = j  OBVIOUS
  <2>2. CASE j = i
    <3>1. <<i, i>> \in {<<k, i>> : k \in Wb!Objects(w) \cup {i}}  OBVIOUS
    <3> QED  BY <2>2, <3>1 DEF Wb!Updated
  <2>3. CASE j # i
    <3>1. <<j, j>> \notin {<<k, i>> : k \in Wb!Objects(w) \cup {i}}  BY <2>3
    <3> QED  BY <2>1, <2>3, <3>1 DEF Wb!Updated
  <2> QED  BY <2>2, <2>3
<1> QED  BY <1>2, <1>3, <1>4 DEF Wb!Objects, Ids

\* GetSession finds a session, or makes one that nobody has yet.
LEMMA GetSessionFacts ==
  ASSUME NEW w, NEW l, WorldRight(w, l), NEW s \in Socks, Wb!CanMake(w, s)
  PROVE  LET v == Wb!GetSession(w, s)
         IN  /\ WorldRight(v, l) /\ v.sock[s].sess \in Ids
             /\ v.sock[s].by = w.sock[s].by /\ v.sock[s].st = w.sock[s].st
<1> DEFINE v == Wb!GetSession(w, s)
           k == w.sock[s]
<1>0. w \in Worlds /\ Private(w) /\ Counted(w) /\ Living(w, l)  BY DEF WorldRight
<1>1. k \in Sockets /\ k.by \in Browsers /\ k.ip \in IPs /\ k.sess \in IdsOrNone /\ k.cookie \in IdsOrNone
  BY <1>0, SocketFields
<1>2. CASE k.sess # Wb!None
  <2>1. v = w  BY <1>2 DEF Wb!GetSession
  <2> QED  BY <1>1, <1>2, <2>1 DEF IdsOrNone
<1>3. CASE k.sess = Wb!None /\ k.cookie \in w.msp
  <2> DEFINE i == k.cookie
             a == Wb!Updated(w, i)
             x == [k EXCEPT !.sess = i]
             so == [w.sock EXCEPT ![s] = x]
  <2>1. v = [w EXCEPT !.sock[s].sess = i, !.act = a]  BY <1>3 DEF Wb!GetSession
  <2>2. i \in Ids  BY <1>0, <1>3, WorldFields
  <2>3. x \in Sockets /\ x.sess = i /\ x.by = k.by /\ x.st = k.st /\ x.cookie = i
    BY <1>1, <2>2 DEF Sockets, IdsOrNone
  <2>4. v = [w EXCEPT !.sock = so, !.act = a]  BY <2>1, <1>0 DEF Worlds
  <2> HIDE DEF v, a, x, so, i
  <2>5. v.sock = so /\ v.act = a /\ v.sess = w.sess /\ v.msp = w.msp /\ v.jar = w.jar
    BY <2>4, <1>0 DEF Worlds
  <2>6. so \in [Socks -> Sockets] /\ so[s] = x /\ \A t \in Socks \ {s} : so[t] = w.sock[t]
    BY <2>3, <1>0, WorldFields DEF so
  <2>7. a \subseteq Ids \X Ids /\ Wb!Objects(v) = Wb!Objects(w) \cup {i}
    BY <1>0, <2>2, <2>5, UpdatedFacts DEF a
  <2>8. v \in Worlds  BY <1>0, <2>4, <2>6, <2>7 DEF Worlds
  <2>9. Private(v)
    <3>1. ASSUME NEW j \in Ids, NEW b \in Browsers, Has(v, b, j) PROVE Has(w, b, j)
      <4>1. k.cookie = i  BY DEF i
      <4> QED  BY <2>3, <2>5, <2>6, <3>1, <4>1 DEF Has
    <3> QED  BY <1>0, <2>5, <3>1, PrivateSame
  <2>10. Counted(v)
    <3>1. \A t \in Socks : v.sock[t].sess \in Wb!Objects(v) \cup {Wb!None}
      BY <1>0, <2>3, <2>5, <2>6, <2>7 DEF Counted
    <3>2. \A t \in Socks : v.sock[t].cookie = w.sock[t].cookie  BY <2>3, <2>5, <2>6 DEF i
    <3> QED  BY <1>0, <2>5, <2>7, <3>1, <3>2 DEF Counted
  <2>11. Living(v, l)  BY <1>0, <2>5 DEF Living
  <2> QED  BY <2>2, <2>3, <2>5, <2>6, <2>8, <2>9, <2>10, <2>11 DEF WorldRight, v
<1>4. CASE k.sess = Wb!None /\ k.cookie \notin w.msp
  <2> DEFINE i == CHOOSE j \in Ids : j \notin Wb!Objects(w)
             a == Wb!Updated(w, i)
             x == [k EXCEPT !.sess = i]
             so == [w.sock EXCEPT ![s] = x]
             y == [ip |-> k.ip, user |-> ""]
             se == [w.sess EXCEPT ![i] = y]
  <2>0. PICK drop : v = [w EXCEPT !.sock[s].sess = i, !.msp = (w.msp \ drop) \cup {i}, !.sess[i] = y,
                                  !.act = a]
    BY <1>4, Zenon DEF Wb!GetSession, Ids
  <2> DEFINE found == (w.msp \ drop) \cup {i}
  <2>1. v = [w EXCEPT !.sock[s].sess = i, !.msp = found, !.sess[i] = y, !.act = a]  BY <2>0
  <2>2. i \in Ids /\ i \notin Wb!Objects(w)
    <3>1. Wb!Objects(w) # Ids /\ Wb!Objects(w) \subseteq Ids  BY <1>4 DEF Wb!CanMake, Wb!Objects, Ids
    <3> QED  BY <3>1
  <2>3. x \in Sockets /\ x.sess = i /\ x.by = k.by /\ x.st = k.st /\ x.cookie = k.cookie
    BY <1>1, <2>2 DEF Sockets, IdsOrNone
  <2>4. y \in SessionRecs /\ y.user = ""  BY <1>1 DEF SessionRecs, OrNobody
  <2>17. \A U : y.user \in OrNobody(U)  BY <2>4 DEF OrNobody
  <2> HIDE DEF i, a, found, y
  <2>5. v = [w EXCEPT !.sock = so, !.msp = found, !.sess = se, !.act = a]  BY <2>1, <1>0 DEF Worlds
  <2> HIDE DEF v, x, so, se
  <2>6. v.sock = so /\ v.act = a /\ v.sess = se /\ v.msp = found /\ v.jar = w.jar
    BY <2>5, <1>0 DEF Worlds
  <2>7. so \in [Socks -> Sockets] /\ so[s] = x /\ \A t \in Socks \ {s} : so[t] = w.sock[t]
    BY <2>3, <1>0, WorldFields DEF so
  <2>8. se \in [Ids -> SessionRecs] /\ se[i] = y /\ \A j \in Ids \ {i} : se[j] = w.sess[j]
    BY <2>2, <2>4, <1>0, WorldFields DEF se
  <2>9. a \subseteq Ids \X Ids /\ Wb!Objects(v) = Wb!Objects(w) \cup {i}
    BY <1>0, <2>2, <2>6, UpdatedFacts DEF a
  <2>10. found \subseteq w.msp \cup {i}  BY DEF found
  <2>11. v \in Worlds
    <3>1. found \subseteq Ids  BY <2>2, <2>10, <1>0, WorldFields
    <3> QED  BY <1>0, <2>5, <2>7, <2>8, <2>9, <3>1 DEF Worlds
  <2>12. ASSUME NEW j \in Ids, NEW b \in Browsers, Has(v, b, j), j # i PROVE Has(w, b, j)
    BY <2>3, <2>6, <2>7, <2>12 DEF Has
  <2>13. ASSUME NEW b \in Browsers, Has(v, b, i) PROVE b = k.by
    <3>1. i # Wb!None  BY <2>2, NoneFacts
    <3>2. v.jar[b] # i  BY <1>0, <2>2, <2>6, <3>1 DEF Counted
    <3>3. \A t \in Socks : v.sock[t].cookie # i  BY <1>0, <2>2, <2>3, <2>6, <2>7, <3>1 DEF Counted
    <3>4. \A t \in Socks \ {s} : v.sock[t].sess # i  BY <1>0, <2>2, <2>6, <2>7, <3>1 DEF Counted
    <3> QED  BY <2>3, <2>6, <2>7, <2>13, <3>2, <3>3, <3>4 DEF Has
  <2>14. Private(v)
    <3> SUFFICES ASSUME NEW j \in Ids, NEW b \in Browsers, Has(v, b, j)
                 PROVE  /\ v.sess[j].user \in OrNobody(Wb!Knows(b))
                        /\ \A c \in Browsers : Has(v, c, j) => c = b
      BY DEF Private
    <3>1. CASE j = i
      BY <2>6, <2>8, <2>13, <2>17, <3>1
    <3>2. CASE j # i
      BY <1>0, <2>6, <2>8, <2>12, <3>2 DEF Private
    <3> QED  BY <3>1, <3>2
  <2>15. Counted(v)
    <3>1. \A t \in Socks : v.sock[t].sess \in Wb!Objects(v) \cup {Wb!None}
      BY <1>0, <2>3, <2>6, <2>7, <2>9 DEF Counted
    <3>2. \A t \in Socks : v.sock[t].cookie = w.sock[t].cookie  BY <2>3, <2>6, <2>7
    <3>3. v.msp \subseteq Wb!Objects(v)  BY <1>0, <2>6, <2>9, <2>10 DEF Counted
    <3> QED  BY <1>0, <2>6, <2>9, <3>1, <3>2, <3>3 DEF Counted
  <2>16. Living(v, l)
    <3> SUFFICES ASSUME NEW j \in v.msp PROVE v.sess[j].user \in OrNobody(l)  BY DEF Living
    <3>1. CASE j = i
      BY <2>6, <2>8, <2>17, <3>1
    <3>2. CASE j # i
      <4>1. j \in w.msp /\ j \in Ids  BY <2>6, <2>10, <3>2, <1>0, WorldFields
      <4> QED  BY <1>0, <2>6, <2>8, <3>2, <4>1 DEF Living
    <3> QED  BY <3>1, <3>2
  <2> QED  BY <2>2, <2>3, <2>6, <2>7, <2>11, <2>14, <2>15, <2>16 DEF WorldRight, v
<1> QED  BY <1>2, <1>3, <1>4

\* A socket or a browser that has no more sessions than before, with fields that say so.
LEMMA SockChanged ==
  ASSUME NEW w, NEW l, WorldRight(w, l), NEW s \in Socks, NEW x \in Sockets,
         x.cookie \in {w.sock[s].cookie, Wb!None}, x.sess \in {w.sock[s].sess, Wb!None},
         x.st # "sent" => \/ x.by = w.sock[s].by /\ w.sock[s].st # "sent"
                          \/ x.sess = Wb!None,
         x.cookie # Wb!None => x.by = w.sock[s].by
  PROVE  LET v == [w EXCEPT !.sock = [w.sock EXCEPT ![s] = x]]
         IN  WorldRight(v, l) /\ v.sock[s] = x /\ v.jar = w.jar /\ v.sess = w.sess /\ v.msp = w.msp
<1> DEFINE so == [w.sock EXCEPT ![s] = x]
           v == [w EXCEPT !.sock = so]
<1>0. w \in Worlds /\ Private(w) /\ Counted(w) /\ Living(w, l)  BY DEF WorldRight
<1>1. so \in [Socks -> Sockets] /\ so[s] = x /\ \A t \in Socks \ {s} : so[t] = w.sock[t]
  BY <1>0, WorldFields
<1> HIDE DEF so
<1>2. v \in Worlds /\ v.sock = so /\ v.jar = w.jar /\ v.sess = w.sess /\ v.msp = w.msp /\ v.act = w.act
  BY <1>0, <1>1 DEF Worlds
<1> HIDE DEF v
<1>3. ASSUME NEW i \in Ids, NEW b \in Browsers, Has(v, b, i) PROVE Has(w, b, i)
  <2>1. i # Wb!None  BY NoneFacts
  <2>2. CASE v.jar[b] = i
    BY <1>2, <2>2 DEF Has
  <2>3. CASE v.jar[b] # i
    <3>1. PICK t \in Socks : /\ v.sock[t].by = b
                             /\ v.sock[t].cookie = i \/ (v.sock[t].st # "sent" /\ v.sock[t].sess = i)
      BY <1>3, <2>3 DEF Has
    <3>2. CASE t # s
      <4>1. v.sock[t] = w.sock[t]  BY <1>1, <1>2, <3>2
      <4> QED  BY <3>1, <4>1 DEF Has
    <3>3. CASE t = s
      <4>1. v.sock[s] = x  BY <1>1, <1>2
      <4>2. w.sock[s].by = b /\ (w.sock[s].cookie = i \/ (w.sock[s].st # "sent" /\ w.sock[s].sess = i))
        BY <2>1, <3>1, <3>3, <4>1
      <4> QED  BY <4>2 DEF Has
    <3> QED  BY <3>2, <3>3
  <2> QED  BY <2>2, <2>3
<1>4. Private(v)  BY <1>0, <1>2, <1>3, PrivateSame
<1>5. Wb!Objects(v) = Wb!Objects(w)  BY <1>2 DEF Wb!Objects
<1>6. Counted(v)
  <2>1. \A t \in Socks : /\ v.sock[t].cookie \in Wb!Objects(v) \cup {Wb!None}
                         /\ v.sock[t].sess \in Wb!Objects(v) \cup {Wb!None}
    BY <1>0, <1>1, <1>2, <1>5 DEF Counted
  <2> QED  BY <1>0, <1>2, <1>5, <2>1 DEF Counted
<1>7. Living(v, l)  BY <1>0, <1>2 DEF Living
<1> QED  BY <1>1, <1>2, <1>4, <1>6, <1>7 DEF WorldRight, v, so

LEMMA StateSet ==
  ASSUME NEW w, NEW l, WorldRight(w, l), NEW s \in Socks, w.sock[s].st # "sent",
         NEW st \in {"auth", "body"}
  PROVE  LET v == [w EXCEPT !.sock[s].st = st]
         IN  WorldRight(v, l)
<1> DEFINE x == [w.sock[s] EXCEPT !.st = st]
<1>1. w \in Worlds /\ w.sock[s] \in Sockets  BY SocketFields DEF WorldRight
<1>2. /\ x \in Sockets /\ x.cookie = w.sock[s].cookie /\ x.sess = w.sock[s].sess
      /\ x.by = w.sock[s].by
  BY <1>1 DEF Sockets
<1>3. [w EXCEPT !.sock[s].st = st] = [w EXCEPT !.sock = [w.sock EXCEPT ![s] = x]]  BY <1>1 DEF Worlds
<1> HIDE DEF x
<1> QED  BY <1>2, <1>3, SockChanged

\* A socket whose header was sent, or that is closed, has no session of its own to show.
LEMMA FreedFacts ==
  ASSUME NEW w, NEW l, WorldRight(w, l), NEW s \in Socks
  PROVE  WorldRight(Wb!Sent(w, s), l) /\ WorldRight([w EXCEPT !.sock[s] = Wb!Free], l)
<1> DEFINE x == [Wb!Free EXCEPT !.st = "sent", !.sess = w.sock[s].sess]
           y == Wb!Free
<1>1. w \in Worlds /\ w.sock[s] \in Sockets /\ w.sock[s].sess \in IdsOrNone
  BY SocketFields DEF WorldRight
<1>2. x \in Sockets /\ x.cookie = Wb!None /\ x.sess = w.sock[s].sess /\ x.st = "sent"
  BY <1>1, NoneFacts DEF Sockets
<1>3. Wb!Sent(w, s) = [w EXCEPT !.sock = [w.sock EXCEPT ![s] = x]]  BY <1>1 DEF Wb!Sent, Worlds
<1>4. y \in Sockets /\ y.cookie = Wb!None /\ y.sess = Wb!None  BY NoneFacts
<1>5. [w EXCEPT !.sock[s] = y] = [w EXCEPT !.sock = [w.sock EXCEPT ![s] = y]]  BY <1>1 DEF Worlds
<1> HIDE DEF x, y
<1>6. WorldRight(Wb!Sent(w, s), l)  BY <1>2, <1>3, SockChanged
<1>7. WorldRight([w EXCEPT !.sock[s] = y], l)  BY <1>4, <1>5, SockChanged
<1> QED  BY <1>6, <1>7 DEF y

\* The cookie goes to the browser that asked.
LEMMA SendCookieFacts ==
  ASSUME NEW w, NEW l, WorldRight(w, l), NEW s \in Socks,
         NEW i, i = Wb!None \/ (i = w.sock[s].sess /\ w.sock[s].st # "sent")
  PROVE  LET v == Wb!SendCookie(w, s, i)
         IN  WorldRight(v, l) /\ v.sock = w.sock /\ v.sess = w.sess
<1> DEFINE b0 == w.sock[s].by
           j == [w.jar EXCEPT ![b0] = i]
           v == Wb!SendCookie(w, s, i)
<1>0. w \in Worlds /\ Private(w) /\ Counted(w) /\ Living(w, l)  BY DEF WorldRight
<1>1. b0 \in Browsers /\ w.sock[s].sess \in IdsOrNone  BY <1>0, SocketFields
<1>2. i \in IdsOrNone /\ i \in Wb!Objects(w) \cup {Wb!None}  BY <1>0, <1>1 DEF IdsOrNone, Counted
<1>3. v = [w EXCEPT !.jar = j]  BY <1>0 DEF Wb!SendCookie, Worlds
<1> HIDE DEF v, b0
<1>4. j \in [Browsers -> IdsOrNone] /\ j[b0] = i /\ \A b \in Browsers \ {b0} : j[b] = w.jar[b]
  BY <1>0, <1>1, <1>2, WorldFields
<1> HIDE DEF j
<1>5. v \in Worlds /\ v.jar = j /\ v.sock = w.sock /\ v.sess = w.sess /\ v.msp = w.msp /\ v.act = w.act
  BY <1>0, <1>3, <1>4 DEF Worlds
<1>6. ASSUME NEW h \in Ids, NEW b \in Browsers, Has(v, b, h) PROVE Has(w, b, h)
  <2>1. h # Wb!None  BY NoneFacts
  <2>2. CASE v.jar[b] = h
    <3>1. CASE b = b0
      <4>1. h = i /\ i = w.sock[s].sess /\ w.sock[s].st # "sent"  BY <1>4, <1>5, <2>1, <2>2, <3>1
      <4> QED  BY <3>1, <4>1 DEF Has, b0
    <3>2. CASE b # b0
      BY <1>4, <1>5, <2>2, <3>2 DEF Has
    <3> QED  BY <3>1, <3>2
  <2>3. CASE v.jar[b] # h
    BY <1>5, <1>6, <2>3 DEF Has
  <2> QED  BY <2>2, <2>3
<1>7. Private(v)  BY <1>0, <1>5, <1>6, PrivateSame
<1>8. Wb!Objects(v) = Wb!Objects(w)  BY <1>5 DEF Wb!Objects
<1>9. Counted(v)
  <2>1. \A b \in Browsers : v.jar[b] \in Wb!Objects(v) \cup {Wb!None}
    BY <1>0, <1>2, <1>4, <1>5, <1>8 DEF Counted
  <2> QED  BY <1>0, <1>5, <1>8, <2>1 DEF Counted
<1>10. Living(v, l)  BY <1>0, <1>5 DEF Living
<1> QED  BY <1>5, <1>7, <1>9, <1>10 DEF WorldRight, v

\* The one who logs in knows the password; the session is his alone.
LEMMA SetUserFacts ==
  ASSUME NEW w, NEW l, WorldRight(w, l), NEW s \in Socks, w.sock[s].sess \in Ids,
         w.sock[s].st # "sent",
         NEW u \in OrNobody(Wb!Users), u \in OrNobody(Wb!Knows(w.sock[s].by)), u \in OrNobody(l)
  PROVE  LET v == Wb!SetUser(w, s, u)
         IN  /\ WorldRight(v, l) /\ v.sock[s].sess = w.sock[s].sess
             /\ v.sock[s].by = w.sock[s].by /\ v.sock[s].st = w.sock[s].st
             /\ v.sock[s].cookie = w.sock[s].cookie
<1> DEFINE i == w.sock[s].sess
           y == [w.sess[i] EXCEPT !.user = u]
           se == [w.sess EXCEPT ![i] = y]
           z == [w EXCEPT !.sess = se]
           lg == (u # "")
           x == [w.sock[s] EXCEPT !.logged = lg]
           v == Wb!SetUser(w, s, u)
<1>0. w \in Worlds /\ Private(w) /\ Counted(w) /\ Living(w, l)  BY DEF WorldRight
<1>1. w.sock[s] \in Sockets /\ w.sock[s].by \in Browsers  BY <1>0, SocketFields
<1>2. i \in Ids /\ w.sess[i] \in SessionRecs  BY <1>0, WorldFields
<1>3. y \in SessionRecs /\ y.user = u  BY <1>2 DEF SessionRecs
<1>4. v = [z EXCEPT !.sock = [z.sock EXCEPT ![s] = x]]  BY <1>0 DEF Wb!SetUser, Worlds
<1> HIDE DEF v, y
<1>5. se \in [Ids -> SessionRecs] /\ se[i] = y /\ \A j \in Ids \ {i} : se[j] = w.sess[j]
  BY <1>0, <1>2, <1>3, WorldFields
<1> HIDE DEF se
<1>6. z \in Worlds /\ z.sess = se /\ z.sock = w.sock /\ z.msp = w.msp /\ z.act = w.act /\ z.jar = w.jar
  BY <1>0, <1>5 DEF Worlds
<1> HIDE DEF z
<1>7. Private(z)
  <2> SUFFICES ASSUME NEW j \in Ids, NEW b \in Browsers, Has(z, b, j)
               PROVE  /\ z.sess[j].user \in OrNobody(Wb!Knows(b))
                      /\ \A c \in Browsers : Has(z, c, j) => c = b
    BY DEF Private
  <2>1. Has(w, b, j) /\ \A c \in Browsers : Has(z, c, j) => Has(w, c, j)  BY <1>6 DEF Has
  <2>2. \A c \in Browsers : Has(z, c, j) => c = b  BY <1>0, <2>1 DEF Private
  <2>3. CASE j = i
    <3>1. Has(w, w.sock[s].by, i)  BY DEF Has
    <3>2. b = w.sock[s].by  BY <1>0, <1>1, <1>2, <2>1, <2>3, <3>1 DEF Private
    <3> QED  BY <1>3, <1>5, <1>6, <2>2, <2>3, <3>2
  <2>4. CASE j # i
    BY <1>0, <1>5, <1>6, <2>1, <2>2, <2>4 DEF Private
  <2> QED  BY <2>3, <2>4
<1>8. Wb!Objects(z) = Wb!Objects(w)  BY <1>6 DEF Wb!Objects
<1>9. Counted(z)  BY <1>0, <1>6, <1>8 DEF Counted
<1>10. Living(z, l)
  <2> SUFFICES ASSUME NEW j \in z.msp PROVE z.sess[j].user \in OrNobody(l)  BY DEF Living
  <2>1. j \in w.msp /\ j \in Ids  BY <1>0, <1>6, WorldFields
  <2>2. CASE j = i
    BY <1>3, <1>5, <1>6, <2>2
  <2>3. CASE j # i
    BY <1>0, <1>5, <1>6, <2>1, <2>3 DEF Living
  <2> QED  BY <2>2, <2>3
<1>11. WorldRight(z, l)  BY <1>6, <1>7, <1>9, <1>10 DEF WorldRight
<1>12. lg \in BOOLEAN  OBVIOUS
<1> HIDE DEF lg
<1>13. /\ x \in Sockets /\ x.cookie = w.sock[s].cookie /\ x.sess = i /\ x.by = w.sock[s].by
       /\ x.st = w.sock[s].st
  BY <1>1, <1>12 DEF Sockets
<1> HIDE DEF x
<1>14. /\ x.cookie = z.sock[s].cookie /\ x.sess = z.sock[s].sess /\ x.by = z.sock[s].by
       /\ z.sock[s].st # "sent"
  BY <1>6, <1>13
<1>15. WorldRight(v, l) /\ v.sock[s] = x
  <2> DEFINE q == [z EXCEPT !.sock = [z.sock EXCEPT ![s] = x]]
  <2>1. x \in Sockets  BY <1>13
  <2>2. WorldRight(q, l) /\ q.sock[s] = x  BY <1>11, <1>14, <2>1, SockChanged
  <2> QED  BY <1>4, <2>2
<1> QED  BY <1>13, <1>14, <1>15 DEF v

\* A session nobody refers to is gone with all that is known of it.
LEMMA CollectedFacts ==
  ASSUME NEW w, NEW l, WorldRight(w, l)
  PROVE  WorldRight(Wb!Collected(w), l)
<1> DEFINE c == Wb!Collected(w)
           a == {p \in w.act : \A i \in {p[1], p[2]} : i \in w.msp \/ Wb!Held(w, i)}
           se == [i \in Ids |-> IF i \in w.msp \/ Wb!Held(w, i) THEN w.sess[i] ELSE Wb!NoSession]
           j == [b \in Browsers |-> IF w.jar[b] \in w.msp THEN w.jar[b] ELSE Wb!None]
           so == [s \in Socks |-> IF w.sock[s].cookie \in w.msp THEN w.sock[s]
                                  ELSE [w.sock[s] EXCEPT !.cookie = Wb!None]]
<1>0. w \in Worlds /\ Private(w) /\ Counted(w) /\ Living(w, l)  BY DEF WorldRight
<1>1. c = [w EXCEPT !.act = a, !.sess = se, !.jar = j, !.sock = so]  BY DEF Wb!Collected, Ids
<1>2. a \subseteq Ids \X Ids /\ \A i \in Ids : <<i, i>> \in a <=> <<i, i>> \in w.act /\ (i \in w.msp \/ Wb!Held(w, i))
  BY <1>0, WorldFields
<1>3. se \in [Ids -> SessionRecs]
  <2>1. Wb!NoSession \in SessionRecs  BY FirstFacts DEF Wb!NoSession, SessionRecs, OrNobody
  <2> QED  BY <1>0, <2>1, WorldFields
<1>4. \A i \in Ids : se[i].user \in OrNobody({w.sess[i].user}) /\ (i \in w.msp => se[i] = w.sess[i])
  <2>1. Wb!NoSession.user = ""  BY DEF Wb!NoSession
  <2>2. \A U : Wb!NoSession.user \in OrNobody(U)  BY <2>1 DEF OrNobody
  <2> QED  BY <2>2, NobodyFacts
<1>5. /\ j \in [Browsers -> IdsOrNone]
      /\ \A b \in Browsers : j[b] = Wb!None \/ (j[b] = w.jar[b] /\ j[b] \in w.msp)
  BY <1>0, WorldFields DEF IdsOrNone
<1>6. /\ so \in [Socks -> Sockets]
      /\ \A s \in Socks : /\ so[s].by = w.sock[s].by /\ so[s].st = w.sock[s].st /\ so[s].sess = w.sock[s].sess
                          /\ so[s].cookie = Wb!None \/ (so[s].cookie = w.sock[s].cookie /\ so[s].cookie \in w.msp)
  <2>1. ASSUME NEW s \in Socks
        PROVE  /\ so[s] \in Sockets /\ so[s].by = w.sock[s].by /\ so[s].st = w.sock[s].st /\ so[s].sess = w.sock[s].sess
               /\ so[s].cookie = Wb!None \/ (so[s].cookie = w.sock[s].cookie /\ so[s].cookie \in w.msp)
    <3> DEFINE x == w.sock[s]
               y == [x EXCEPT !.cookie = Wb!None]
    <3>1. x \in Sockets  BY <1>0, SocketFields
    <3>2. y \in Sockets /\ y.cookie = Wb!None /\ y.by = x.by /\ y.st = x.st /\ y.sess = x.sess
      BY <3>1 DEF Sockets, IdsOrNone
    <3>3. so[s] = IF x.cookie \in w.msp THEN x ELSE y  OBVIOUS
    <3> HIDE DEF so, x, y
    <3>4. so[s] \in Sockets /\ so[s].by = x.by /\ so[s].st = x.st /\ so[s].sess = x.sess
          /\ (so[s].cookie = Wb!None \/ (so[s].cookie = x.cookie /\ so[s].cookie \in w.msp))
      BY <3>1, <3>2, <3>3
    <3> QED  BY <3>4 DEF x
  <2> QED  BY <2>1
<1> HIDE DEF c, a, se, j, so
<1>7. /\ c \in Worlds /\ c.act = a /\ c.sess = se /\ c.jar = j /\ c.sock = so /\ c.msp = w.msp
  BY <1>0, <1>1, <1>2, <1>3, <1>5, <1>6 DEF Worlds
<1>8. ASSUME NEW i \in Ids, NEW b \in Browsers, Has(c, b, i) PROVE Has(w, b, i)
  <2>1. i # Wb!None  BY NoneFacts
  <2>2. CASE c.jar[b] = i
    BY <1>5, <1>7, <2>1, <2>2 DEF Has
  <2>3. CASE c.jar[b] # i
    <3>1. PICK s \in Socks : /\ c.sock[s].by = b
                             /\ c.sock[s].cookie = i \/ (c.sock[s].st # "sent" /\ c.sock[s].sess = i)
      BY <1>8, <2>3 DEF Has
    <3>2. w.sock[s].by = b /\ (w.sock[s].cookie = i \/ (w.sock[s].st # "sent" /\ w.sock[s].sess = i))
      BY <1>6, <1>7, <2>1, <3>1
    <3> QED  BY <3>2 DEF Has
  <2> QED  BY <2>2, <2>3
<1>9. Private(c)
  <2>1. \A i \in Ids : c.sess[i].user \in OrNobody({w.sess[i].user})  BY <1>4, <1>7
  <2> QED  BY <1>0, <1>8, <2>1, PrivateKept
<1>10. \A i \in Ids : i \in Wb!Objects(c) <=> i \in Wb!Objects(w) /\ (i \in w.msp \/ Wb!Held(w, i))
  BY <1>2, <1>7 DEF Wb!Objects, Ids
<1>11. Counted(c)
  <2>1. \A i \in w.msp : i \in Wb!Objects(c)  BY <1>0, <1>10, WorldFields DEF Counted
  <2>2. ASSUME NEW s \in Socks PROVE w.sock[s].sess \in Wb!Objects(c) \cup {Wb!None}
    <3>1. w.sock[s].sess \in IdsOrNone /\ w.sock[s].sess \in Wb!Objects(w) \cup {Wb!None}
      BY <1>0, SocketFields DEF Counted
    <3>2. Wb!Held(w, w.sock[s].sess)  BY DEF Wb!Held
    <3> QED  BY <1>10, <3>1, <3>2 DEF IdsOrNone
  <2>3. \A s \in Socks : c.sock[s].cookie \in Wb!Objects(c) \cup {Wb!None}  BY <1>6, <1>7, <2>1
  <2>4. \A s \in Socks : c.sock[s].sess \in Wb!Objects(c) \cup {Wb!None}  BY <1>6, <1>7, <2>2
  <2>5. \A b \in Browsers : c.jar[b] \in Wb!Objects(c) \cup {Wb!None}  BY <1>5, <1>7, <2>1
  <2> QED  BY <1>7, <2>1, <2>3, <2>4, <2>5 DEF Counted
<1>12. Living(c, l)
  <2>1. \A i \in w.msp : c.sess[i] = w.sess[i]  BY <1>0, <1>4, <1>7, WorldFields
  <2> QED  BY <1>0, <1>7, <2>1 DEF Living
<1> QED  BY <1>7, <1>9, <1>11, <1>12 DEF WorldRight, c

LEMMA BecomesKeeps ==
  ASSUME NEW w, NEW l, WorldRight(w, l), Wb!Becomes(w)
  PROVE  WorldRight(Wb!World', l)
<1> DEFINE c == Wb!Collected(w)
<1>1. WorldRight(c, l)  BY CollectedFacts
<1>2. sock' = c.sock /\ sess' = c.sess /\ msp' = c.msp /\ act' = c.act /\ jar' = c.jar
  BY DEF Wb!Becomes
<1> HIDE DEF c
<1>3. c \in Worlds  BY <1>1 DEF WorldRight
<1>4. Wb!World' = [sock |-> c.sock, sess |-> c.sess, msp |-> c.msp, act |-> c.act, jar |-> c.jar]
  BY <1>2 DEF Wb!World
<1>5. c = [sock |-> c.sock, sess |-> c.sess, msp |-> c.msp, act |-> c.act, jar |-> c.jar]
  BY <1>3 DEF Worlds
<1> QED  BY <1>1, <1>4, <1>5

\* Sessions leave the map; the users there are may change with that.
LEMMA MapShrinks ==
  ASSUME NEW w, NEW l, WorldRight(w, l), NEW k, NEW d \in SUBSET w.msp,
         \A i \in d : w.sess[i].user \in OrNobody(k)
  PROVE  WorldRight([w EXCEPT !.msp = d], k)
<1> DEFINE v == [w EXCEPT !.msp = d]
<1>0. w \in Worlds /\ Private(w) /\ Counted(w)  BY DEF WorldRight
<1>1. w.msp \subseteq Ids  BY <1>0, WorldFields
<1>2. /\ v \in Worlds /\ v.msp = d /\ v.sock = w.sock /\ v.sess = w.sess /\ v.act = w.act /\ v.jar = w.jar
  BY <1>0, <1>1 DEF Worlds
<1> HIDE DEF v
<1>3. \A i \in Ids, b \in Browsers : Has(v, b, i) => Has(w, b, i)  BY <1>2 DEF Has
<1>4. Private(v)  BY <1>0, <1>2, <1>3, PrivateSame
<1>5. Wb!Objects(v) = Wb!Objects(w)  BY <1>2 DEF Wb!Objects
<1>6. Counted(v)  BY <1>0, <1>2, <1>5 DEF Counted
<1>7. Living(v, k)  BY <1>2 DEF Living
<1> QED  BY <1>2, <1>4, <1>6, <1>7 DEF WorldRight, v

\* What every action but the deletion of a user has to show.
WebSame == live' = live /\ shown' = TRUE /\ fault' \in FaultNames

LEMMA QuietKeeps ==
  ASSUME WebInv, NEW w, WorldRight(w, live), Wb!Becomes(w), WebSame
  PROVE  WebInv'
<1>1. WorldRight(Wb!World', live)  BY BecomesKeeps
<1>2. WorldRight(Wb!World', live')  BY <1>1 DEF WebSame
<1> QED  BY <1>2 DEF WebInv, WebSame

LEMMA SameKeeps ==
  ASSUME WebInv, UNCHANGED <<sock, sess, msp, act, jar>>, WebSame
  PROVE  WebInv'
<1>1. Wb!World' = Wb!World  BY DEF Wb!World
<1>2. WorldRight(Wb!World', live')  BY <1>1 DEF WebInv, WebSame
<1> QED  BY <1>2 DEF WebInv, WebSame

\* The page of a session is shown to the browser that has it.
LEMMA OnPageRequestKeeps ==
  ASSUME WebInv, NEW w, WorldRight(w, live), NEW s \in Socks, w.sock[s].sess \in Ids, w.sock[s].st # "sent",
         NEW csrf, Wb!OnPageRequest(w, s, csrf)
  PROVE  WebInv'
<1> DEFINE k == w.sock[s]
           c == Wb!SendCookie(w, s, k.sess)
           n == Wb!SendCookie(w, s, Wb!None)
<1>0. w \in Worlds /\ Private(w) /\ k \in Sockets /\ k.by \in Browsers  BY SocketFields DEF WorldRight
<1>1. WorldRight(c, live) /\ c.sock = w.sock /\ c.sess = w.sess  BY SendCookieFacts
<1>2. WorldRight(n, live)  BY SendCookieFacts
<1>3. Wb!UserOf(w, s) \in OrNobody(Wb!Knows(k.by))
  <2>1. Has(w, k.by, k.sess)  BY DEF Has
  <2> QED  BY <1>0, <2>1 DEF Private, Wb!UserOf
<1>4. CASE Wb!WrongIP(w, s)
  <2>1. Wb!Becomes(Wb!Sent(n, s)) /\ Wb!Quiet  BY <1>4, Zenon DEF Wb!OnPageRequest
  <2>2. WebSame  BY <2>1 DEF Wb!Quiet, WebSame, WebInv
  <2> HIDE DEF n
  <2>3. WorldRight(Wb!Sent(n, s), live)  BY <1>2, FreedFacts
  <2> QED  BY <2>1, <2>2, <2>3, QuietKeeps
<1>5. CASE ~Wb!WrongIP(w, s) /\ Wb!UserOf(w, s) \notin live \union {""}
  <2>1. Wb!Faults("deleted") /\ UNCHANGED live  BY <1>5, Zenon DEF Wb!OnPageRequest
  <2>2. WebSame /\ UNCHANGED <<sock, sess, msp, act, jar>>
    BY <2>1 DEF Wb!Faults, WebSame, WebInv, FaultNames
  <2> QED  BY <2>2, SameKeeps
<1>7. CASE /\ ~Wb!WrongIP(w, s) /\ Wb!UserOf(w, s) \in live \union {""}
           /\ k.logged /\ Wb!UserOf(w, s) = ""
  <2>1. Wb!Faults("null") /\ UNCHANGED live  BY <1>7, Zenon DEF Wb!OnPageRequest
  <2>2. WebSame /\ UNCHANGED <<sock, sess, msp, act, jar>>
    BY <2>1 DEF Wb!Faults, WebSame, WebInv, FaultNames
  <2> QED  BY <2>2, SameKeeps
<1>6. CASE /\ ~Wb!WrongIP(w, s) /\ Wb!UserOf(w, s) \in live \union {""}
           /\ ~(k.logged /\ Wb!UserOf(w, s) = "")
  <2>0. CASE k.page # "/logout" /\ k.page # "/login"
    <3>1. Wb!Becomes(Wb!Sent(c, s)) /\ live' = live /\ fault' = fault
          /\ shown' = (shown /\ (~Wb!BadToken(w, s, csrf) /\ Wb!MaySee(w, s) =>
                                   Wb!UserOf(w, s) \in OrNobody(Wb!Knows(k.by))))
      BY <1>6, <2>0, Zenon DEF Wb!OnPageRequest, OrNobody
    <3>2. WebSame  BY <1>3, <3>1 DEF WebSame, WebInv
    <3> HIDE DEF c
    <3>3. WorldRight(Wb!Sent(c, s), live)  BY <1>1, FreedFacts
    <3> QED  BY <3>1, <3>2, <3>3, QuietKeeps
  <2>1. CASE k.page = "/logout"
    <3> DEFINE q == Wb!SetUser(c, s, "")
    <3>1. Wb!Becomes(Wb!Sent(q, s)) /\ Wb!Quiet  BY <1>6, <2>1, Zenon DEF Wb!OnPageRequest
    <3>2. WebSame  BY <3>1 DEF Wb!Quiet, WebSame, WebInv
    <3> HIDE DEF c
    <3>3. WorldRight(q, live)
      <4> DEFINE u == ""
      <4>1. \A U : u \in OrNobody(U)  BY DEF OrNobody
      <4> HIDE DEF u
      <4>2. c.sock[s].sess \in Ids /\ c.sock[s].st # "sent"  BY <1>1
      <4>3. WorldRight(Wb!SetUser(c, s, u), live)  BY <1>1, <4>1, <4>2, SetUserFacts
      <4> QED  BY <4>3, Zenon DEF u
    <3> HIDE DEF q
    <3>4. WorldRight(Wb!Sent(q, s), live)  BY <3>3, FreedFacts
    <3> QED  BY <3>1, <3>2, <3>4, QuietKeeps
  <2>2. CASE k.page = "/login"
    <3> DEFINE q == [c EXCEPT !.sock[s].st = "auth"]
    <3>0. "/login" # "/logout"  OBVIOUS
    <3>1. Wb!Becomes(q) /\ Wb!Quiet  BY <1>6, <2>2, <3>0, Zenon DEF Wb!OnPageRequest
    <3>2. WebSame  BY <3>1 DEF Wb!Quiet, WebSame, WebInv
    <3> HIDE DEF c
    <3>3. WorldRight(q, live)  BY <1>1, StateSet
    <3> QED  BY <3>1, <3>2, <3>3, QuietKeeps
  <2> QED  BY <2>0, <2>1, <2>2
<1> QED  BY <1>4, <1>5, <1>6, <1>7

LEMMA EndOfHeaderKeeps ==
  ASSUME WebInv, NEW w, WorldRight(w, live), NEW s \in Socks, w.sock[s].st # "sent", Wb!CanMake(w, s),
         Wb!EndOfHeader(w, s)
  PROVE  WebInv'
<1> DEFINE k == w.sock[s]
<1>1. CASE k.basic /\ ~k.logged
  <2> DEFINE q == [w EXCEPT !.sock[s].st = "auth"]
  <2>1. Wb!Becomes(q) /\ Wb!Quiet  BY <1>1, Zenon DEF Wb!EndOfHeader
  <2>2. WebSame  BY <2>1 DEF Wb!Quiet, WebSame, WebInv
  <2>3. WorldRight(q, live)  BY StateSet
  <2> QED  BY <2>1, <2>2, <2>3, QuietKeeps
<1>2. CASE ~(k.basic /\ ~k.logged) /\ k.post /\ (~k.basic \/ k.logged)
  <2> DEFINE q == [w EXCEPT !.sock[s].st = "body"]
  <2>1. Wb!Becomes(q) /\ Wb!Quiet  BY <1>2, Zenon DEF Wb!EndOfHeader
  <2>2. WebSame  BY <2>1 DEF Wb!Quiet, WebSame, WebInv
  <2>3. WorldRight(q, live)  BY StateSet
  <2> QED  BY <2>1, <2>2, <2>3, QuietKeeps
<1>3. CASE ~(k.basic /\ ~k.logged) /\ ~(k.post /\ (~k.basic \/ k.logged))
  <2> DEFINE g == Wb!GetSession(w, s)
  <2>1. Wb!OnPageRequest(g, s, FALSE)  BY <1>3, Zenon DEF Wb!EndOfHeader
  <2>2. WorldRight(g, live) /\ g.sock[s].sess \in Ids /\ g.sock[s].st = w.sock[s].st
    BY GetSessionFacts
  <2> HIDE DEF g
  <2> QED  BY <2>1, <2>2, OnPageRequestKeeps
<1> QED  BY <1>1, <1>2, <1>3

LEMMA RequestFacts ==
  ASSUME NEW r \in Wb!Requests
  PROVE  /\ r[1] \in Browsers /\ r[2] \in IPs
         /\ r[3].page \in Names /\ r[3].post \in BOOLEAN /\ r[3].basic \in BOOLEAN
<1> DEFINE Records == [page : Names, post : BOOLEAN, basic : BOOLEAN]
<1>1. Wb!Pages \cup Wb!BasicPages \subseteq Records /\ {Wb!Login, Wb!Page("user", FALSE, FALSE)} \subseteq Records
  BY DEF Wb!Pages, Wb!BasicPages, Wb!Login, Wb!Page, Names
<1>2. PICK b \in Browsers : r \in {b} \X IPs \X Records
  <2>1. PICK b \in Browsers :
          \/ r \in {b} \X {Wb!First} \X Wb!Pages
          \/ r \in {b} \X {Wb!First} \X (Wb!Pages \cup Wb!BasicPages)
          \/ r \in {b} \X IPs \X {Wb!Login, Wb!Page("user", FALSE, FALSE)}
    BY DEF Wb!Requests
  <2> HIDE DEF Records
  <2>2. r \in {b} \X IPs \X Records  BY <1>1, <2>1, FirstFacts
  <2> QED  BY <2>2
<1>3. r[3] \in Records /\ r[1] \in Browsers /\ r[2] \in IPs  BY <1>2
<1> QED  BY <1>3

\* The cookie a browser sends is one it has.
LEMMA ReadFacts ==
  ASSUME NEW w, NEW l, WorldRight(w, l), NEW s \in Socks, NEW x \in Sockets,
         x.cookie = w.jar[x.by], x.sess = Wb!None
  PROVE  LET v == [w EXCEPT !.sock[s] = x]
         IN  WorldRight(v, l) /\ v.sock[s] = x
<1> DEFINE so == [w.sock EXCEPT ![s] = x]
           v == [w EXCEPT !.sock = so]
<1>0. w \in Worlds /\ Private(w) /\ Counted(w) /\ Living(w, l)  BY DEF WorldRight
<1>1. so \in [Socks -> Sockets] /\ so[s] = x /\ \A t \in Socks \ {s} : so[t] = w.sock[t]
  BY <1>0, WorldFields
<1> HIDE DEF so
<1>2. v \in Worlds /\ v.sock = so /\ v.jar = w.jar /\ v.sess = w.sess /\ v.msp = w.msp /\ v.act = w.act
  BY <1>0, <1>1 DEF Worlds
<1>3. [w EXCEPT !.sock[s] = x] = v  BY <1>0 DEF Worlds, so
<1> HIDE DEF v
<1>4. ASSUME NEW i \in Ids, NEW b \in Browsers, Has(v, b, i) PROVE Has(w, b, i)
  <2>1. i # Wb!None  BY NoneFacts
  <2>2. CASE v.jar[b] = i
    BY <1>2, <2>2 DEF Has
  <2>3. CASE v.jar[b] # i
    <3>1. PICK t \in Socks : /\ v.sock[t].by = b
                             /\ v.sock[t].cookie = i \/ (v.sock[t].st # "sent" /\ v.sock[t].sess = i)
      BY <1>4, <2>3 DEF Has
    <3>2. CASE t # s
      <4>1. v.sock[t] = w.sock[t]  BY <1>1, <1>2, <3>2
      <4> QED  BY <3>1, <4>1 DEF Has
    <3>3. CASE t = s
      BY <1>1, <1>2, <2>1, <2>3, <3>1, <3>3
    <3> QED  BY <3>2, <3>3
  <2> QED  BY <2>2, <2>3
<1>5. Private(v)  BY <1>0, <1>2, <1>4, PrivateSame
<1>6. Wb!Objects(v) = Wb!Objects(w)  BY <1>2 DEF Wb!Objects
<1>7. Counted(v)
  <2>1. x.by \in Browsers  BY DEF Sockets
  <2>2. \A t \in Socks : /\ v.sock[t].cookie \in Wb!Objects(v) \cup {Wb!None}
                         /\ v.sock[t].sess \in Wb!Objects(v) \cup {Wb!None}
    BY <1>0, <1>1, <1>2, <1>6, <2>1 DEF Counted
  <2> QED  BY <1>0, <1>2, <1>6, <2>2 DEF Counted
<1>8. Living(v, l)  BY <1>0, <1>2 DEF Living
<1> QED  BY <1>1, <1>2, <1>3, <1>5, <1>7, <1>8 DEF WorldRight

LEMMA WebReadLine == WebInv /\ Wb!ReadLine => WebInv'
<1> SUFFICES ASSUME WebInv, Wb!ReadLine PROVE WebInv'  OBVIOUS
<1> DEFINE W0 == Wb!World
<1>0. WorldRight(W0, live) /\ W0.sock = sock /\ W0.jar = jar /\ W0 \in Worlds
  BY DEF WebInv, Wb!World, WorldRight
<1>1. PICK s \in Socks, r \in Wb!Requests :
        LET w == [W0 EXCEPT !.sock[s] = [Wb!Free EXCEPT !.by = r[1], !.ip = r[2], !.cookie = jar[r[1]],
                            !.page = r[3].page, !.post = r[3].post, !.basic = r[3].basic]]
        IN  Wb!CanMake(w, s) /\ Wb!EndOfHeader(w, s)
  BY Zenon DEF Wb!ReadLine
<1>2. /\ r[1] \in Browsers /\ r[2] \in IPs
      /\ r[3].page \in Names /\ r[3].post \in BOOLEAN /\ r[3].basic \in BOOLEAN
  BY RequestFacts
<1> DEFINE x == [Wb!Free EXCEPT !.by = r[1], !.ip = r[2], !.cookie = jar[r[1]],
                            !.page = r[3].page, !.post = r[3].post, !.basic = r[3].basic]
           w == [W0 EXCEPT !.sock[s] = x]
<1>3. Wb!CanMake(w, s) /\ Wb!EndOfHeader(w, s)  BY <1>1
<1>4. jar[r[1]] \in IdsOrNone  BY <1>0, <1>2, WorldFields
<1>5. x \in Sockets /\ x.by = r[1] /\ x.cookie = jar[r[1]] /\ x.sess = Wb!None /\ x.st = "free"
  BY <1>2, <1>4, NoneFacts DEF Sockets
<1> HIDE DEF x, W0
<1>6. WorldRight(w, live) /\ w.sock[s] = x  BY <1>0, <1>5, ReadFacts
<1>7. w.sock[s].st # "sent"  BY <1>5, <1>6
<1> HIDE DEF w
<1> QED  BY <1>3, <1>6, <1>7, EndOfHeaderKeeps

LEMMA WebCheckPost == WebInv /\ Wb!CheckPost => WebInv'
<1> SUFFICES ASSUME WebInv, Wb!CheckPost PROVE WebInv'  OBVIOUS
<1> DEFINE W0 == Wb!World
<1>0. WorldRight(W0, live) /\ W0.sock = sock  BY DEF WebInv, Wb!World
<1>1. PICK s \in Socks, csrf \in BOOLEAN :
        sock[s].st = "body" /\ Wb!CanMake(W0, s) /\ Wb!OnPageRequest(Wb!GetSession(W0, s), s, csrf)
  BY Zenon DEF Wb!CheckPost
<1> DEFINE g == Wb!GetSession(W0, s)
<1> HIDE DEF W0
<1>2. WorldRight(g, live) /\ g.sock[s].sess \in Ids /\ g.sock[s].st = W0.sock[s].st
  BY <1>0, <1>1, GetSessionFacts
<1>3. Wb!OnPageRequest(g, s, csrf) /\ g.sock[s].st # "sent"  BY <1>0, <1>1, <1>2
<1> HIDE DEF g
<1> QED  BY <1>2, <1>3, OnPageRequestKeeps

LEMMA WebAcceptedLogin == WebInv /\ Wb!AcceptedLogin => WebInv'
<1> SUFFICES ASSUME WebInv, Wb!AcceptedLogin PROVE WebInv'  OBVIOUS
<1> DEFINE W0 == Wb!World
<1>0. WorldRight(W0, live) /\ W0.sock = sock  BY DEF WebInv, Wb!World
<1>1. PICK s \in Socks : \E u \in Wb!Knows(sock[s].by) \intersect live :
        LET w == Wb!SetUser(Wb!GetSession(W0, s), s, u)
        IN  /\ sock[s].st = "auth" /\ Wb!CanMake(W0, s)
            /\ IF sock[s].basic THEN Wb!EndOfHeader(w, s)
               ELSE Wb!Becomes(Wb!Sent(w, s)) /\ Wb!Quiet
  BY Zenon DEF Wb!AcceptedLogin
<1>2. PICK u \in Wb!Knows(sock[s].by) \intersect live :
        LET w == Wb!SetUser(Wb!GetSession(W0, s), s, u)
        IN  /\ sock[s].st = "auth" /\ Wb!CanMake(W0, s)
            /\ IF sock[s].basic THEN Wb!EndOfHeader(w, s)
               ELSE Wb!Becomes(Wb!Sent(w, s)) /\ Wb!Quiet
  BY <1>1, Zenon
<1> DEFINE g == Wb!GetSession(W0, s)
           w == Wb!SetUser(g, s, u)
<1>3. /\ sock[s].st = "auth" /\ Wb!CanMake(W0, s)
      /\ IF sock[s].basic THEN Wb!EndOfHeader(w, s) ELSE Wb!Becomes(Wb!Sent(w, s)) /\ Wb!Quiet
  BY <1>2, Zenon
<1> HIDE DEF W0
<1>4. WorldRight(g, live) /\ g.sock[s].sess \in Ids /\ g.sock[s].st = W0.sock[s].st /\ g.sock[s].by = W0.sock[s].by
  BY <1>0, <1>3, GetSessionFacts
<1> HIDE DEF g
<1>5. g.sock[s].st # "sent"  BY <1>0, <1>3, <1>4
<1>6. u \in OrNobody(Wb!Users) /\ u \in OrNobody(Wb!Knows(g.sock[s].by)) /\ u \in OrNobody(live)
  <2>1. u \in Wb!Users /\ u \in live  BY DEF WebInv
  <2>2. u \in Wb!Knows(g.sock[s].by)  BY <1>0, <1>4
  <2> QED  BY <2>1, <2>2, NobodyFacts
<1>7. WorldRight(w, live) /\ w.sock[s].sess \in Ids /\ w.sock[s].st # "sent"
  BY <1>4, <1>5, <1>6, SetUserFacts
<1> HIDE DEF w
<1>8. Wb!CanMake(w, s)  BY <1>7, NoneFacts DEF Wb!CanMake
<1>9. CASE Wb!EndOfHeader(w, s)
  BY <1>7, <1>8, <1>9, EndOfHeaderKeeps
<1>10. CASE Wb!Becomes(Wb!Sent(w, s)) /\ Wb!Quiet
  <2>1. WebSame  BY <1>10 DEF Wb!Quiet, WebSame, WebInv
  <2>2. WorldRight(Wb!Sent(w, s), live)  BY <1>7, FreedFacts
  <2> QED  BY <1>10, <2>1, <2>2, QuietKeeps
<1> QED  BY <1>3, <1>9, <1>10

LEMMA WebRefusedLogin == WebInv /\ Wb!RefusedLogin => WebInv'
<1> SUFFICES ASSUME WebInv, Wb!RefusedLogin PROVE WebInv'  OBVIOUS
<1> DEFINE W0 == Wb!World
<1>0. WorldRight(W0, live) /\ W0.sock = sock  BY DEF WebInv, Wb!World
<1>1. PICK s \in Socks : /\ sock[s].st = "auth" /\ Wb!CanMake(W0, s)
                         /\ Wb!Becomes(Wb!Refused(Wb!GetSession(W0, s), s)) /\ Wb!Quiet
  BY Zenon DEF Wb!RefusedLogin
<1> DEFINE g == Wb!GetSession(W0, s)
           u == ""
           w == Wb!SetUser(g, s, u)
<1>2. Wb!Becomes(Wb!Sent(w, s)) /\ Wb!Quiet  BY <1>1, Zenon DEF Wb!Refused
<1>3. \A U : u \in OrNobody(U)  BY DEF OrNobody
<1> HIDE DEF W0, u
<1>4. WorldRight(g, live) /\ g.sock[s].sess \in Ids /\ g.sock[s].st = W0.sock[s].st
  BY <1>0, <1>1, GetSessionFacts
<1> HIDE DEF g
<1>5. g.sock[s].st # "sent"  BY <1>0, <1>1, <1>4
<1>6. WorldRight(w, live)  BY <1>3, <1>4, <1>5, SetUserFacts
<1> HIDE DEF w
<1>7. WorldRight(Wb!Sent(w, s), live)  BY <1>6, FreedFacts
<1>8. WebSame  BY <1>2 DEF Wb!Quiet, WebSame, WebInv
<1> QED  BY <1>2, <1>7, <1>8, QuietKeeps

LEMMA WebDestroyed == WebInv /\ Wb!Destroyed => WebInv'
<1> SUFFICES ASSUME WebInv, Wb!Destroyed PROVE WebInv'  OBVIOUS
<1> DEFINE W0 == Wb!World
<1>0. WorldRight(W0, live) /\ W0.sock = sock /\ W0 \in Worlds  BY DEF WebInv, Wb!World, WorldRight
<1>1. PICK s \in Socks, i \in IPs :
        LET k == IF sock[s].st = "free" THEN [W0 EXCEPT !.sock[s].ip = i] ELSE W0
            w == Wb!GetSession(k, s)
        IN  /\ Wb!CanMake(k, s)
            /\ IF Wb!UserOf(w, s) \notin live \union {""}
               THEN Wb!Faults("deleted")
               ELSE Wb!Becomes([w EXCEPT !.sock[s] = Wb!Free]) /\ UNCHANGED <<shown, fault>>
            /\ UNCHANGED live
  BY Zenon DEF Wb!Destroyed
<1> DEFINE k == IF sock[s].st = "free" THEN [W0 EXCEPT !.sock[s].ip = i] ELSE W0
           w == Wb!GetSession(k, s)
<1>2. /\ Wb!CanMake(k, s)
      /\ IF Wb!UserOf(w, s) \notin live \union {""}
         THEN Wb!Faults("deleted")
         ELSE Wb!Becomes([w EXCEPT !.sock[s] = Wb!Free]) /\ UNCHANGED <<shown, fault>>
      /\ UNCHANGED live
  BY <1>1, Zenon
<1> HIDE DEF W0
<1>3. WorldRight(k, live)
  <2> DEFINE x == [W0.sock[s] EXCEPT !.ip = i]
             q == [W0 EXCEPT !.sock = [W0.sock EXCEPT ![s] = x]]
  <2>1. W0.sock[s] \in Sockets  BY <1>0, SocketFields
  <2>2. /\ x \in Sockets /\ x.cookie = W0.sock[s].cookie /\ x.sess = W0.sock[s].sess
        /\ x.by = W0.sock[s].by /\ x.st = W0.sock[s].st
    BY <2>1 DEF Sockets
  <2>3. CASE sock[s].st = "free"
    <3>1. k = q  BY <1>0, <2>3 DEF Worlds
    <3> HIDE DEF x
    <3>2. x.st # "sent" /\ W0.sock[s].st # "sent"  BY <1>0, <2>2, <2>3
    <3>3. WorldRight(q, live)  BY <1>0, <2>2, <3>2, SockChanged
    <3> QED  BY <3>1, <3>3
  <2>4. CASE sock[s].st # "free"
    BY <1>0, <2>4
  <2> QED  BY <2>3, <2>4
<1> HIDE DEF k
<1>4. WorldRight(w, live)  BY <1>2, <1>3, GetSessionFacts
<1> HIDE DEF w
<1> DEFINE v == [w EXCEPT !.sock[s] = Wb!Free]
<1>5. WorldRight(v, live)  BY <1>4, FreedFacts
<1>6. WebSame  BY <1>2 DEF Wb!Faults, WebSame, WebInv, FaultNames
<1>7. CASE Wb!Faults("deleted")
  <2>1. UNCHANGED <<sock, sess, msp, act, jar>>  BY <1>7 DEF Wb!Faults
  <2> QED  BY <1>6, <2>1, SameKeeps
<1>8. CASE Wb!Becomes(v)
  <2> HIDE DEF v
  <2> QED  BY <1>5, <1>6, <1>8, QuietKeeps
<1> QED  BY <1>2, <1>7, <1>8

LEMMA WebExpire == WebInv /\ Wb!Expire => WebInv'
<1> SUFFICES ASSUME WebInv, Wb!Expire PROVE WebInv'  OBVIOUS
<1> DEFINE W0 == Wb!World
<1>0. WorldRight(W0, live) /\ W0.msp = msp  BY DEF WebInv, Wb!World
<1>1. PICK i \in msp : Wb!Becomes([W0 EXCEPT !.msp = msp \ {i}]) /\ Wb!Quiet  BY Zenon DEF Wb!Expire
<1> DEFINE d == msp \ {i}
           v == [W0 EXCEPT !.msp = d]
<1>2. Wb!Becomes(v) /\ Wb!Quiet  BY <1>1
<1> HIDE DEF W0
<1>3. d \in SUBSET W0.msp /\ \A j \in d : W0.sess[j].user \in OrNobody(live)
  BY <1>0 DEF WorldRight, Living
<1> HIDE DEF d
<1>4. WorldRight(v, live)  BY <1>0, <1>3, MapShrinks
<1> HIDE DEF v
<1>5. WebSame  BY <1>2 DEF Wb!Quiet, WebSame, WebInv
<1> QED  BY <1>2, <1>4, <1>5, QuietKeeps

LEMMA WebDeleteUser == WebInv /\ Wb!DeleteUser => WebInv'
<1> SUFFICES ASSUME WebInv, Wb!DeleteUser PROVE WebInv'  OBVIOUS
<1> DEFINE W0 == Wb!World
<1>0. WorldRight(W0, live) /\ W0.msp = msp /\ W0.sess = sess  BY DEF WebInv, Wb!World
<1>1. PICK u \in live : /\ live' = live \ {u}
                        /\ Wb!Becomes([W0 EXCEPT !.msp = msp \ Wb!FinishUserSessions(u)])
                        /\ UNCHANGED <<shown, fault>>
  BY Zenon DEF Wb!DeleteUser
<1> DEFINE d == msp \ Wb!FinishUserSessions(u)
           v == [W0 EXCEPT !.msp = d]
           l == live \ {u}
<1>2. Wb!Becomes(v)  BY <1>1
<1> HIDE DEF W0
<1>3. d \in SUBSET W0.msp  BY <1>0
<1>4. ASSUME NEW j \in d PROVE W0.sess[j].user \in OrNobody(l)
  <2>1. j \in W0.msp  BY <1>3
  <2>2. W0.sess[j].user \in OrNobody(live)  BY <1>0, <2>1 DEF WorldRight, Living
  <2>3. W0.sess[j].user # u  BY <1>0, <2>1 DEF Wb!FinishUserSessions
  <2> QED  BY <2>2, <2>3 DEF OrNobody
<1> HIDE DEF d, l
<1>5. WorldRight(v, l)  BY <1>0, <1>3, <1>4, MapShrinks
<1> HIDE DEF v
<1>6. WorldRight(Wb!World', l)  BY <1>2, <1>5, BecomesKeeps
<1>7. live' = l  BY <1>1 DEF l
<1>8. WorldRight(Wb!World', live')  BY <1>6, <1>7
<1>9. live' \subseteq Wb!Users  BY <1>1 DEF WebInv
<1> QED  BY <1>1, <1>8, <1>9 DEF WebInv

LEMMA WebAddUser == WebInv /\ Wb!AddUser => WebInv'
<1> SUFFICES ASSUME WebInv, Wb!AddUser PROVE WebInv'  OBVIOUS
<1> DEFINE W0 == Wb!World
<1>0. WorldRight(W0, live)  BY DEF WebInv
<1>1. live' = live \cup {"usr2"} /\ UNCHANGED <<sock, sess, msp, act, jar, shown, fault>>
  BY DEF Wb!AddUser
<1>2. Wb!World' = W0  BY <1>1 DEF Wb!World
<1> DEFINE l == live'
<1>3. \A x \in OrNobody(live) : x \in OrNobody(l)  BY <1>1 DEF OrNobody
<1>4. l \subseteq Wb!Users  BY <1>1 DEF WebInv, Wb!Users
<1> HIDE DEF W0, l
<1>5. Living(W0, l)  BY <1>0, <1>3 DEF WorldRight, Living
<1>6. WorldRight(W0, l)  BY <1>0, <1>5 DEF WorldRight
<1>7. WorldRight(Wb!World', live')  BY <1>2, <1>6 DEF l
<1> QED  BY <1>1, <1>4, <1>7 DEF WebInv, l

LEMMA WebStep == WebInv /\ Wb!Next => WebInv'
  BY WebReadLine, WebCheckPost, WebAcceptedLogin, WebRefusedLogin, WebDestroyed, WebExpire,
     WebDeleteUser, WebAddUser DEF Wb!Next

LEMMA WebStutter == WebInv /\ UNCHANGED wbVars => WebInv'
<1> SUFFICES ASSUME WebInv, UNCHANGED wbVars PROVE WebInv'  OBVIOUS
<1>1. UNCHANGED <<sock, sess, msp, act, live, jar, shown, fault>>  BY DEF wbVars
<1>2. WebSame  BY <1>1 DEF WebSame, WebInv
<1> QED  BY <1>1, <1>2, SameKeeps

LEMMA WebInit == Wb!Init => WebInv
<1> SUFFICES ASSUME Wb!Init PROVE WebInv  OBVIOUS
<1> DEFINE W0 == Wb!World
<1>1. /\ sock = [s \in Socks |-> Wb!Free] /\ sess = [i \in Ids |-> Wb!NoSession] /\ msp = {} /\ act = {}
      /\ live = {"adm", "usr"} /\ jar = [b \in Browsers |-> Wb!None]
      /\ shown = TRUE /\ fault = "none"
  BY DEF Wb!Init, Ids
<1>2. /\ W0.sock = sock /\ W0.sess = sess /\ W0.msp = {} /\ W0.act = {} /\ W0.jar = jar
      /\ W0 = [sock |-> sock, sess |-> sess, msp |-> {}, act |-> {}, jar |-> jar]
  BY <1>1 DEF Wb!World
<1>3. Wb!NoSession \in SessionRecs  BY FirstFacts DEF Wb!NoSession, SessionRecs, OrNobody
<1>4. W0 \in Worlds
  <2>1. sock \in [Socks -> Sockets]  BY <1>1, NoneFacts
  <2>2. sess \in [Ids -> SessionRecs]  BY <1>1, <1>3
  <2>3. jar \in [Browsers -> IdsOrNone]  BY <1>1 DEF IdsOrNone
  <2> HIDE DEF W0
  <2> QED  BY <1>2, <2>1, <2>2, <2>3 DEF Worlds
<1> HIDE DEF W0
<1>5. \A i \in Ids, b \in Browsers : ~Has(W0, b, i)  BY <1>1, <1>2, NoneFacts DEF Has
<1>6. Private(W0)  BY <1>5 DEF Private
<1>7. Counted(W0)  BY <1>1, <1>2, NoneFacts DEF Counted
<1>8. Living(W0, live)  BY <1>2 DEF Living
<1>9. live \subseteq Wb!Users  BY <1>1 DEF Wb!Users
<1> QED  BY <1>1, <1>4, <1>6, <1>7, <1>8, <1>9 DEF WebInv, WorldRight, W0, FaultNames

LEMMA WebRight == WebInv => Wb!PagesRight
<1> SUFFICES ASSUME WebInv PROVE Wb!PagesRight  OBVIOUS
<1> DEFINE W0 == Wb!World
<1>0. W0 \in Worlds /\ Counted(W0) /\ Living(W0, live) /\ live \subseteq Wb!Users /\ fault \in FaultNames
      /\ shown
  BY DEF WebInv, WorldRight
<1>1. W0.sock = sock /\ W0.sess = sess /\ W0.msp = msp  BY DEF Wb!World
<1> HIDE DEF W0
<1>2. sock \in [Socks -> Sockets] /\ sess \in [Ids -> SessionRecs] /\ msp \subseteq Ids
  BY <1>0, <1>1, WorldFields
<1>3. Wb!TypeOK
  <2>1. \A s \in Socks : sock[s].sess \in Ids \cup {Wb!None} /\ sock[s].st \in {"free", "auth", "body", "sent"}
    BY <1>2 DEF Sockets, IdsOrNone
  <2>2. \A i \in DOMAIN sess : sess[i].ip \in IPs /\ sess[i].user \in OrNobody(Wb!Users)
    BY <1>2 DEF SessionRecs
  <2> QED  BY <1>0, <1>2, <2>1, <2>2, Zenon DEF Wb!TypeOK, Ids, OrNobody, FaultNames
<1>4. \A i \in msp : sess[i].user \in live \cup {""}  BY <1>0, <1>1 DEF Living, OrNobody
<1>5. msp \subseteq Wb!Objects(Wb!World)  BY <1>0, <1>1 DEF Counted, W0
<1>6. \A s \in Socks : sock[s].sess # Wb!None => sock[s].sess \in Wb!Objects(Wb!World)
  BY <1>0, <1>1 DEF Counted, W0
<1> QED  BY <1>0, <1>3, <1>4, <1>5, <1>6, Zenon DEF Wb!PagesRight
-----------------------------------------------------------------------------
(* ModuleHost: the vector of modules *)

\* The first n elements of s, and that no two of them are the same.
Of(s, n) == {s[i] : i \in 1..n}
Distinct(s, n) == \A i, j \in 1..n : s[i] = s[j] => i = j

ListInv == slots \in Seq(Plugins) /\ size \in 0..Len(slots) /\ Distinct(slots, size)
Members == Of(slots, size)

\* What manager and pool hold is what the loaded modules own.
ResourceInv == /\ own \in [Plugins -> SUBSET Kinds] /\ manager \subseteq Plugins \X Kinds
               /\ \A m \in Plugins, k \in Kinds : <<m, k>> \in manager <=> m \in Members /\ k \in own[m]

\* A loaded module's registry, and the file of the others, have what was stored last.
DiskInv == /\ reg \in [Plugins -> Int] /\ disk \in [Plugins -> Int] /\ said \in [Plugins -> Int]
           /\ \A m \in Plugins : IF m \in Members THEN reg[m] = said[m] ELSE disk[m] = said[m]

\* The loop stays in the memory of the vector; until a module throws UNLOAD, it has called
\* the modules of the list up to where it is.
Calls == [hook : Events \cup {"none"}, pos : Nat, end : Nat, start : SUBSET Plugins, called : Seq(Plugins),
          halted : BOOLEAN, core : BOOLEAN, threw : BOOLEAN, wild : BOOLEAN]
InLoop == /\ call.pos \in 1..(call.end + 1) /\ call.end <= Len(slots)
          /\ ~call.threw => /\ call.end = size /\ call.start = Members /\ ~call.wild
                            /\ Len(call.called) = call.pos - 1
                            /\ \A i \in 1..(call.pos - 1) : call.called[i] = slots[i]
CallInv == call \in Calls /\ (call = Mh!Idle \/ InLoop)

HostInv == ListInv /\ ResourceInv /\ DiskInv /\ CallInv

LEMMA CutFacts ==
  ASSUME NEW s \in Seq(Plugins), NEW n \in 0..Len(s), NEW i \in 1..n, Distinct(s, n)
  PROVE  LET u == SubSeq(s, 1, i - 1) \o SubSeq(s, i + 1, n)
         IN  /\ u \in Seq(Plugins) /\ Len(u) = n - 1 /\ Distinct(u, n - 1) /\ Of(u, n - 1) = Of(s, n) \ {s[i]}
<1> DEFINE a == SubSeq(s, 1, i - 1)
           b == SubSeq(s, i + 1, n)
           u == a \o b
<1>0. Len(s) \in Nat /\ n \in Nat /\ i \in Nat /\ 1 <= i /\ i <= n /\ n <= Len(s)
  BY LenProperties
<1>1. a \in Seq(Plugins) /\ Len(a) = i - 1 /\ \A k \in 1..(i - 1) : a[k] = s[k]
  BY <1>0, SubSeqProperties
<1>2. b \in Seq(Plugins) /\ Len(b) = n - i /\ \A k \in 1..(n - i) : b[k] = s[i + k]
  BY <1>0, SubSeqProperties
<1> HIDE DEF a, b
<1>3. u \in Seq(Plugins) /\ Len(u) = n - 1
  <2>1. u \in Seq(Plugins) /\ Len(u) = Len(a) + Len(b)  BY <1>1, <1>2, ConcatProperties
  <2>2. Len(a) + Len(b) = n - 1  BY <1>0, <1>1, <1>2
  <2> QED  BY <2>1, <2>2
<1>4. \A k \in 1..(n - 1) : u[k] = IF k < i THEN s[k] ELSE s[k + 1]
  <2> TAKE k \in 1..(n - 1)
  <2>1. u[k] = IF k <= i - 1 THEN a[k] ELSE b[k - (i - 1)]
    BY <1>0, <1>1, <1>2, ConcatProperties
  <2>2. CASE k < i
    BY <1>0, <1>1, <2>1, <2>2
  <2>3. CASE ~(k < i)
    <3>1. k - (i - 1) \in 1..(n - i) /\ i + (k - (i - 1)) = k + 1  BY <1>0, <2>3
    <3> QED  BY <1>0, <1>2, <2>1, <2>3, <3>1
  <2> QED  BY <2>2, <2>3
<1> HIDE DEF u
<1>5. Distinct(u, n - 1)
  <2> SUFFICES ASSUME NEW j \in 1..(n - 1), NEW k \in 1..(n - 1), u[j] = u[k] PROVE j = k  BY DEF Distinct
  <2> DEFINE f(x) == IF x < i THEN x ELSE x + 1
  <2>1. f(j) \in 1..n /\ f(k) \in 1..n  BY <1>0
  <2>2. u[j] = s[f(j)] /\ u[k] = s[f(k)]  BY <1>4
  <2>3. f(j) = f(k)  BY <2>1, <2>2 DEF Distinct
  <2> QED  BY <1>0, <2>3
<1>6. Of(u, n - 1) = Of(s, n) \ {s[i]}
  <2>1. ASSUME NEW x \in Of(u, n - 1) PROVE x \in Of(s, n) \ {s[i]}
    <3>1. PICK k \in 1..(n - 1) : x = u[k]  BY <2>1 DEF Of
    <3> DEFINE h == IF k < i THEN k ELSE k + 1
    <3>2. h \in 1..n /\ h # i  BY <1>0
    <3>3. x = s[h]  BY <1>4, <3>1
    <3> HIDE DEF h
    <3> QED  BY <3>2, <3>3 DEF Distinct, Of
  <2>2. ASSUME NEW x \in Of(s, n) \ {s[i]} PROVE x \in Of(u, n - 1)
    <3>1. PICK k \in 1..n : x = s[k]  BY <2>2 DEF Of
    <3>2. k # i  BY <2>2, <3>1
    <3> DEFINE h == IF k < i THEN k ELSE k - 1
    <3>3. h \in 1..(n - 1) /\ (IF h < i THEN h ELSE h + 1) = k  BY <1>0, <3>2
    <3>4. u[h] = s[k]  BY <1>4, <3>3
    <3> HIDE DEF h
    <3> QED  BY <3>1, <3>3, <3>4 DEF Of
  <2> QED  BY <2>1, <2>2
<1> QED  BY <1>3, <1>5, <1>6 DEF u, a, b

LEMMA JoinFacts ==
  ASSUME NEW u \in Seq(Plugins), NEW t \in Seq(Plugins), Distinct(u, Len(u))
  PROVE  LET w == u \o t
         IN  /\ w \in Seq(Plugins) /\ Len(w) = Len(u) + Len(t) /\ Distinct(w, Len(u)) /\ Of(w, Len(u)) = Of(u, Len(u))
<1> DEFINE w == u \o t
<1>1. /\ w \in Seq(Plugins) /\ Len(w) = Len(u) + Len(t) /\ Len(u) \in Nat /\ Len(t) \in Nat
      /\ \A i \in 1..Len(u) : w[i] = u[i]
  BY ConcatProperties, LenProperties
<1> HIDE DEF w
<1>2. Distinct(w, Len(u)) /\ Of(w, Len(u)) = Of(u, Len(u))  BY <1>1 DEF Distinct, Of
<1> QED  BY <1>1, <1>2 DEF w

LEMMA AddedFacts ==
  ASSUME NEW u \in Seq(Plugins), NEW m \in Plugins, Distinct(u, Len(u)), m \notin Of(u, Len(u))
  PROVE  LET w == Append(u, m)
         IN  /\ w \in Seq(Plugins) /\ Len(w) = Len(u) + 1 /\ Distinct(w, Len(u) + 1)
             /\ Of(w, Len(u) + 1) = Of(u, Len(u)) \cup {m}
<1> DEFINE w == Append(u, m)
           n == Len(u)
<1>1. /\ w \in Seq(Plugins) /\ Len(w) = n + 1 /\ n \in Nat
      /\ (\A i \in 1..n : w[i] = u[i]) /\ w[n + 1] = m
  BY AppendProperties, LenProperties
<1> HIDE DEF w, n
<1>2. Of(w, n + 1) = Of(u, n) \cup {m}
  <2>1. \A i \in 1..(n + 1) : i \in 1..n \/ i = n + 1  BY <1>1
  <2>2. \A i \in 1..n : i \in 1..(n + 1)  BY <1>1
  <2>3. n + 1 \in 1..(n + 1)  BY <1>1
  <2> QED  BY <1>1, <2>1, <2>2, <2>3 DEF Of
<1>3. Distinct(w, n + 1)
  <2> SUFFICES ASSUME NEW i \in 1..(n + 1), NEW j \in 1..(n + 1), w[i] = w[j] PROVE i = j  BY DEF Distinct
  <2>1. \A k \in 1..(n + 1) : k \in 1..n \/ k = n + 1  BY <1>1
  <2>2. \A k \in 1..n : u[k] # m  BY DEF Of, n
  <2>3. CASE i \in 1..n /\ j \in 1..n
    BY <1>1, <2>3 DEF Distinct, n
  <2>4. CASE i = n + 1 \/ j = n + 1
    BY <1>1, <2>1, <2>2, <2>4
  <2> QED  BY <2>1, <2>3, <2>4
<1> QED  BY <1>1, <1>2, <1>3 DEF w, n

LEMMA LoadedFacts ==
  ASSUME ListInv
  PROVE  /\ Mh!Loaded \in Seq(Plugins) /\ Len(Mh!Loaded) = size /\ Distinct(Mh!Loaded, size)
         /\ Mh!Range(Mh!Loaded) = Members /\ Of(Mh!Loaded, size) = Members
         /\ Members \subseteq Plugins /\ size \in Nat /\ size <= Len(slots) /\ Len(slots) \in Nat
<1> DEFINE s == Mh!Loaded
<1>0. slots \in Seq(Plugins) /\ Len(slots) \in Nat /\ size \in Nat /\ size <= Len(slots) /\ Distinct(slots, size)
  BY LenProperties DEF ListInv
<1>1. s \in Seq(Plugins) /\ Len(s) = size /\ \A k \in 1..size : s[k] = slots[k]
  BY <1>0, SubSeqProperties DEF Mh!Loaded
<1> HIDE DEF s
<1>2. DOMAIN s = 1..size  BY <1>1, LenProperties
<1>3. Mh!Range(s) = Of(slots, size) /\ Of(s, size) = Of(slots, size)  BY <1>1, <1>2 DEF Mh!Range, Of
<1>4. Distinct(s, size)  BY <1>0, <1>1 DEF Distinct
<1>5. Of(slots, size) \subseteq Plugins
  <2>1. \A k \in 1..Len(slots) : slots[k] \in Plugins  BY <1>0, ElementOfSeq
  <2>2. \A k \in 1..size : k \in 1..Len(slots)  BY <1>0
  <2> QED  BY <2>1, <2>2 DEF Of
<1> QED  BY <1>0, <1>1, <1>3, <1>4, <1>5 DEF s, Members

LEMMA WithoutFacts ==
  ASSUME ListInv, NEW m \in Members
  PROVE  LET u == Mh!Without(m)
         IN  /\ u \in Seq(Plugins) /\ Len(u) = size - 1 /\ Distinct(u, size - 1) /\ Of(u, size - 1) = Members \ {m}
             /\ size \in Nat /\ size > 0
<1> DEFINE i == CHOOSE k \in 1..size : slots[k] = m
<1>1. i \in 1..size /\ slots[i] = m  BY DEF Members, Of
<1>2. Mh!Without(m) = SubSeq(slots, 1, i - 1) \o SubSeq(slots, i + 1, size)  BY DEF Mh!Without
<1> HIDE DEF i
<1>3. size \in Nat /\ size > 0  BY <1>1, LoadedFacts
<1> DEFINE u == SubSeq(slots, 1, i - 1) \o SubSeq(slots, i + 1, size)
<1>4. u \in Seq(Plugins) /\ Len(u) = size - 1 /\ Distinct(u, size - 1) /\ Of(u, size - 1) = Members \ {m}
  BY <1>1, CutFacts DEF ListInv, Members
<1> HIDE DEF u
<1> QED  BY <1>2, <1>3, <1>4 DEF u

LEMMA UnloadFacts ==
  ASSUME ListInv, ResourceInv, DiskInv, NEW m \in Plugins, Mh!UnloadModule(m)
  PROVE  ListInv' /\ ResourceInv' /\ DiskInv' /\ Len(slots') = Len(slots)
<1>1. m \in Members /\ slots' = Mh!Erased(m) /\ size' = size - 1 /\ Mh!Destroyed(m)
  BY LoadedFacts DEF Mh!UnloadModule
<1> DEFINE u == Mh!Without(m)
           t == SubSeq(slots, size, Len(slots))
           w == u \o t
<1>2. u \in Seq(Plugins) /\ Len(u) = size - 1 /\ Distinct(u, size - 1) /\ Of(u, size - 1) = Members \ {m}
      /\ size \in Nat /\ size > 0
  BY <1>1, WithoutFacts
<1>3. slots \in Seq(Plugins) /\ size <= Len(slots) /\ Len(slots) \in Nat  BY LoadedFacts DEF ListInv
<1>4. t \in Seq(Plugins) /\ Len(t) = Len(slots) - size + 1  BY <1>2, <1>3, SubSeqProperties
<1>5. slots' = w  BY <1>1 DEF Mh!Erased
<1> HIDE DEF u, t
<1>6. w \in Seq(Plugins) /\ Len(w) = Len(u) + Len(t) /\ Distinct(w, Len(u)) /\ Of(w, Len(u)) = Of(u, Len(u))
  BY <1>2, <1>4, JoinFacts
<1> HIDE DEF w
<1>7. Len(w) = Len(slots) /\ size' \in 0..Len(w)  BY <1>1, <1>2, <1>3, <1>4, <1>6
<1>8. ListInv'  BY <1>1, <1>2, <1>5, <1>6, <1>7 DEF ListInv
<1>9. Members' = Members \ {m}  BY <1>1, <1>2, <1>5, <1>6 DEF Members
<1>10. manager' = {r \in manager : r[1] # m} /\ own' = [own EXCEPT ![m] = {}]
       /\ disk' = [disk EXCEPT ![m] = reg[m]] /\ reg' = reg /\ said' = said
  BY <1>1 DEF Mh!Destroyed
<1>11. ResourceInv'
  <2>1. own' \in [Plugins -> SUBSET Kinds] /\ \A n \in Plugins : n # m => own'[n] = own[n]
    BY <1>10 DEF ResourceInv
  <2>2. manager' \subseteq Plugins \X Kinds  BY <1>10 DEF ResourceInv
  <2>3. \A n \in Plugins, k \in Kinds : <<n, k>> \in manager' <=> <<n, k>> \in manager /\ n # m
    BY <1>10
  <2> QED  BY <1>9, <2>1, <2>2, <2>3 DEF ResourceInv
<1>12. DiskInv'
  <2>1. disk' \in [Plugins -> Int] /\ disk'[m] = said[m] /\ \A n \in Plugins : n # m => disk'[n] = disk[n]
    BY <1>1, <1>10 DEF DiskInv
  <2> QED  BY <1>9, <1>10, <2>1 DEF DiskInv
<1> QED  BY <1>5, <1>7, <1>8, <1>11, <1>12

LEMMA LoadStep == ASSUME HostInv, NEW m \in Plugins, Mh!LoadModule(m) PROVE HostInv'
<1>0. ListInv /\ ResourceInv /\ DiskInv /\ CallInv /\ call = Mh!Idle /\ call' = call /\ m \notin Members
  BY LoadedFacts DEF HostInv, Mh!LoadModule, Mh!Quiet
<1>1. CallInv'  BY <1>0 DEF CallInv
<1> DEFINE s == Mh!Loaded
           w == Append(s, m)
<1>2. /\ s \in Seq(Plugins) /\ Len(s) = size /\ Distinct(s, size) /\ Of(s, size) = Members /\ size \in Nat
  BY <1>0, LoadedFacts
<1>3. CASE /\ slots' = w /\ size' = size + 1
           /\ reg' = [reg EXCEPT ![m] = disk[m]] /\ UNCHANGED <<disk, said>>
           /\ \E ks \in SUBSET Kinds : /\ own' = [own EXCEPT ![m] = ks]
                                       /\ manager' = manager \cup {<<m, k>> : k \in ks}
  <2> HIDE DEF s
  <2>1. w \in Seq(Plugins) /\ Len(w) = size + 1 /\ Distinct(w, size + 1) /\ Of(w, size + 1) = Members \cup {m}
    BY <1>0, <1>2, AddedFacts
  <2> HIDE DEF w
  <2>2. ListInv'  BY <1>2, <1>3, <2>1 DEF ListInv
  <2>3. Members' = Members \cup {m}  BY <1>3, <2>1 DEF Members
  <2>4. PICK ks \in SUBSET Kinds : own' = [own EXCEPT ![m] = ks] /\ manager' = manager \cup {<<m, k>> : k \in ks}
    BY <1>3
  <2>5. ResourceInv'
    <3>1. own' \in [Plugins -> SUBSET Kinds] /\ own'[m] = ks /\ \A n \in Plugins : n # m => own'[n] = own[n]
      BY <1>0, <2>4 DEF ResourceInv
    <3>2. manager' \subseteq Plugins \X Kinds  BY <1>0, <2>4 DEF ResourceInv
    <3>3. \A n \in Plugins, k \in Kinds : <<n, k>> \in manager' <=> <<n, k>> \in manager \/ (n = m /\ k \in ks)
      BY <2>4
    <3> QED  BY <1>0, <2>3, <3>1, <3>2, <3>3 DEF ResourceInv
  <2>6. DiskInv'
    <3>1. reg' \in [Plugins -> Int] /\ reg'[m] = disk[m] /\ \A n \in Plugins : n # m => reg'[n] = reg[n]
      BY <1>0, <1>3 DEF DiskInv
    <3> QED  BY <1>0, <1>3, <2>3, <3>1 DEF DiskInv
  <2> QED  BY <1>1, <2>2, <2>5, <2>6 DEF HostInv
<1>4. CASE slots' = s /\ UNCHANGED <<size, own, manager, reg, disk, said>>
  <2> HIDE DEF s
  <2>1. ListInv' /\ Members' = Members  BY <1>0, <1>2, <1>4 DEF ListInv, Members
  <2>2. ResourceInv' /\ DiskInv'  BY <1>0, <1>4, <2>1 DEF ResourceInv, DiskInv
  <2> QED  BY <1>1, <2>1, <2>2 DEF HostInv
<1> QED  BY <1>3, <1>4 DEF Mh!LoadModule, Mh!resources, Mh!registry

LEMMA UnloadStep == ASSUME HostInv, NEW m \in Plugins, Mh!Unload(m) PROVE HostInv'
<1>1. call = Mh!Idle /\ call' = call /\ Mh!UnloadModule(m)  BY DEF Mh!Unload, Mh!Quiet
<1>2. ListInv' /\ ResourceInv' /\ DiskInv'  BY <1>1, UnloadFacts DEF HostInv
<1>3. CallInv'  BY <1>1 DEF CallInv, HostInv
<1> QED  BY <1>2, <1>3 DEF HostInv

LEMMA ReloadStep == ASSUME HostInv, NEW m \in Plugins, Mh!ReloadModule(m) PROVE HostInv'
<1>0. ListInv /\ ResourceInv /\ DiskInv /\ CallInv /\ call = Mh!Idle /\ call' = call /\ m \in Members
  BY LoadedFacts DEF HostInv, Mh!ReloadModule, Mh!Quiet
<1>1. CallInv'  BY <1>0 DEF CallInv
<1> DEFINE u == Mh!Without(m)
           w == Append(u, m)
<1>2. /\ slots' = w /\ size' = size /\ disk' = [disk EXCEPT ![m] = reg[m]] /\ reg' = reg /\ said' = said
      /\ \E ks \in SUBSET Kinds :
           /\ own' = [own EXCEPT ![m] = ks]
           /\ manager' = {r \in manager : r[1] # m} \cup {<<m, k>> : k \in ks}
  BY DEF Mh!ReloadModule
<1>3. u \in Seq(Plugins) /\ Len(u) = size - 1 /\ Distinct(u, size - 1) /\ Of(u, size - 1) = Members \ {m}
      /\ size \in Nat /\ size > 0
  BY <1>0, WithoutFacts
<1> HIDE DEF u
<1>4. w \in Seq(Plugins) /\ Len(w) = size /\ Distinct(w, size) /\ Of(w, size) = Members
  <2>1. w \in Seq(Plugins) /\ Len(w) = Len(u) + 1 /\ Distinct(w, Len(u) + 1) /\ Of(w, Len(u) + 1) = (Members \ {m}) \cup {m}
    BY <1>3, AddedFacts
  <2>2. Len(u) + 1 = size  BY <1>3
  <2> QED  BY <1>0, <2>1, <2>2
<1> HIDE DEF w
<1>5. ListInv' /\ Members' = Members  BY <1>2, <1>3, <1>4 DEF ListInv, Members
<1>6. PICK ks \in SUBSET Kinds : /\ own' = [own EXCEPT ![m] = ks]
                                 /\ manager' = {r \in manager : r[1] # m} \cup {<<m, k>> : k \in ks}
  BY <1>2
<1>7. ResourceInv'
  <2>1. own' \in [Plugins -> SUBSET Kinds] /\ own'[m] = ks /\ \A n \in Plugins : n # m => own'[n] = own[n]
    BY <1>0, <1>6 DEF ResourceInv
  <2>2. manager' \subseteq Plugins \X Kinds  BY <1>0, <1>6 DEF ResourceInv
  <2>3. \A n \in Plugins, k \in Kinds :
          <<n, k>> \in manager' <=> (<<n, k>> \in manager /\ n # m) \/ (n = m /\ k \in ks)
    BY <1>6
  <2> QED  BY <1>0, <1>5, <2>1, <2>2, <2>3 DEF ResourceInv
<1>8. DiskInv'
  <2>1. disk' \in [Plugins -> Int] /\ \A n \in Plugins : n # m => disk'[n] = disk[n]
    BY <1>0, <1>2 DEF DiskInv
  <2> QED  BY <1>0, <1>2, <1>5, <2>1 DEF DiskInv
<1> QED  BY <1>1, <1>5, <1>7, <1>8 DEF HostInv

\* What a module does in between leaves the list and the loop alone.
LEMMA CallSame == CallInv /\ UNCHANGED <<slots, size, call>> => CallInv' /\ (ListInv => ListInv') /\ Members' = Members
<1> SUFFICES ASSUME CallInv, UNCHANGED <<slots, size, call>> PROVE CallInv' /\ (ListInv => ListInv') /\ Members' = Members
  OBVIOUS
<1>1. Members' = Members  BY DEF Members
<1>2. call \in Calls => (call \in Calls)'  BY DEF Calls
<1>3. InLoop => InLoop'  BY <1>1 DEF InLoop
<1> QED  BY <1>1, <1>2, <1>3 DEF CallInv, ListInv

LEMMA OwnStep ==
  ASSUME HostInv, NEW m \in Plugins, NEW k \in Kinds, Mh!Add(m, k) \/ Mh!Remove_(m, k)
  PROVE  HostInv'
<1>0. ListInv /\ ResourceInv /\ DiskInv /\ CallInv /\ m \in Members /\ UNCHANGED <<slots, size, call, reg, disk, said>>
  BY LoadedFacts DEF HostInv, Mh!Add, Mh!Remove_, Mh!registry
<1>1. ListInv' /\ CallInv' /\ Members' = Members  BY <1>0, CallSame
<1>2. DiskInv'  BY <1>0, <1>1 DEF DiskInv
<1>3. ResourceInv'
  <2>1. CASE Mh!Add(m, k)
    <3>1. own' = [own EXCEPT ![m] = own[m] \cup {k}] /\ manager' = manager \cup {<<m, k>>}  BY <2>1 DEF Mh!Add
    <3>2. own' \in [Plugins -> SUBSET Kinds] /\ own'[m] = own[m] \cup {k} /\ \A n \in Plugins : n # m => own'[n] = own[n]
      BY <1>0, <3>1 DEF ResourceInv
    <3>3. manager' \subseteq Plugins \X Kinds  BY <1>0, <3>1 DEF ResourceInv
    <3>4. \A n \in Plugins, j \in Kinds : <<n, j>> \in manager' <=> <<n, j>> \in manager \/ (n = m /\ j = k)
      BY <3>1
    <3> QED  BY <1>0, <1>1, <3>2, <3>3, <3>4 DEF ResourceInv
  <2>2. CASE Mh!Remove_(m, k)
    <3>1. own' = [own EXCEPT ![m] = own[m] \ {k}] /\ manager' = manager \ {<<m, k>>}  BY <2>2 DEF Mh!Remove_
    <3>2. own' \in [Plugins -> SUBSET Kinds] /\ own'[m] = own[m] \ {k} /\ \A n \in Plugins : n # m => own'[n] = own[n]
      BY <1>0, <3>1 DEF ResourceInv
    <3>3. manager' \subseteq Plugins \X Kinds  BY <1>0, <3>1 DEF ResourceInv
    <3>4. \A n \in Plugins, j \in Kinds : <<n, j>> \in manager' <=> <<n, j>> \in manager /\ ~(n = m /\ j = k)
      BY <3>1
    <3> QED  BY <1>0, <1>1, <3>2, <3>3, <3>4 DEF ResourceInv
  <2> QED  BY <2>1, <2>2
<1> QED  BY <1>1, <1>2, <1>3 DEF HostInv

LEMMA SetNVStep == ASSUME HostInv, NEW m \in Plugins, NEW now \in BOOLEAN, Mh!SetNV(m, now) PROVE HostInv'
<1>0. ListInv /\ ResourceInv /\ DiskInv /\ CallInv /\ m \in Members /\ UNCHANGED <<slots, size, call, own, manager>>
  BY LoadedFacts DEF HostInv, Mh!SetNV, Mh!resources
<1>1. ListInv' /\ CallInv' /\ Members' = Members  BY <1>0, CallSame
<1>2. PICK v \in {0, 1} : /\ reg' = [reg EXCEPT ![m] = v] /\ said' = [said EXCEPT ![m] = v]
                          /\ disk' = IF now THEN [disk EXCEPT ![m] = v] ELSE disk
  BY DEF Mh!SetNV
<1>3. /\ reg' \in [Plugins -> Int] /\ said' \in [Plugins -> Int] /\ reg'[m] = v /\ said'[m] = v
      /\ \A n \in Plugins : n # m => reg'[n] = reg[n] /\ said'[n] = said[n]
  BY <1>0, <1>2 DEF DiskInv
<1>4. disk' \in [Plugins -> Int] /\ \A n \in Plugins : n # m => disk'[n] = disk[n]
  BY <1>0, <1>2 DEF DiskInv
<1>5. DiskInv'  BY <1>0, <1>1, <1>3, <1>4 DEF DiskInv
<1>6. ResourceInv'  BY <1>0, <1>1 DEF ResourceInv
<1> QED  BY <1>1, <1>5, <1>6 DEF HostInv

LEMMA IdleFacts == Mh!Idle \in Calls /\ ~Mh!Idle.threw /\ ~Mh!Idle.wild
  BY EmptySeq DEF Mh!Idle, Calls

LEMMA BeginStep == ASSUME HostInv, Mh!Begin PROVE HostInv'
<1>0. ListInv /\ ResourceInv /\ DiskInv /\ UNCHANGED <<slots, size, own, manager, reg, disk, said>>
  BY DEF HostInv, Mh!Begin, Mh!resources, Mh!registry
<1>1. PICK h \in Events : call' = [Mh!Idle EXCEPT !.hook = h, !.pos = 1, !.end = size, !.start = Members]
  BY <1>0, LoadedFacts DEF Mh!Begin
<1>2. Members' = Members  BY <1>0 DEF Members
<1>3. ListInv' /\ ResourceInv' /\ DiskInv'  BY <1>0, <1>2 DEF ListInv, ResourceInv, DiskInv
<1>4. size \in Nat /\ size <= Len(slots) /\ Members \subseteq Plugins  BY <1>0, LoadedFacts
<1> DEFINE e == <<>>
<1>5. e \in Seq(Plugins) /\ Len(e) = 0  BY EmptySeq
<1>6. Mh!Idle = [hook |-> "none", pos |-> 0, end |-> 0, start |-> {}, called |-> e,
                 halted |-> FALSE, core |-> TRUE, threw |-> FALSE, wild |-> FALSE]
  BY DEF Mh!Idle
<1> HIDE DEF e
<1>7. call' \in Calls  BY <1>1, <1>4, <1>5, <1>6 DEF Calls
<1>8. call'.pos = 1 /\ call'.end = size /\ call'.start = Members /\ ~call'.wild /\ call'.called = e
  BY <1>1, <1>6
<1>9. \A i \in 1..(1 - 1) : call'.called[i] = slots'[i]  OBVIOUS
<1>10. InLoop'  BY <1>0, <1>2, <1>4, <1>5, <1>8, <1>9 DEF InLoop
<1>11. CallInv'  BY <1>7, <1>10 DEF CallInv, Calls
<1> QED  BY <1>3, <1>11 DEF HostInv

LEMMA ReturnStep == ASSUME HostInv, Mh!Return PROVE HostInv'
<1>0. /\ ListInv /\ ResourceInv /\ DiskInv /\ UNCHANGED <<size, own, manager, reg, disk, said>>
      /\ call' = Mh!Idle /\ slots' = Mh!Loaded
  BY DEF HostInv, Mh!Return, Mh!resources, Mh!registry
<1>1. /\ Mh!Loaded \in Seq(Plugins) /\ Len(Mh!Loaded) = size /\ Distinct(Mh!Loaded, size)
      /\ Of(Mh!Loaded, size) = Members /\ size \in Nat
  BY <1>0, LoadedFacts
<1>2. ListInv' /\ Members' = Members  BY <1>0, <1>1 DEF ListInv, Members
<1>3. ResourceInv' /\ DiskInv'  BY <1>0, <1>2 DEF ResourceInv, DiskInv
<1>4. CallInv'  BY <1>0, IdleFacts DEF CallInv, Calls
<1> QED  BY <1>2, <1>3, <1>4 DEF HostInv

\* One module is called; only a module that throws changes the list.
LEMMA RoundStep == ASSUME HostInv, Mh!Round PROVE HostInv'
<1> DEFINE m == slots[call.pos]
<1>0. /\ ListInv /\ ResourceInv /\ DiskInv /\ CallInv /\ InLoop /\ call \in Calls
      /\ call # Mh!Idle /\ ~call.halted /\ ~(call.pos > call.end)
  BY DEF HostInv, CallInv, Mh!Round, Mh!Finished
<1>1. /\ call.pos \in Nat /\ call.end \in Nat /\ call.pos >= 1 /\ call.pos <= call.end /\ call.end <= Len(slots)
      /\ Len(slots) \in Nat /\ slots \in Seq(Plugins) /\ call.called \in Seq(Plugins)
      /\ call.threw \in BOOLEAN /\ call.core \in BOOLEAN
  <2>1. call.pos \in Nat /\ call.end \in Nat /\ call.called \in Seq(Plugins) /\ call.threw \in BOOLEAN /\ call.core \in BOOLEAN
    BY <1>0 DEF Calls
  <2>2. Len(slots) \in Nat /\ slots \in Seq(Plugins)  BY <1>0, LenProperties DEF ListInv
  <2>3. call.pos >= 1 /\ call.end <= Len(slots)  BY <1>0 DEF InLoop
  <2>4. call.pos <= call.end  BY <1>0, <2>1
  <2> QED  BY <2>1, <2>2, <2>3, <2>4
<1>2. m \in Plugins  BY <1>1, ElementOfSeq
<1>3. ~call.threw => m \in Members
  <2> SUFFICES ASSUME ~call.threw PROVE m \in Members  OBVIOUS
  <2>1. call.end = size  BY <1>0 DEF InLoop
  <2>2. call.pos \in 1..size  BY <1>1, <2>1
  <2> QED  BY <2>2 DEF Members, Of
<1>4. CASE m \notin Members
  <2>1. call' = [call EXCEPT !.pos = call.pos + 1, !.wild = TRUE] /\ UNCHANGED <<slots, size, own, manager, reg, disk, said>>
    BY <1>0, <1>4, LoadedFacts DEF Mh!Round, Mh!resources, Mh!registry
  <2>2. Members' = Members  BY <2>1 DEF Members
  <2>3. ListInv' /\ ResourceInv' /\ DiskInv'  BY <1>0, <2>1, <2>2 DEF ListInv, ResourceInv, DiskInv
  <2>4. call' \in Calls /\ call'.pos = call.pos + 1 /\ call'.end = call.end /\ call'.threw = call.threw
    <3> DEFINE x == call.pos + 1
               y == TRUE
    <3>1. x \in Nat /\ y \in BOOLEAN  BY <1>1
    <3>2. call' = [call EXCEPT !.pos = x, !.wild = y]  BY <2>1
    <3> HIDE DEF x, y
    <3>3. call' \in Calls /\ call'.pos = x /\ call'.end = call.end /\ call'.threw = call.threw
      BY <1>0, <3>1, <3>2 DEF Calls
    <3> QED  BY <3>3 DEF x
  <2>5. call'.pos \in 1..(call'.end + 1) /\ call'.end <= Len(slots')  BY <1>1, <2>1, <2>4
  <2>6. InLoop'  BY <1>3, <1>4, <2>4, <2>5 DEF InLoop
  <2>7. CallInv'  BY <2>4, <2>6 DEF CallInv, Calls
  <2> QED  BY <2>3, <2>7 DEF HostInv
<1>5. CASE m \in Members
  <2>1. PICK e \in Mh!Results(m, call.hook) :
          /\ call' = Mh!Called(e)
          /\ IF e = "UNLOAD" THEN Mh!UnloadModule(m) ELSE UNCHANGED <<slots, size, own, manager, reg, disk, said>>
    BY <1>0, <1>5, LoadedFacts DEF Mh!Round, Mh!resources, Mh!registry
  <2> DEFINE h == (e \in {"HALT", "HALTMODS"})
             c == (call.core /\ e \notin {"HALT", "HALTCORE"})
             th == (call.threw \/ e = "UNLOAD")
             q == Append(call.called, m)
             n == call.pos
  <2>2. call' = [call EXCEPT !.pos = n + 1, !.called = q, !.halted = h, !.core = c, !.threw = th]
    BY <2>1 DEF Mh!Called
  <2>3. h \in BOOLEAN /\ c \in BOOLEAN /\ th \in BOOLEAN /\ (~th => ~call.threw /\ e # "UNLOAD")  BY <1>1
  <2>4. q \in Seq(Plugins) /\ Len(q) = Len(call.called) + 1 /\ Len(call.called) \in Nat
        /\ (\A i \in 1..Len(call.called) : q[i] = call.called[i]) /\ q[Len(call.called) + 1] = m
    BY <1>1, <1>2, AppendProperties, LenProperties
  <2> HIDE DEF h, c, th, q
  <2>5. /\ call' \in Calls /\ call'.pos = n + 1 /\ call'.end = call.end /\ call'.threw = th
        /\ call'.called = q /\ call'.start = call.start /\ call'.wild = call.wild
    <3> DEFINE x == n + 1
    <3>1. x \in Nat /\ q \in Seq(Plugins) /\ h \in BOOLEAN /\ c \in BOOLEAN /\ th \in BOOLEAN  BY <1>1, <2>3, <2>4
    <3>2. call' = [call EXCEPT !.pos = x, !.called = q, !.halted = h, !.core = c, !.threw = th]  BY <2>2
    <3> HIDE DEF x, n
    <3>3. /\ call' \in Calls /\ call'.pos = x /\ call'.end = call.end /\ call'.threw = th
          /\ call'.called = q /\ call'.start = call.start /\ call'.wild = call.wild
      BY <1>0, <3>1, <3>2 DEF Calls
    <3> QED  BY <3>3 DEF x
  <2>6. ListInv' /\ ResourceInv' /\ DiskInv' /\ Len(slots') = Len(slots)
    <3>1. CASE e = "UNLOAD"
      BY <1>0, <1>2, <2>1, <3>1, UnloadFacts
    <3>2. CASE e # "UNLOAD"
      <4>1. Members' = Members  BY <2>1, <3>2 DEF Members
      <4> QED  BY <1>0, <2>1, <3>2, <4>1 DEF ListInv, ResourceInv, DiskInv
    <3> QED  BY <3>1, <3>2
  <2>7. call'.pos \in 1..(call'.end + 1) /\ call'.end <= Len(slots')  BY <1>1, <2>5, <2>6
  <2>8. ASSUME ~th
        PROVE  /\ call'.end = size' /\ call'.start = Members' /\ ~call'.wild /\ Len(call'.called) = call'.pos - 1
               /\ \A i \in 1..(call'.pos - 1) : call'.called[i] = slots'[i]
    <3>1. UNCHANGED <<slots, size>> /\ ~call.threw  BY <2>1, <2>3, <2>8
    <3>2. Members' = Members  BY <3>1 DEF Members
    <3>3. /\ call.end = size /\ call.start = Members /\ ~call.wild /\ Len(call.called) = n - 1
          /\ \A i \in 1..(n - 1) : call.called[i] = slots[i]
      BY <1>0, <3>1 DEF InLoop
    <3>4. Len(q) = n /\ q[n] = slots[n]  BY <1>1, <2>4, <3>3
    <3>5. ASSUME NEW i \in 1..n PROVE q[i] = slots[i]
      <4>1. CASE i = n
        BY <3>4, <4>1
      <4>2. CASE i # n
        <5>1. i \in 1..(n - 1) /\ i \in 1..Len(call.called)  BY <1>1, <3>3, <4>2
        <5> QED  BY <2>4, <3>3, <5>1
      <4> QED  BY <4>1, <4>2
    <3>6. call'.pos - 1 = n  BY <1>1, <2>5
    <3> QED  BY <2>5, <3>1, <3>2, <3>3, <3>4, <3>5, <3>6
  <2>9. InLoop'  BY <2>5, <2>7, <2>8 DEF InLoop
  <2>10. CallInv'  BY <2>5, <2>9 DEF CallInv, Calls
  <2> QED  BY <2>6, <2>10 DEF HostInv
<1> QED  BY <1>4, <1>5

LEMMA HostInit == Mh!Init => HostInv
<1> SUFFICES ASSUME Mh!Init PROVE HostInv  OBVIOUS
<1>1. /\ slots = <<>> /\ size = 0 /\ own = [m \in Plugins |-> {}] /\ manager = {}
      /\ reg = [m \in Plugins |-> 0] /\ disk = [m \in Plugins |-> 0] /\ said = [m \in Plugins |-> 0]
      /\ call = Mh!Idle
  BY DEF Mh!Init
<1>2. ListInv  BY <1>1, EmptySeq DEF ListInv, Distinct
<1>3. Members = {}  BY <1>1 DEF Members, Of
<1>4. ResourceInv /\ DiskInv  BY <1>1, <1>3 DEF ResourceInv, DiskInv
<1>5. CallInv  BY <1>1, IdleFacts DEF CallInv
<1> QED  BY <1>2, <1>4, <1>5 DEF HostInv

LEMMA HostStep == HostInv /\ Mh!Next => HostInv'
<1> SUFFICES ASSUME HostInv, Mh!Next PROVE HostInv'  OBVIOUS
<1>1. \/ \E m \in Plugins : \/ Mh!LoadModule(m) \/ Mh!Unload(m) \/ Mh!ReloadMod(m)
                           \/ Mh!PanelLoad(m) \/ Mh!PanelUnload(m)
      \/ \E m \in Plugins, k \in Kinds : Mh!Add(m, k) \/ Mh!Remove_(m, k)
      \/ \E m \in Plugins, b \in BOOLEAN : Mh!SetNV(m, b)
      \/ Mh!Begin \/ Mh!Round \/ Mh!Return
  BY DEF Mh!Next
<1>2. ASSUME NEW m \in Plugins, \/ Mh!LoadModule(m) \/ Mh!Unload(m) \/ Mh!ReloadMod(m)
                                \/ Mh!PanelLoad(m) \/ Mh!PanelUnload(m)
      PROVE  HostInv'
  BY <1>2, LoadStep, UnloadStep, ReloadStep DEF Mh!ReloadMod, Mh!PanelLoad, Mh!PanelUnload
<1> QED  BY <1>1, <1>2, OwnStep, SetNVStep, BeginStep, RoundStep, ReturnStep

LEMMA HostStutter == HostInv /\ UNCHANGED mhVars => HostInv'
<1> SUFFICES ASSUME HostInv, UNCHANGED mhVars PROVE HostInv'  OBVIOUS
<1>1. UNCHANGED <<slots, size, own, manager, reg, disk, call, said>>  BY DEF mhVars
<1>2. ListInv /\ ResourceInv /\ DiskInv /\ CallInv  BY DEF HostInv
<1>3. ListInv' /\ CallInv' /\ Members' = Members  BY <1>1, <1>2, CallSame
<1>4. ResourceInv' /\ DiskInv'  BY <1>1, <1>2, <1>3 DEF ResourceInv, DiskInv
<1> QED  BY <1>3, <1>4 DEF HostInv

LEMMA HostRight == HostInv => Mh!TypeOK /\ Mh!NoOrphans /\ Mh!HookReachesAll
<1> SUFFICES ASSUME HostInv PROVE Mh!TypeOK /\ Mh!NoOrphans /\ Mh!HookReachesAll  OBVIOUS
<1>0. ListInv /\ ResourceInv /\ DiskInv /\ CallInv  BY DEF HostInv
<1>1. Mh!Range(Mh!Loaded) = Members /\ Members \subseteq Plugins /\ size \in Nat /\ Len(slots) \in Nat
  BY <1>0, LoadedFacts
<1>2. Mh!TypeOK
  <2>1. Mh!Range(slots) \subseteq Plugins
    <3>1. slots \in Seq(Plugins)  BY <1>0 DEF ListInv
    <3>2. DOMAIN slots = 1..Len(slots) /\ \A i \in 1..Len(slots) : slots[i] \in Plugins
      BY <3>1, ElementOfSeq, LenProperties
    <3> QED  BY <3>2 DEF Mh!Range
  <2>2. size \in 0..Len(slots)  BY <1>0 DEF ListInv
  <2>3. own \in [Plugins -> SUBSET Kinds] /\ manager \subseteq Plugins \X Kinds  BY <1>0 DEF ResourceInv
  <2>4. call.hook \in Events \cup {"none"}  BY <1>0 DEF CallInv, Calls
  <2> QED  BY <2>1, <2>2, <2>3, <2>4, HostAssumption DEF Mh!TypeOK
<1>3. Mh!NoOrphans
  <2>1. manager = {r \in Plugins \X Kinds : r[1] \in Members /\ r[2] \in own[r[1]]}
    <3>1. ASSUME NEW r \in Plugins \X Kinds PROVE r \in manager <=> r[1] \in Members /\ r[2] \in own[r[1]]
      <4>1. r = <<r[1], r[2]>> /\ r[1] \in Plugins /\ r[2] \in Kinds  OBVIOUS
      <4> QED  BY <1>0, <4>1 DEF ResourceInv
    <3> QED  BY <1>0, <3>1 DEF ResourceInv
  <2>2. \A m \in Plugins \ Members : disk[m] = said[m]  BY <1>0 DEF DiskInv
  <2> QED  BY <1>1, <2>1, <2>2 DEF Mh!NoOrphans
<1>4. Mh!HookReachesAll
  <2>1. ~call.threw => ~call.wild  BY <1>0, IdleFacts DEF CallInv, InLoop
  <2>2. ASSUME Mh!Finished, ~call.halted, ~call.threw, NEW m \in Members
        PROVE  \E i \in DOMAIN call.called : \A j \in DOMAIN call.called : call.called[j] = m <=> j = i
    <3>1. /\ call.end = size /\ Len(call.called) = call.pos - 1 /\ call.pos > call.end
          /\ call.pos \in 1..(call.end + 1) /\ \A i \in 1..(call.pos - 1) : call.called[i] = slots[i]
      BY <1>0, <2>2 DEF CallInv, InLoop, Mh!Finished
    <3>2. call.pos - 1 = size /\ Len(call.called) = size  BY <1>1, <3>1
    <3>3. call.called \in Seq(Plugins)  BY <1>0 DEF CallInv, Calls
    <3>4. DOMAIN call.called = 1..size  BY <3>2, <3>3, LenProperties
    <3>5. \A i \in 1..size : call.called[i] = slots[i]  BY <3>1, <3>2
    <3>6. PICK i \in 1..size : slots[i] = m  BY <2>2 DEF Members, Of
    <3>7. \A j \in 1..size : slots[j] = m <=> j = i  BY <1>0, <3>6 DEF ListInv, Distinct
    <3> QED  BY <3>4, <3>5, <3>6, <3>7
  <2> QED  BY <1>1, <2>1, <2>2 DEF Mh!HookReachesAll
<1> QED  BY <1>2, <1>3, <1>4

-----------------------------------------------------------------------------
(* What has an owner *)

LEMMA OwnersNext ==
  WebInv /\ HostInv /\ [PartsNext]_<<part, vars, wbVars, slVars, mhVars, ownVars>> => WebInv' /\ HostInv'
<1> SUFFICES ASSUME WebInv, HostInv, [PartsNext]_<<part, vars, wbVars, slVars, mhVars, ownVars>>
             PROVE  WebInv' /\ HostInv'
  OBVIOUS
<1>1. (Wb!Next /\ UNCHANGED mhVars) \/ (Mh!Next /\ UNCHANGED wbVars) \/ UNCHANGED <<wbVars, mhVars>>
  BY DEF PartsNext
<1> QED  BY <1>1, WebStep, WebStutter, HostStep, HostStutter

\* Timers, sockets and jobs end with their module and a hook reaches every module as long as
\* none throws; no session that a cookie leads to is of a deleted user, and a page is shown to
\* no browser that does not know the password of its user.  A session that a socket holds
\* outlives its user: once the socket uses him, nothing more is said (Web, fault).
THEOREM NothingOrphaned == PartsSpec => []NoOrphans
<1>1. PartsInit => WebInv /\ HostInv  BY WebInit, HostInit DEF PartsInit
<1>2. WebInv /\ HostInv => NoOrphans  BY WebRight, HostRight DEF NoOrphans
<1> QED  BY <1>1, <1>2, OwnersNext, PTL DEF PartsSpec
=============================================================================
