---------------------------- MODULE MCOwners_proof ----------------------------
(***************************************************************************)
(* Proofs about the lookups (Resolver), for any sockets; about users,       *)
(* networks and registries (Accounts), for any users, any names and values  *)
(* and any limits; and about the instance in which they stand side by side. *)
(***************************************************************************)
EXTENDS MCOwners, TLAPS

-----------------------------------------------------------------------------
(* The lookups *)

\* A job that ends has a task because of JobsMatchTask, and an entry that FinishConnect
\* erases belongs to a socket that resolves no more.
ResolverInv == TypeOK /\ JobsMatchTask /\ MarksExact /\ FamiliesMatch

ChosenPairs == Families \X (Families \cup {"any"})

\* An address pair is picked exactly when some family fits: any family of the
\* target without a bind host, else one that target and bind host share.
LEMMA ChoicesFit ==
  ASSUME NEW t \in Tasks
  PROVE  Choices(t) = IF t.bindhost THEN {<<f, f>> : f \in t.aiTarget \cap t.aiBind}
                      ELSE {<<f, "any">> : f \in t.aiTarget}
<1>1. t.aiTarget \in SUBSET Families /\ t.aiBind \in SUBSET Families
  BY DEF Tasks
<1>2. CASE ~t.bindhost
  BY <1>2 DEF Choices
<1>3. CASE t.bindhost
  <2>1. CASE "IPv4" \notin t.aiBind
    BY <1>1, <1>3, <2>1 DEF Choices, Families
  <2>2. CASE "IPv4" \in t.aiBind /\ "IPv6" \notin t.aiBind
    BY <1>1, <1>3, <2>2 DEF Choices, Families
  <2>3. CASE "IPv4" \in t.aiBind /\ "IPv6" \in t.aiBind
    BY <1>1, <1>3, <2>3 DEF Choices, Families
  <2> QED BY <2>1, <2>2, <2>3
<1> QED BY <1>2, <1>3

\* Every pick is a pair of families that fit.
LEMMA ChoicesMatch ==
  ASSUME NEW t \in Tasks, NEW c \in Choices(t)
  PROVE  c \in ChosenPairs /\ c[2] \in {"any", c[1]}
<1>1. t.aiTarget \in SUBSET Families
  BY DEF Tasks
<1> QED BY <1>1, ChoicesFit DEF ChosenPairs, Families

\* The invariant holds at the start.
LEMMA ResolverInit == Init => ResolverInv
<1> SUFFICES ASSUME Init PROVE ResolverInv
  OBVIOUS
<1>1. NoTask \in Tasks /\ ~NoTask.active
  BY DEF NoTask, Tasks
<1>2. TypeOK
  BY <1>1 DEF Init, TypeOK
<1>3. JobsMatchTask /\ MarksExact /\ FamiliesMatch
  BY <1>1 DEF Init, JobsMatchTask, MarksExact, FamiliesMatch
<1> QED BY <1>2, <1>3 DEF ResolverInv

\* CSockManager::Connect keeps it, also when the address is in the map already.
LEMMA ConnectInv ==
  ASSUME ResolverInv, NEW k \in Socks, NEW b \in BOOLEAN, Connect(k, b)
  PROVE  ResolverInv'
<1> USE DEF ResolverInv, Connect
<1>1. NewTask(b) \in Tasks
  BY DEF NewTask, NoTask, Tasks
<1>2. TypeOK'
  <2>1. {<<k, FALSE>>} \cup (IF b THEN {<<k, TRUE>>} ELSE {}) \subseteq Socks \X BOOLEAN
    <3>1. <<k, FALSE>> \in Socks \X BOOLEAN /\ <<k, TRUE>> \in Socks \X BOOLEAN
      OBVIOUS
    <3> QED BY <3>1, Zenon
  <2>2. jobs' = jobs \cup ({<<k, FALSE>>} \cup (IF b THEN {<<k, TRUE>>} ELSE {}))
    BY Zenon
  <2>3. jobs' \subseteq Socks \X BOOLEAN
    BY <2>1, <2>2, Zenon DEF TypeOK
  <2>4. task' \in [Socks -> Tasks] /\ inFlight' \in [Socks -> {"absent", "resolving", "deleted"}]
    BY <1>1 DEF TypeOK, Registered
  <2>5. /\ obj' \in [Socks -> {"none", "resolving", "listed", "leaked"}]
        /\ owned' \in [Socks -> BOOLEAN]
    BY DEF TypeOK
  <2> QED BY <2>3, <2>4, <2>5 DEF TypeOK
<1>3. JobsMatchTask'
  BY DEF TypeOK, JobsMatchTask, NewTask, NoTask
<1>4. MarksExact'
  BY DEF TypeOK, MarksExact, Registered
<1>5. FamiliesMatch'
  BY DEF TypeOK, FamiliesMatch
<1> QED BY <1>2, <1>3, <1>4, <1>5

\* So does the end of a job, the first or the last of its socket.
LEMMA JobFinishedInv ==
  ASSUME ResolverInv, NEW k \in Socks, NEW b \in BOOLEAN, NEW r \in SUBSET Families,
         JobFinished(k, b, r)
  PROVE  ResolverInv'
<1> DEFINE t == Stored(task[k], b, r)
<1>1. t \in Tasks /\ NoTask \in Tasks /\ ~NoTask.active
  <2>1. task[k] \in Tasks
    BY DEF ResolverInv, TypeOK
  <2>2. CASE b
    BY <2>1, <2>2 DEF Stored, Tasks, NoTask
  <2>3. CASE ~b
    BY <2>1, <2>3 DEF Stored, Tasks, NoTask
  <2> QED BY <2>2, <2>3
<1>2. /\ <<k, b>> \in jobs /\ jobs' = jobs \ {<<k, b>>}
      /\ task[k].active /\ obj[k] = "resolving"
  BY DEF JobFinished, ResolverInv, JobsMatchTask
<1>3. /\ t.active
      /\ b => t.bDoneBind /\ t.bDoneTarget = task[k].bDoneTarget
      /\ ~b => t.bDoneTarget /\ t.bDoneBind = task[k].bDoneBind
  BY <1>2 DEF Stored, ResolverInv, TypeOK, Tasks
<1>4. CASE ~(t.bDoneBind /\ t.bDoneTarget)
  <2>1. /\ task' = [task EXCEPT ![k] = t]
        /\ UNCHANGED <<obj, owned, inFlight, conn, crashed>>
    BY <1>4 DEF JobFinished
  <2>2. TypeOK'
    BY <1>1, <1>2, <2>1 DEF ResolverInv, TypeOK
  <2>3. JobsMatchTask'
    BY <1>2, <1>3, <2>1 DEF ResolverInv, TypeOK, JobsMatchTask
  <2>4. MarksExact' /\ FamiliesMatch'
    BY <2>1 DEF ResolverInv, MarksExact, FamiliesMatch
  <2> QED BY <2>2, <2>3, <2>4 DEF ResolverInv
<1>5. CASE t.bDoneBind /\ t.bDoneTarget
  <2>1. task' = [task EXCEPT ![k] = NoTask]
    BY <1>5 DEF JobFinished
  <2>2. obj' \in {[obj EXCEPT ![k] = "none"], [obj EXCEPT ![k] = "leaked"],
                  [obj EXCEPT ![k] = "listed"]}
    BY <1>5 DEF JobFinished, ReportError, FinishConnect
  <2>3. <<k, TRUE>> \notin jobs' /\ <<k, FALSE>> \notin jobs'
    BY <1>2, <1>3, <1>5 DEF ResolverInv, JobsMatchTask, TypeOK
  <2>4. JobsMatchTask'
    BY <1>1, <1>2, <2>1, <2>2, <2>3 DEF ResolverInv, TypeOK, JobsMatchTask
  <2>5. CASE Choices(t) = {} /\ ReportError(k)
    <3>1. TypeOK'
      BY <1>1, <1>2, <2>1, <2>5 DEF ResolverInv, TypeOK, ReportError
    <3>2. MarksExact'
      BY <2>5 DEF ResolverInv, TypeOK, MarksExact, ReportError
    <3>3. FamiliesMatch'
      BY <1>2, <2>5 DEF ResolverInv, TypeOK, FamiliesMatch, ReportError
    <3> QED BY <2>4, <3>1, <3>2, <3>3 DEF ResolverInv
  <2>6. ASSUME NEW c \in Choices(t), FinishConnect(k, c)
        PROVE  ResolverInv'
    <3>1. c \in ChosenPairs /\ c[2] \in {"any", c[1]}
      BY <1>1, ChoicesMatch
    <3>2. TypeOK'
      BY <1>1, <1>2, <2>1, <2>6, <3>1 DEF ResolverInv, TypeOK, FinishConnect, ChosenPairs
    <3>3. MarksExact'
      BY <2>6 DEF ResolverInv, TypeOK, MarksExact, FinishConnect
    <3>4. FamiliesMatch'
      BY <1>2, <2>6, <3>1 DEF ResolverInv, TypeOK, FamiliesMatch, FinishConnect
    <3> QED BY <2>4, <3>2, <3>3, <3>4 DEF ResolverInv
  <2> QED BY <1>5, <2>5, <2>6 DEF JobFinished
<1> QED BY <1>4, <1>5

\* So do the events of sockets that do not resolve, and the end of an owner.
LEMMA OthersInv ==
  ASSUME ResolverInv, NEW k \in Socks,
         OpenDirectly(k) \/ OwnerDestroyed(k) \/ SockEnds(k)
  PROVE  ResolverInv'
<1>1. CASE OpenDirectly(k)
  BY <1>1 DEF OpenDirectly, ResolverInv, TypeOK, JobsMatchTask, MarksExact, FamiliesMatch
<1>2. CASE OwnerDestroyed(k)
  <2>1. TypeOK'
    BY <1>2 DEF OwnerDestroyed, Deleted, ResolverInv, TypeOK
  <2>2. JobsMatchTask'
    BY <1>2 DEF OwnerDestroyed, ResolverInv, TypeOK, JobsMatchTask
  <2>3. MarksExact'
    BY <1>2 DEF OwnerDestroyed, Deleted, ResolverInv, TypeOK, MarksExact
  <2>4. FamiliesMatch'
    BY <1>2 DEF OwnerDestroyed, ResolverInv, TypeOK, FamiliesMatch
  <2> QED BY <2>1, <2>2, <2>3, <2>4 DEF ResolverInv
<1>3. CASE SockEnds(k)
  BY <1>3 DEF SockEnds, ResolverInv, TypeOK, JobsMatchTask, MarksExact, FamiliesMatch
<1> QED BY <1>1, <1>2, <1>3

\* The invariant is inductive.
LEMMA ResolverNext == ResolverInv /\ [Next]_vars => ResolverInv'
<1> SUFFICES ASSUME ResolverInv, [Next]_vars
             PROVE  ResolverInv'
  OBVIOUS
<1>1. CASE UNCHANGED vars
  BY <1>1 DEF vars, ResolverInv, TypeOK, JobsMatchTask, MarksExact, FamiliesMatch
<1>2. ASSUME NEW k \in Socks, NEW b \in BOOLEAN, Connect(k, b)
      PROVE  ResolverInv'
  BY <1>2, ConnectInv
<1>3. ASSUME NEW k \in Socks, NEW b \in BOOLEAN, NEW r \in SUBSET Families,
             JobFinished(k, b, r)
      PROVE  ResolverInv'
  BY <1>3, JobFinishedInv
<1>4. ASSUME NEW k \in Socks, OpenDirectly(k) \/ OwnerDestroyed(k) \/ SockEnds(k)
      PROVE  ResolverInv'
  BY <1>4, OthersInv
<1> QED BY <1>1, <1>2, <1>3, <1>4 DEF Next, Ended

\* All four parts hold in every reachable state.
LEMMA ResolverInvariant == Spec => []ResolverInv
BY ResolverInit, ResolverNext, PTL DEF Spec

\* For any number of sockets the state of the resolver has its type.
THEOREM ResolverTypeCorrect == Spec => []TypeOK
<1>1. ResolverInv => TypeOK
  BY DEF ResolverInv
<1> QED BY <1>1, ResolverInvariant, PTL

\* The lookups of a socket (Connect, SetTDNSThreadFinished) are joined once: the
\* task lives exactly as long as jobs for it are out.
THEOREM LookupsJoined == Spec => []JobsMatchTask
<1>1. ResolverInv => JobsMatchTask
  BY DEF ResolverInv
<1> QED BY <1>1, ResolverInvariant, PTL

\* m_InFlightDnsSockets is right about every socket that resolves, also when
\* addresses are reused and failed lookups leave their entries in the map.
THEOREM MarksCorrect == Spec => []MarksExact
<1>1. ResolverInv => MarksExact
  BY DEF ResolverInv
<1> QED BY <1>1, ResolverInvariant, PTL

\* A socket is connected with a bind host of its target's family.
THEOREM FamiliesCorrect == Spec => []FamiliesMatch
<1>1. ResolverInv => FamiliesMatch
  BY DEF ResolverInv
<1> QED BY <1>1, ResolverInvariant, PTL
-----------------------------------------------------------------------------
(* Users, networks and registries *)

CNetwork == [user : Users, name : Names, reg : {"none", ""} \union Values, dir : Users \X Names]
Files == [Users \X Names -> {""} \union Values]
Places == [Users -> Names \union {"", "closed"}]

\* The parts of Owned, each of what it is about.
Homed(S, U) == \A n \in S : n.user \in U
Unique(S) == \A n, m \in S : n.user = m.user /\ Ac!Lower(n.name) = Ac!Lower(m.name) => n = m
Placed(where, S) == \A u \in Users :
  where[u] \notin {"", "closed"} => \E n \in S : n.user = u /\ n.name = where[u]

\* A module that is loaded saves where its network is, and has saved what it holds.
Filed(S, files) == \A n \in S : n.reg # "none" => n.dir = Ac!Own(n) /\ files[n.dir] = n.reg

\* The inductive invariant.  Owned says nothing of the directories; it holds after a
\* module saved because each saves into the directory of its own network.
AccountsInv == /\ Ac!TypeOK
               /\ Homed(nets, users) /\ Unique(nets) /\ Placed(at, nets)
               /\ ~halfway => Filed(nets, disk)
               /\ kept

LEMMA AccountsOwned == AccountsInv => Ac!Owned
<1> SUFFICES ASSUME AccountsInv PROVE Ac!Owned
  OBVIOUS
<1>1. \A n \in nets : n.user \in users /\ Ac!FindNetwork(n.user, n.name) = {n}
  BY DEF AccountsInv, Homed, Unique, Ac!FindNetwork, Ac!NetworksOf
<1>2. \A u \in Users : at[u] \notin {"", "closed"} => \E n \in Ac!NetworksOf(u) : n.name = at[u]
  BY DEF AccountsInv, Placed, Ac!NetworksOf
<1>3. ~halfway => \A n \in nets : n.reg # "none" => disk[Ac!Own(n)] = n.reg
  BY DEF AccountsInv, Filed
<1> QED  BY <1>1, <1>2, <1>3 DEF AccountsInv, Ac!Owned

LEMMA AccountsInit == Ac!Init => AccountsInv
  BY DEF Ac!Init, AccountsInv, Ac!TypeOK, Homed, Unique, Placed, Filed
-----------------------------------------------------------------------------
(* The operators of Accounts *)

LEMMA FreshFacts ==
  ASSUME NEW u \in Users, NEW name \in Names
  PROVE  LET new == Ac!Fresh(u, name)
         IN  /\ new \in CNetwork /\ new.user = u /\ new.name = name /\ new.reg = "none"
             /\ new.dir = <<u, name>>
  BY DEF Ac!Fresh, CNetwork

LEMMA LoadFacts ==
  ASSUME NEW n \in CNetwork, NEW files \in Files
  PROVE  LET new == Ac!Load(n, files)
         IN  /\ new \in CNetwork /\ new.user = n.user /\ new.name = n.name
             /\ new.dir = Ac!Own(n) /\ Ac!Own(new) = Ac!Own(n) /\ new.reg = files[new.dir]
<1>1. Ac!Own(n) \in Users \X Names  BY DEF Ac!Own, CNetwork
<1>2. files[Ac!Own(n)] \in {""} \union Values  BY <1>1 DEF Files
<1> QED  BY <1>1, <1>2 DEF Ac!Load, CNetwork, Ac!Own

\* Clone gives an empty module, or one with what is on disk.
IsClone(old, u, name, files, new) ==
  /\ new \in CNetwork /\ new.user = u /\ new.name = name /\ new.dir = <<u, name>>
  /\ old.reg = "none" => new.reg = "none"
  /\ old.reg # "none" => new.reg = files[<<u, name>>]

LEMMA CloneFacts ==
  ASSUME NEW old \in CNetwork, NEW u \in Users, NEW name \in Names, NEW files \in Files
  PROVE  IsClone(old, u, name, files, Ac!Clone(old, Ac!Fresh(u, name), files))
<1> DEFINE new == Ac!Clone(old, Ac!Fresh(u, name), files)
<1> SUFFICES IsClone(old, u, name, files, new)
  OBVIOUS
<1> DEFINE fresh == Ac!Fresh(u, name)
<1>1. /\ fresh \in CNetwork /\ fresh.user = u /\ fresh.name = name /\ fresh.reg = "none"
      /\ fresh.dir = <<u, name>>
  BY FreshFacts
<1> HIDE DEF fresh
<1>2. CASE old.reg = "none"  BY <1>1, <1>2 DEF Ac!Clone, fresh, IsClone
<1>3. CASE old.reg # "none"
  <2>3. new = Ac!Load(fresh, files)  BY <1>3 DEF Ac!Clone, fresh
  <2> HIDE DEF new
  <2>1. /\ new \in CNetwork /\ new.user = u /\ new.name = name
        /\ new.dir = Ac!Own(fresh) /\ new.reg = files[new.dir]
    BY <1>1, <2>3, LoadFacts
  <2>2. Ac!Own(fresh) = <<u, name>>  BY <1>1 DEF Ac!Own
  <2> QED  BY <1>3, <2>1, <2>2 DEF IsClone
<1> QED  BY <1>2, <1>3

\* Each module of S saves into its directory; other files stay as they are.
LEMMA SavedFacts ==
  ASSUME NEW S \in SUBSET CNetwork, NEW files \in Files,
         \A n, m \in S : n.reg # "none" /\ m.reg # "none" /\ n.dir = m.dir => n = m
  PROVE  /\ Ac!Saved(S, files) \in Files
         /\ \A n \in S : n.reg # "none" => Ac!Saved(S, files)[n.dir] = n.reg
         /\ \A d \in Users \X Names : (\A n \in S : n.reg # "none" => n.dir # d)
                                        => Ac!Saved(S, files)[d] = files[d]
<1> DEFINE Here(d) == {n \in S : n.dir = d /\ n.reg # "none"}
<1>1. DOMAIN files = Users \X Names  BY DEF Files
<1>2. Ac!Saved(S, files) = [d \in Users \X Names |->
        IF Here(d) = {} THEN files[d] ELSE (CHOOSE n \in Here(d) : TRUE).reg]
  BY <1>1 DEF Ac!Saved
<1>3. \A d \in Users \X Names : Here(d) # {} => (CHOOSE n \in Here(d) : TRUE) \in Here(d)
  OBVIOUS
<1>4. \A n \in CNetwork : n.reg # "none" => n.reg \in {""} \union Values  BY DEF CNetwork
<1>5. \A d \in Users \X Names :
        (IF Here(d) = {} THEN files[d] ELSE (CHOOSE n \in Here(d) : TRUE).reg) \in {""} \union Values
  BY <1>3, <1>4 DEF Files
<1>6. \A n \in S : n.reg # "none" => n.dir \in Users \X Names /\ Here(n.dir) = {n}
  BY DEF CNetwork
<1>7. \A n \in S : n.reg # "none" => (CHOOSE m \in Here(n.dir) : TRUE) = n
  BY <1>6
<1> HIDE DEF Here
<1>8. Ac!Saved(S, files) \in Files  BY <1>2, <1>5 DEF Files
<1>9. \A n \in S : n.reg # "none" => Ac!Saved(S, files)[n.dir] = n.reg
  BY <1>2, <1>6, <1>7
<1>10. \A d \in Users \X Names : (\A n \in S : n.reg # "none" => n.dir # d) => Here(d) = {}
  BY DEF Here
<1> QED  BY <1>2, <1>8, <1>9, <1>10

LEMMA SavedOne ==
  ASSUME NEW n \in CNetwork, NEW files \in Files
  PROVE  /\ Ac!Saved({n}, files) \in Files
         /\ n.reg # "none" => Ac!Saved({n}, files)[n.dir] = n.reg
         /\ \A d \in Users \X Names : d # n.dir \/ n.reg = "none" => Ac!Saved({n}, files)[d] = files[d]
<1> DEFINE S == {n}
<1>1. S \in SUBSET CNetwork /\ n \in S /\ \A m \in S : m = n  OBVIOUS
<1> HIDE DEF S
<1>2. \A m, k \in S : m.reg # "none" /\ k.reg # "none" /\ m.dir = k.dir => m = k  BY <1>1
<1>3. /\ Ac!Saved(S, files) \in Files
      /\ \A m \in S : m.reg # "none" => Ac!Saved(S, files)[m.dir] = m.reg
      /\ \A d \in Users \X Names : (\A m \in S : m.reg # "none" => m.dir # d)
                                      => Ac!Saved(S, files)[d] = files[d]
  BY <1>1, <1>2, SavedFacts
<1>4. /\ n.reg # "none" => Ac!Saved(S, files)[n.dir] = n.reg
      /\ \A d \in Users \X Names : d # n.dir \/ n.reg = "none" => Ac!Saved(S, files)[d] = files[d]
  BY <1>1, <1>3
<1> QED  BY <1>3, <1>4 DEF S

\* MoveRegistry changes the directory at most, and copies the file if there is one.
MovesTo(n, dir, old, files) ==
  /\ old \in CNetwork /\ old.user = n.user /\ old.name = n.name /\ old.reg = n.reg
  /\ files \in Files
  /\ \/ old = n /\ files = disk /\ (n.reg = "none" \/ n.dir = dir \/ disk[n.dir] = "")
     \/ /\ n.reg # "none" /\ n.dir # dir /\ disk[n.dir] # ""
        /\ old.dir = dir /\ files[dir] = disk[n.dir]
        /\ \A d \in Users \X Names : d # dir => files[d] = disk[d]

LEMMA MoveRegistryFacts ==
  ASSUME Ac!TypeOK, NEW n \in CNetwork, NEW dir \in Users \X Names
  PROVE  MovesTo(n, dir, Ac!MoveRegistry(n, dir), Ac!Copied(n, dir))
<1> DEFINE old == Ac!MoveRegistry(n, dir)
           files == Ac!Copied(n, dir)
<1> SUFFICES MovesTo(n, dir, old, files)
  OBVIOUS
<1>1. disk \in Files  BY DEF Ac!TypeOK, Files
<1>2. n.dir \in Users \X Names /\ disk[n.dir] \in {""} \union Values  BY <1>1 DEF CNetwork, Files
<1>3. CASE n.reg # "none" /\ n.dir # dir /\ disk[n.dir] # ""
  <2>0. old = [n EXCEPT !.dir = dir]  BY <1>3 DEF Ac!MoveRegistry
  <2>1. /\ old \in CNetwork /\ old.user = n.user /\ old.name = n.name /\ old.reg = n.reg
        /\ old.dir = dir
    BY <2>0 DEF CNetwork
  <2>3. old # n  BY <1>3, <2>1
  <2>4. files = [disk EXCEPT ![dir] = disk[n.dir]]  BY <2>3 DEF Ac!Copied
  <2> HIDE DEF old, files
  <2>5. files \in Files  BY <1>1, <1>2, <2>4 DEF Files
  <2>6. files[dir] = disk[n.dir]  BY <1>1, <2>4 DEF Files
  <2>7. \A d \in Users \X Names : d # dir => files[d] = disk[d]
    BY <1>1, <2>4 DEF Files
  <2> QED  BY <1>3, <2>1, <2>5, <2>6, <2>7 DEF MovesTo
<1>4. CASE ~(n.reg # "none" /\ n.dir # dir /\ disk[n.dir] # "")
  <2>1. old = n  BY <1>4 DEF Ac!MoveRegistry
  <2>2. files = disk  BY <2>1 DEF Ac!Copied
  <2> HIDE DEF old, files
  <2> QED  BY <1>1, <1>4, <2>1, <2>2 DEF MovesTo
<1> QED  BY <1>3, <1>4

\* Clients of the networks that go are closed; the others stay where they are.
LEMMA ClosedFacts ==
  ASSUME NEW S, NEW T, NEW where \in Places, Placed(where, S),
         NEW n, \A m \in S : m = n \/ m \in T
  PROVE  Ac!Closed({n}, where) \in Places /\ Placed(Ac!Closed({n}, where), T)
<1> DEFINE w == Ac!Closed({n}, where)
<1>1. w = [u \in Users |-> IF n.user = u /\ n.name = where[u] THEN "closed" ELSE where[u]]
  BY DEF Ac!Closed
<1>2. w \in Places  BY <1>1 DEF Places
<1>3. Placed(w, T)
  <2> SUFFICES ASSUME NEW u \in Users, w[u] \notin {"", "closed"}
               PROVE  \E m \in T : m.user = u /\ m.name = w[u]
    BY DEF Placed
  <2>1. w[u] = where[u] /\ ~(n.user = u /\ n.name = where[u])  BY <1>1
  <2>2. PICK m \in S : m.user = u /\ m.name = where[u]  BY <2>1 DEF Placed
  <2> QED  BY <2>1, <2>2
<1> QED  BY <1>2, <1>3
-----------------------------------------------------------------------------
(* Steps *)

\* Types, with the names used here.
LEMMA AccountsTypes ==
  Ac!TypeOK <=> /\ users \subseteq Users /\ dying \subseteq users /\ halfway \in BOOLEAN
                /\ nets \in SUBSET CNetwork /\ at \in Places /\ disk \in Files
  BY DEF Ac!TypeOK, CNetwork, Places, Files

\* Directories are apart because names are.
LEMMA DirsApart ==
  ASSUME NEW S, Unique(S), NEW files, Filed(S, files), NEW n \in S, NEW m \in S,
         n.reg # "none", m.reg # "none", n.dir = m.dir
  PROVE  n = m
<1>1. <<n.user, n.name>> = <<m.user, m.name>>  BY DEF Filed, Ac!Own
<1>2. n.user = m.user /\ n.name = m.name  BY <1>1
<1> QED  BY <1>2 DEF Unique

\* A module of another network changes: LOADMOD, UNLOADMOD, SetNV.
LEMMA Replaced ==
  ASSUME AccountsInv, NEW n \in nets, NEW m \in CNetwork, m.user = n.user, m.name = n.name,
         NEW S, S = (nets \ {n}) \union {m}
  PROVE  S \in SUBSET CNetwork /\ Homed(S, users) /\ Unique(S) /\ Placed(at, S)
<1>1. S \in SUBSET CNetwork  BY AccountsTypes DEF AccountsInv
<1>2. Homed(S, users)  BY DEF AccountsInv, Homed
<1>3. Unique(S)  BY DEF AccountsInv, Unique
<1>4. Placed(at, S)
  <2> SUFFICES ASSUME NEW u \in Users, at[u] \notin {"", "closed"}
               PROVE  \E k \in S : k.user = u /\ k.name = at[u]
    BY DEF Placed
  <2>1. PICK k \in nets : k.user = u /\ k.name = at[u]  BY DEF AccountsInv, Placed
  <2> QED  BY <2>1
<1> QED  BY <1>1, <1>2, <1>3, <1>4

LEMMA AddedInv ==
  ASSUME AccountsInv, NEW u \in users, NEW name \in Names, Ac!Added(u, name),
         UNCHANGED <<users, dying, at, disk, kept, halfway>>
  PROVE  AccountsInv'
<1> DEFINE new == Ac!Fresh(u, name)
<1>1. u \in Users  BY AccountsTypes DEF AccountsInv
<1>2. new \in CNetwork /\ new.user = u /\ new.name = name /\ new.reg = "none"  BY <1>1, FreshFacts
<1> HIDE DEF new
<1>3. nets' = nets \union {new} /\ Ac!FindNetwork(u, name) = {}  BY DEF Ac!Added, new
<1>4. \A n \in nets : ~(n.user = u /\ Ac!Lower(n.name) = Ac!Lower(name))
  BY <1>3 DEF Ac!FindNetwork, Ac!NetworksOf
<1>5. Ac!TypeOK'  BY <1>2, <1>3, AccountsTypes DEF AccountsInv, Ac!TypeOK, CNetwork
<1>6. Homed(nets', users)  BY <1>2, <1>3 DEF AccountsInv, Homed
<1>7. Unique(nets')  BY <1>2, <1>3, <1>4 DEF AccountsInv, Unique
<1>8. Placed(at, nets')  BY <1>3 DEF AccountsInv, Placed
<1>9. ~halfway => Filed(nets', disk)  BY <1>2, <1>3 DEF AccountsInv, Filed
<1>10. Placed(at, nets)' /\ Homed(nets, users)' /\ Unique(nets)' /\ (~halfway => Filed(nets, disk))'
  BY <1>6, <1>7, <1>8, <1>9 DEF Placed, Homed, Unique, Filed
<1> QED  BY <1>5, <1>10 DEF AccountsInv

LEMMA DeletedInv ==
  ASSUME AccountsInv, NEW n \in nets, NEW where \in Places, Placed(where, nets),
         Ac!Deleted(n, where), UNCHANGED <<users, dying, kept, halfway>>
  PROVE  AccountsInv'
<1>1. n \in CNetwork /\ disk \in Files  BY AccountsTypes DEF AccountsInv
<1>2. nets' = nets \ {n} /\ disk' = Ac!Saved({n}, disk) /\ at' = Ac!Closed({n}, where)
  BY DEF Ac!Deleted
<1>3. at' \in Places /\ Placed(at', nets')
  BY <1>2, ClosedFacts
<1>4. /\ disk' \in Files
      /\ \A d \in Users \X Names : d # n.dir \/ n.reg = "none" => disk'[d] = disk[d]
  BY <1>1, <1>2, SavedOne
<1>5. Ac!TypeOK'  BY <1>2, <1>3, <1>4, AccountsTypes DEF AccountsInv, Ac!TypeOK, Places, Files
<1>6. Homed(nets', users) /\ Unique(nets')  BY <1>2 DEF AccountsInv, Homed, Unique
<1>7. ~halfway => Filed(nets', disk')
  <2> SUFFICES ASSUME ~halfway, NEW m \in nets', m.reg # "none"
               PROVE  m.dir = Ac!Own(m) /\ disk'[m.dir] = m.reg
    BY DEF Filed
  <2>1. Filed(nets, disk) /\ m \in nets /\ m # n  BY <1>2 DEF AccountsInv
  <2>2. m.dir \in Users \X Names  BY <2>1, AccountsTypes DEF AccountsInv, CNetwork
  <2>3. n.reg = "none" \/ m.dir # n.dir  BY <2>1, DirsApart DEF AccountsInv
  <2> QED  BY <1>4, <2>1, <2>2, <2>3 DEF Filed
<1>8. Placed(at, nets)' /\ Homed(nets, users)' /\ Unique(nets)' /\ (~halfway => Filed(nets, disk))'
  BY <1>3, <1>6, <1>7 DEF Placed, Homed, Unique, Filed
<1> QED  BY <1>5, <1>8 DEF AccountsInv

\* A client that leaves the network it is on.
LEMMA LeftPlaced ==
  ASSUME AccountsInv, NEW u \in Users, NEW v \in {"", "closed"}
  PROVE  [at EXCEPT ![u] = v] \in Places /\ Placed([at EXCEPT ![u] = v], nets)
  BY AccountsTypes DEF AccountsInv, Places, Placed

\* Only clients move.
LEMMA AtInv ==
  ASSUME AccountsInv, at' \in Places, Placed(at', nets),
         UNCHANGED <<users, nets, dying, disk, kept, halfway>>
  PROVE  AccountsInv'
<1>1. Ac!TypeOK'  BY DEF AccountsInv, Ac!TypeOK, Places
<1>2. Placed(at, nets)' /\ Homed(nets, users)' /\ Unique(nets)' /\ (~halfway => Filed(nets, disk))'
  BY DEF AccountsInv, Placed, Homed, Unique, Filed
<1> QED  BY <1>1, <1>2 DEF AccountsInv

LEMMA AddInv ==
  ASSUME AccountsInv, Ac!StatusAddNetwork \/ Ac!PanelAddNetwork \/ Ac!WebAddNetwork
  PROVE  AccountsInv'
<1>1. PICK u \in users, name \in Names : /\ Ac!Added(u, name)
                                         /\ UNCHANGED <<users, dying, at, disk, kept, halfway>>
  BY Zenon DEF Ac!StatusAddNetwork, Ac!PanelAddNetwork, Ac!WebAddNetwork
<1> QED  BY <1>1, AddedInv

LEMMA DelInv ==
  ASSUME AccountsInv, Ac!StatusDelNetwork \/ Ac!PanelDelNetwork \/ Ac!WebDelNetwork
  PROVE  AccountsInv'
<1>0. at \in Places /\ Placed(at, nets) /\ users \subseteq Users
  BY AccountsTypes DEF AccountsInv
<1>1. CASE Ac!StatusDelNetwork
  <2>1. PICK u \in users : \E n \in Ac!NetworksOf(u), ok \in BOOLEAN :
               LET where == IF at[u] = n.name THEN [at EXCEPT ![u] = ""] ELSE at
               IN  /\ IF ok THEN Ac!Deleted(n, where) ELSE at' = where /\ UNCHANGED <<nets, disk>>
                   /\ UNCHANGED <<users, dying, kept, halfway>>
    BY <1>1, Zenon DEF Ac!StatusDelNetwork
  <2>2. PICK n \in Ac!NetworksOf(u), ok \in BOOLEAN :
               LET where == IF at[u] = n.name THEN [at EXCEPT ![u] = ""] ELSE at
               IN  /\ IF ok THEN Ac!Deleted(n, where) ELSE at' = where /\ UNCHANGED <<nets, disk>>
                   /\ UNCHANGED <<users, dying, kept, halfway>>
    BY <2>1
  <2> DEFINE where == IF at[u] = n.name THEN [at EXCEPT ![u] = ""] ELSE at
  <2>3. where \in Places /\ Placed(where, nets)  BY <1>0, LeftPlaced
  <2> HIDE DEF where
  <2>4. n \in nets  BY <2>2 DEF Ac!NetworksOf
  <2>5. /\ IF ok THEN Ac!Deleted(n, where) ELSE at' = where /\ UNCHANGED <<nets, disk>>
        /\ UNCHANGED <<users, dying, kept, halfway>>
    BY <2>2 DEF where
  <2>6. CASE ok  BY <2>3, <2>4, <2>5, <2>6, DeletedInv
  <2>7. CASE ~ok  BY <2>3, <2>5, <2>7, AtInv
  <2> QED  BY <2>6, <2>7
<1>2. CASE Ac!PanelDelNetwork \/ Ac!WebDelNetwork
  <2>1. PICK u \in users : \E n \in Ac!NetworksOf(u) :
               Ac!Deleted(n, at) /\ UNCHANGED <<users, dying, kept, halfway>>
    BY <1>2, Zenon DEF Ac!PanelDelNetwork, Ac!WebDelNetwork
  <2>2. PICK n \in Ac!NetworksOf(u) : Ac!Deleted(n, at) /\ UNCHANGED <<users, dying, kept, halfway>>
    BY <2>1
  <2>3. n \in nets  BY <2>2 DEF Ac!NetworksOf
  <2> QED  BY <1>0, <2>2, <2>3, DeletedInv
<1> QED  BY <1>1, <1>2

\* A network is moved or renamed: before the old one goes, and after.
LEMMA MovedFacts ==
  ASSUME AccountsInv, ~halfway, NEW n \in nets, NEW v \in users, NEW name \in Names,
         Ac!FindNetwork(v, name) = {},
         NEW dir, dir = <<v, name>>,
         NEW old, old = Ac!MoveRegistry(n, dir), NEW files, files = Ac!Copied(n, dir),
         NEW new, new = Ac!Clone(old, Ac!Fresh(v, name), files)
  PROVE  /\ files \in Files /\ old \in CNetwork /\ new \in CNetwork
         /\ old.user = n.user /\ old.name = n.name /\ new.user = v /\ new.name = name
         /\ \A m \in nets : ~(m.user = v /\ Ac!Lower(m.name) = Ac!Lower(name))
         /\ Ac!Keeps(n, new)
         /\ Ac!Saved({old}, files) \in Files
         /\ Filed((nets \ {n}) \union {new}, Ac!Saved({old}, files))
<1>1. n \in CNetwork /\ v \in Users /\ disk \in Files /\ Ac!TypeOK /\ kept
  BY AccountsTypes DEF AccountsInv
<1>2. dir \in Users \X Names  BY <1>1
<1>3. /\ old \in CNetwork /\ old.user = n.user /\ old.name = n.name /\ old.reg = n.reg
      /\ files \in Files
      /\ \/ old = n /\ files = disk /\ (n.reg = "none" \/ n.dir = dir \/ disk[n.dir] = "")
         \/ /\ n.reg # "none" /\ n.dir # dir /\ disk[n.dir] # ""
            /\ old.dir = dir /\ files[dir] = disk[n.dir]
            /\ \A d \in Users \X Names : d # dir => files[d] = disk[d]
  <2>1. MovesTo(n, dir, old, files)  BY <1>1, <1>2, MoveRegistryFacts
  <2> QED  BY <2>1 DEF MovesTo
<1>4. /\ new \in CNetwork /\ new.user = v /\ new.name = name /\ new.dir = dir
      /\ old.reg = "none" => new.reg = "none"
      /\ old.reg # "none" => new.reg = files[dir]
  <2>1. IsClone(old, v, name, files, new)  BY <1>1, <1>3, CloneFacts
  <2> QED  BY <2>1 DEF IsClone
<1>5. \A m \in nets : ~(m.user = v /\ Ac!Lower(m.name) = Ac!Lower(name))
  BY DEF Ac!FindNetwork, Ac!NetworksOf
<1>6. \A m \in nets : m.reg # "none" => m.dir # dir
  <2> SUFFICES ASSUME NEW m \in nets, m.reg # "none", m.dir = dir PROVE FALSE
    OBVIOUS
  <2>1. <<m.user, m.name>> = <<v, name>>  BY DEF AccountsInv, Filed, Ac!Own
  <2>2. m.user = v /\ m.name = name  BY <2>1
  <2> QED  BY <1>5, <2>2
<1>7. n.reg # "none" => disk[n.dir] = n.reg  BY DEF AccountsInv, Filed
<1>8. n.reg \in {"", new.reg}
  <2>1. CASE n.reg = "none"  BY <1>3, <1>4, <2>1
  <2>2. CASE n.reg # "none" /\ disk[n.dir] = ""  BY <1>7, <2>2
  <2>3. CASE n.reg # "none" /\ disk[n.dir] # ""  BY <1>3, <1>4, <1>6, <1>7, <2>3
  <2> QED  BY <2>1, <2>2, <2>3
<1>9. Ac!Keeps(n, new)  BY <1>1, <1>8 DEF Ac!Keeps
<1> DEFINE saved == Ac!Saved({old}, files)
<1>10. /\ saved \in Files
       /\ old.reg # "none" => saved[old.dir] = old.reg
       /\ \A d \in Users \X Names : d # old.dir \/ old.reg = "none" => saved[d] = files[d]
  BY <1>3, SavedOne
<1> HIDE DEF saved
<1>11. Filed((nets \ {n}) \union {new}, saved)
  <2> SUFFICES ASSUME NEW m \in (nets \ {n}) \union {new}, m.reg # "none"
               PROVE  m.dir = Ac!Own(m) /\ saved[m.dir] = m.reg
    BY DEF Filed
  <2>1. CASE m = new
    <3>1. m.dir = Ac!Own(m)  BY <1>4, <2>1 DEF Ac!Own
    <3>2. old.reg # "none" /\ m.reg = files[dir] /\ m.dir = dir  BY <1>4, <2>1
    <3>3. saved[dir] = files[dir]
      <4>1. CASE old.dir # dir  BY <1>2, <1>10, <4>1
      <4>2. CASE old.dir = dir
        <5>1. old # n  BY <1>3, <1>6, <3>2, <4>2
        <5>2. files[dir] = old.reg  BY <1>3, <1>7, <5>1
        <5> QED  BY <1>10, <3>2, <4>2, <5>2
      <4> QED  BY <4>1, <4>2
    <3> QED  BY <3>1, <3>2, <3>3
  <2>2. CASE m \in nets /\ m # n
    <3>1. m.dir = Ac!Own(m) /\ disk[m.dir] = m.reg  BY <2>2 DEF AccountsInv, Filed
    <3>2. m.dir # dir  BY <1>6, <2>2
    <3>3. m.dir \in Users \X Names  BY <2>2, AccountsTypes DEF AccountsInv, CNetwork
    <3>4. files[m.dir] = disk[m.dir]  BY <1>3, <3>2, <3>3
    <3>5. old.reg = "none" \/ m.dir # old.dir
      <4>1. n.reg = "none" \/ m.dir # n.dir  BY <2>2, DirsApart DEF AccountsInv
      <4> QED  BY <1>3, <3>2, <4>1
    <3> QED  BY <1>10, <3>1, <3>3, <3>4, <3>5
  <2> QED  BY <2>1, <2>2
<1> QED  BY <1>3, <1>4, <1>5, <1>9, <1>10, <1>11 DEF saved

\* The network has its new name or its new owner.
LEMMA MovedInv ==
  ASSUME AccountsInv, NEW n \in nets, NEW v \in users, NEW new \in CNetwork,
         new.user = v, \A m \in nets : ~(m.user = v /\ Ac!Lower(m.name) = Ac!Lower(new.name)),
         NEW where \in Places, Placed(where, nets),
         nets' = (nets \ {n}) \union {new}, at' = Ac!Closed({n}, where),
         disk' \in Files, Filed(nets', disk'), kept', halfway' \in BOOLEAN,
         UNCHANGED <<users, dying>>
  PROVE  AccountsInv'
<1>1. at' \in Places /\ Placed(at', nets')  BY ClosedFacts
<1>2. Ac!TypeOK'  BY <1>1, AccountsTypes DEF AccountsInv, Ac!TypeOK, Places, Files, CNetwork
<1>3. Homed(nets', users) /\ Unique(nets')  BY DEF AccountsInv, Homed, Unique
<1>4. Placed(at, nets)' /\ Homed(nets, users)' /\ Unique(nets)' /\ Filed(nets, disk)'
  BY <1>1, <1>3 DEF Placed, Homed, Unique, Filed
<1> QED  BY <1>2, <1>4 DEF AccountsInv

\* A hook stopped the move: the old network is there, perhaps beside the new one.
LEMMA StoppedInv ==
  ASSUME AccountsInv, NEW n \in nets, NEW old \in CNetwork, old.user = n.user, old.name = n.name,
         NEW S, S \in SUBSET CNetwork, Homed(S, users), Unique(S),
         \A k \in S, m \in nets : ~(m.user = k.user /\ Ac!Lower(m.name) = Ac!Lower(k.name)),
         nets' = ((nets \ {n}) \union {old}) \union S,
         at' \in Places, Placed(at', nets),
         disk' \in Files, kept', halfway' = TRUE, UNCHANGED <<users, dying>>
  PROVE  AccountsInv'
<1>1. Placed(at', nets')
  <2> SUFFICES ASSUME NEW u \in Users, at'[u] \notin {"", "closed"}
               PROVE  \E k \in nets' : k.user = u /\ k.name = at'[u]
    BY DEF Placed
  <2>1. PICK k \in nets : k.user = u /\ k.name = at'[u]  BY DEF Placed
  <2> QED  BY <2>1
<1>2. Ac!TypeOK'  BY AccountsTypes DEF AccountsInv, Ac!TypeOK, Places, Files, CNetwork
<1>3. Homed(nets', users)  BY DEF AccountsInv, Homed
<1>4. Unique(nets')
  <2> SUFFICES ASSUME NEW k \in nets', NEW m \in nets', k.user = m.user,
                      Ac!Lower(k.name) = Ac!Lower(m.name)
               PROVE  k = m
    BY DEF Unique
  <2>1. CASE k \in S /\ m \in S  BY <2>1 DEF Unique
  <2>2. CASE k \in S /\ m \notin S  BY <2>2
  <2>3. CASE k \notin S /\ m \in S  BY <2>3
  <2>4. CASE k \notin S /\ m \notin S  BY <2>4 DEF AccountsInv, Unique
  <2> QED  BY <2>1, <2>2, <2>3, <2>4
<1>5. Placed(at, nets)' /\ Homed(nets, users)' /\ Unique(nets)'
  BY <1>1, <1>3, <1>4 DEF Placed, Homed, Unique
<1> QED  BY <1>2, <1>5 DEF AccountsInv

\* What MOVENETWORK does with the network n of u.
Moves(u, v, name, n, add, del) ==
  LET dir == <<v, name>>
      old == Ac!MoveRegistry(n, dir)
      files == Ac!Copied(n, dir)
      new == Ac!Clone(old, Ac!Fresh(v, name), files)
      where == IF u = "adm" /\ at[u] = n.name THEN [at EXCEPT ![u] = ""] ELSE at
  IN  /\ at["adm"] # "closed" /\ "adm" \in users
      /\ Ac!FindNetwork(v, name) = {}
      /\ halfway' = (halfway \/ ~add \/ ~del)
      /\ IF ~add THEN /\ nets' = (nets \ {n}) \union {old} /\ disk' = files
                      /\ UNCHANGED <<at, kept>>
         ELSE /\ kept' = Ac!Keeps(n, new)
              /\ IF del THEN /\ nets' = (nets \ {n}) \union {new}
                             /\ disk' = Ac!Saved({old}, files) /\ at' = Ac!Closed({n}, where)
                 ELSE /\ nets' = (nets \ {n}) \union {old, new} /\ disk' = files /\ at' = where
      /\ UNCHANGED <<users, dying>>

LEMMA MoveNetworkInv == ASSUME AccountsInv, ~halfway, Ac!MoveNetwork PROVE AccountsInv'
<1>0. at \in Places /\ Placed(at, nets) /\ users \subseteq Users /\ disk \in Files /\ kept
  BY AccountsTypes DEF AccountsInv
<1>1. PICK u \in users, v \in users, name \in Names :
        \E n \in Ac!NetworksOf(u), add, del \in BOOLEAN : Moves(u, v, name, n, add, del)
  BY Zenon DEF Ac!MoveNetwork, Moves
<1>2. PICK n \in Ac!NetworksOf(u), add \in BOOLEAN, del \in BOOLEAN : Moves(u, v, name, n, add, del)
  BY <1>1
<1> DEFINE dir == <<v, name>>
           old == Ac!MoveRegistry(n, dir)
           files == Ac!Copied(n, dir)
           new == Ac!Clone(old, Ac!Fresh(v, name), files)
           where == IF u = "adm" /\ at[u] = n.name THEN [at EXCEPT ![u] = ""] ELSE at
<1>3. /\ Ac!FindNetwork(v, name) = {}
      /\ halfway' = (halfway \/ ~add \/ ~del)
      /\ ~add => /\ nets' = (nets \ {n}) \union {old} /\ disk' = files
                 /\ UNCHANGED <<at, kept>>
      /\ add => kept' = Ac!Keeps(n, new)
      /\ add /\ del => /\ nets' = (nets \ {n}) \union {new}
                       /\ disk' = Ac!Saved({old}, files) /\ at' = Ac!Closed({n}, where)
      /\ add /\ ~del => nets' = (nets \ {n}) \union {old, new} /\ disk' = files /\ at' = where
      /\ UNCHANGED <<users, dying>>
  BY <1>2, Zenon DEF Moves
<1>4. where \in Places /\ Placed(where, nets)  BY <1>0, LeftPlaced
<1>5. n \in nets /\ n \in CNetwork  BY <1>2, AccountsTypes DEF AccountsInv, Ac!NetworksOf
<1>6. /\ dir = <<v, name>> /\ old = Ac!MoveRegistry(n, dir) /\ files = Ac!Copied(n, dir)
      /\ new = Ac!Clone(old, Ac!Fresh(v, name), files)
  OBVIOUS
<1> HIDE DEF dir, old, files, new, where
<1>7. /\ files \in Files /\ old \in CNetwork /\ new \in CNetwork
      /\ old.user = n.user /\ old.name = n.name /\ new.user = v /\ new.name = name
      /\ \A m \in nets : ~(m.user = v /\ Ac!Lower(m.name) = Ac!Lower(name))
      /\ Ac!Keeps(n, new)
      /\ Ac!Saved({old}, files) \in Files
      /\ Filed((nets \ {n}) \union {new}, Ac!Saved({old}, files))
  BY <1>3, <1>5, <1>6, MovedFacts
<1>8. CASE add /\ del
  <2>1. kept' /\ halfway' \in BOOLEAN  BY <1>3, <1>7, <1>8
  <2>2. disk' \in Files /\ Filed(nets', disk')  BY <1>3, <1>7, <1>8
  <2>3. \A m \in nets : ~(m.user = v /\ Ac!Lower(m.name) = Ac!Lower(new.name))  BY <1>7
  <2> QED  BY <1>3, <1>4, <1>5, <1>7, <1>8, <2>1, <2>2, <2>3, MovedInv
<1>9. CASE add /\ ~del
  <2> DEFINE S == {new}
  <2>1. S \in SUBSET CNetwork /\ Homed(S, users) /\ Unique(S)  BY <1>7 DEF Homed, Unique
  <2>2. \A k \in S, m \in nets : ~(m.user = k.user /\ Ac!Lower(m.name) = Ac!Lower(k.name))  BY <1>7
  <2>3. nets' = ((nets \ {n}) \union {old}) \union S  BY <1>3, <1>9
  <2>4. kept' /\ halfway' = TRUE  BY <1>3, <1>7, <1>9
  <2>5. at' \in Places /\ Placed(at', nets) /\ disk' \in Files  BY <1>3, <1>4, <1>7, <1>9
  <2> HIDE DEF S
  <2> QED  BY <1>3, <1>5, <1>7, <2>1, <2>2, <2>3, <2>4, <2>5, StoppedInv
<1>10. CASE ~add
  <2> DEFINE S == {}
  <2>1. S \in SUBSET CNetwork /\ Homed(S, users) /\ Unique(S)  BY DEF Homed, Unique
  <2>2. \A k \in S, m \in nets : ~(m.user = k.user /\ Ac!Lower(m.name) = Ac!Lower(k.name))
    OBVIOUS
  <2>3. nets' = ((nets \ {n}) \union {old}) \union S  BY <1>3, <1>10
  <2>4. kept' /\ halfway' = TRUE  BY <1>0, <1>3, <1>10
  <2>5. at' \in Places /\ Placed(at', nets) /\ disk' \in Files  BY <1>0, <1>3, <1>7, <1>10
  <2> HIDE DEF S
  <2> QED  BY <1>3, <1>5, <1>7, <2>1, <2>2, <2>3, <2>4, <2>5, StoppedInv
<1> QED  BY <1>8, <1>9, <1>10

\* What webadmin does with the network n of u.
Renames(c, u, name, n, del) ==
  LET dir == <<u, name>>
      old == Ac!MoveRegistry(n, dir)
      files == Ac!Copied(n, dir)
      new == Ac!Clone(old, Ac!Fresh(u, name), files)
  IN  /\ Ac!MaySetNetwork(c, u)
      /\ Ac!FindNetwork(u, name) = {}
      /\ halfway' = (halfway \/ ~del) /\ kept' = Ac!Keeps(n, new)
      /\ IF del THEN /\ nets' = (nets \ {n}) \union {new}
                     /\ disk' = Ac!Saved({old}, files) /\ at' = Ac!Closed({n}, at)
         ELSE nets' = (nets \ {n}) \union {old, new} /\ disk' = files /\ UNCHANGED at
      /\ UNCHANGED <<users, dying>>

LEMMA RenameInv == ASSUME AccountsInv, ~halfway, Ac!Rename PROVE AccountsInv'
<1>0. at \in Places /\ Placed(at, nets) /\ users \subseteq Users /\ disk \in Files /\ kept
  BY AccountsTypes DEF AccountsInv
<1>1. PICK c \in users, v \in users, name \in Names :
        \E n \in Ac!NetworksOf(v), del \in BOOLEAN : Renames(c, v, name, n, del)
  BY Zenon DEF Ac!Rename, Renames
<1>2. PICK n \in Ac!NetworksOf(v), del \in BOOLEAN : Renames(c, v, name, n, del)
  BY <1>1
<1> DEFINE dir == <<v, name>>
           old == Ac!MoveRegistry(n, dir)
           files == Ac!Copied(n, dir)
           new == Ac!Clone(old, Ac!Fresh(v, name), files)
<1>3. /\ Ac!FindNetwork(v, name) = {}
      /\ halfway' = (halfway \/ ~del) /\ kept' = Ac!Keeps(n, new)
      /\ del => /\ nets' = (nets \ {n}) \union {new}
                /\ disk' = Ac!Saved({old}, files) /\ at' = Ac!Closed({n}, at)
      /\ ~del => nets' = (nets \ {n}) \union {old, new} /\ disk' = files /\ UNCHANGED at
      /\ UNCHANGED <<users, dying>>
  BY <1>2, Zenon DEF Renames
<1>5. n \in nets /\ n \in CNetwork  BY <1>2, AccountsTypes DEF AccountsInv, Ac!NetworksOf
<1>6. /\ dir = <<v, name>> /\ old = Ac!MoveRegistry(n, dir) /\ files = Ac!Copied(n, dir)
      /\ new = Ac!Clone(old, Ac!Fresh(v, name), files)
  OBVIOUS
<1> HIDE DEF dir, old, files, new
<1>7. /\ files \in Files /\ old \in CNetwork /\ new \in CNetwork
      /\ old.user = n.user /\ old.name = n.name /\ new.user = v /\ new.name = name
      /\ \A m \in nets : ~(m.user = v /\ Ac!Lower(m.name) = Ac!Lower(name))
      /\ Ac!Keeps(n, new)
      /\ Ac!Saved({old}, files) \in Files
      /\ Filed((nets \ {n}) \union {new}, Ac!Saved({old}, files))
  BY <1>3, <1>5, <1>6, MovedFacts
<1>8. CASE del
  <2>1. kept' /\ halfway' \in BOOLEAN  BY <1>3, <1>7, <1>8
  <2>2. disk' \in Files /\ Filed(nets', disk')  BY <1>3, <1>7, <1>8
  <2>3. \A m \in nets : ~(m.user = v /\ Ac!Lower(m.name) = Ac!Lower(new.name))  BY <1>7
  <2> QED  BY <1>0, <1>3, <1>5, <1>7, <1>8, <2>1, <2>2, <2>3, MovedInv
<1>9. CASE ~del
  <2> DEFINE S == {new}
  <2>1. S \in SUBSET CNetwork /\ Homed(S, users) /\ Unique(S)  BY <1>7 DEF Homed, Unique
  <2>2. \A k \in S, m \in nets : ~(m.user = k.user /\ Ac!Lower(m.name) = Ac!Lower(k.name))  BY <1>7
  <2>3. nets' = ((nets \ {n}) \union {old}) \union S  BY <1>3, <1>9
  <2>4. kept' /\ halfway' = TRUE  BY <1>3, <1>7, <1>9
  <2>5. at' \in Places /\ Placed(at', nets) /\ disk' \in Files  BY <1>0, <1>3, <1>7, <1>9
  <2> HIDE DEF S
  <2> QED  BY <1>3, <1>5, <1>7, <2>1, <2>2, <2>3, <2>4, <2>5, StoppedInv
<1> QED  BY <1>8, <1>9

LEMMA CloneUserInv == ASSUME AccountsInv, Ac!CloneUser PROVE AccountsInv'
<1>1. PICK u \in users, v \in Users \ users :
        /\ users' = users \union {v}
        /\ nets' = nets \union {Ac!Clone(n, Ac!Fresh(v, n.name), disk) : n \in Ac!NetworksOf(u)}
        /\ UNCHANGED <<dying, at, disk, kept, halfway>>
  BY Zenon DEF Ac!CloneUser
<1>2. nets \in SUBSET CNetwork /\ disk \in Files  BY AccountsTypes DEF AccountsInv
<1> DEFINE C(n) == Ac!Clone(n, Ac!Fresh(v, n.name), disk)
           S == Ac!NetworksOf(u)
<1>3. S = {n \in nets : n.user = u}  BY DEF Ac!NetworksOf
<1>4. \A n \in nets : n.name \in Names  BY <1>2 DEF CNetwork
<1>5. \A n \in nets : IsClone(n, v, n.name, disk, C(n))  BY <1>2, <1>4, CloneFacts
<1>6. nets' = nets \union {C(n) : n \in S}  BY <1>1
<1> HIDE DEF C, S
<1>7. \A n \in S : /\ n \in nets /\ n.user = u /\ C(n) \in CNetwork
                   /\ C(n).user = v /\ C(n).name = n.name
  BY <1>3, <1>5 DEF IsClone
<1>8. \A n \in S : C(n).reg # "none" => C(n).dir = Ac!Own(C(n)) /\ disk[C(n).dir] = C(n).reg
  BY <1>3, <1>5 DEF IsClone, Ac!Own
<1>9. \A n \in nets : n.user # v  BY DEF AccountsInv, Homed
<1>10. Ac!TypeOK'
  <2>1. nets' \in SUBSET CNetwork  BY <1>2, <1>6, <1>7
  <2> QED  BY <1>1, <2>1 DEF AccountsInv, Ac!TypeOK, CNetwork
<1>11. Homed(nets', users')  BY <1>1, <1>6, <1>7 DEF AccountsInv, Homed
<1>12. Unique(nets')
  <2> SUFFICES ASSUME NEW k \in nets', NEW m \in nets', k.user = m.user,
                      Ac!Lower(k.name) = Ac!Lower(m.name)
               PROVE  k = m
    BY DEF Unique
  <2>1. CASE k \in nets /\ m \in nets  BY <2>1 DEF AccountsInv, Unique
  <2>2. CASE k.user = v
    <3>1. PICK a \in S : k = C(a)  BY <1>6, <1>9, <2>2
    <3>2. PICK b \in S : m = C(b)  BY <1>6, <1>9, <2>2
    <3>3. a = b  BY <1>7, <3>1, <3>2 DEF AccountsInv, Unique
    <3> QED  BY <3>1, <3>2, <3>3
  <2> QED  BY <1>6, <1>7, <2>1, <2>2
<1>13. Placed(at, nets')  BY <1>6 DEF AccountsInv, Placed
<1>14. ~halfway => Filed(nets', disk)  BY <1>6, <1>8 DEF AccountsInv, Filed
<1>15. Placed(at, nets)' /\ Homed(nets, users)' /\ Unique(nets)' /\ (~halfway => Filed(nets, disk))'
  BY <1>1, <1>11, <1>12, <1>13, <1>14 DEF Placed, Homed, Unique, Filed
<1> QED  BY <1>1, <1>10, <1>15 DEF AccountsInv

LEMMA UserDeletionInv == ASSUME AccountsInv, ~halfway, Ac!HandleUserDeletion PROVE AccountsInv'
<1>1. PICK spared \in SUBSET dying :
        LET gone == dying \ spared
            lost == {n \in nets : n.user \in gone}
        IN  /\ dying # {} /\ dying' = {} /\ users' = users \ gone /\ nets' = nets \ lost
            /\ disk' = Ac!Saved(lost, disk)
            /\ at' = [u \in Users |-> IF u \in gone THEN "closed" ELSE at[u]]
            /\ UNCHANGED <<kept, halfway>>
  BY Zenon DEF Ac!HandleUserDeletion
<1> DEFINE gone == dying \ spared
           lost == {n \in nets : n.user \in gone}
<1>2. /\ dying' = {} /\ users' = users \ gone /\ nets' = nets \ lost
      /\ disk' = Ac!Saved(lost, disk)
      /\ at' = [u \in Users |-> IF u \in gone THEN "closed" ELSE at[u]]
      /\ kept' = kept /\ halfway' = halfway
  BY <1>1
<1>3. \A n \in nets : n \in lost <=> n.user \in gone  OBVIOUS
<1>4. lost \in SUBSET nets  OBVIOUS
<1> HIDE DEF gone, lost
<1>5. nets \in SUBSET CNetwork /\ disk \in Files /\ at \in Places /\ Filed(nets, disk)
  BY AccountsTypes DEF AccountsInv
<1>6. \A n, m \in nets : n.reg # "none" /\ m.reg # "none" /\ n.dir = m.dir => n = m
  BY <1>5, DirsApart DEF AccountsInv
<1>7. /\ disk' \in Files
      /\ \A d \in Users \X Names : (\A n \in lost : n.reg # "none" => n.dir # d) => disk'[d] = disk[d]
  <2>1. lost \in SUBSET CNetwork  BY <1>4, <1>5
  <2>2. \A n, m \in lost : n.reg # "none" /\ m.reg # "none" /\ n.dir = m.dir => n = m
    BY <1>4, <1>6
  <2> QED  BY <1>2, <1>5, <2>1, <2>2, SavedFacts
<1>8. Filed(nets', disk')
  <2> SUFFICES ASSUME NEW m \in nets', m.reg # "none"
               PROVE  m.dir = Ac!Own(m) /\ disk'[m.dir] = m.reg
    BY DEF Filed
  <2>1. m \in nets /\ m \notin lost  BY <1>2
  <2>2. m.dir = Ac!Own(m) /\ disk[m.dir] = m.reg  BY <1>5, <2>1 DEF Filed
  <2>3. m.dir \in Users \X Names  BY <1>5, <2>1 DEF CNetwork
  <2>4. \A n \in lost : n.reg # "none" => n.dir # m.dir  BY <1>4, <1>6, <2>1
  <2> QED  BY <1>7, <2>2, <2>3, <2>4
<1>9. at' \in Places  BY <1>2, <1>5 DEF Places
<1>10. Placed(at', nets')
  <2> SUFFICES ASSUME NEW u \in Users, at'[u] \notin {"", "closed"}
               PROVE  \E k \in nets' : k.user = u /\ k.name = at'[u]
    BY DEF Placed
  <2>1. u \notin gone /\ at'[u] = at[u]  BY <1>2
  <2>2. PICK k \in nets : k.user = u /\ k.name = at[u]  BY <2>1 DEF AccountsInv, Placed
  <2> QED  BY <1>2, <1>3, <2>1, <2>2
<1>11. Homed(nets', users') /\ Unique(nets')  BY <1>2, <1>3 DEF AccountsInv, Homed, Unique
<1>12. Ac!TypeOK'
  <2>1. nets' \in SUBSET CNetwork  BY <1>2, <1>5
  <2>2. users' \subseteq Users /\ dying' \subseteq users' /\ halfway' \in BOOLEAN
    BY <1>2 DEF AccountsInv, Ac!TypeOK
  <2> QED  BY <1>7, <1>9, <2>1, <2>2 DEF Ac!TypeOK, CNetwork, Places, Files
<1>13. Placed(at, nets)' /\ Homed(nets, users)' /\ Unique(nets)' /\ Filed(nets, disk)'
  BY <1>8, <1>10, <1>11 DEF Placed, Homed, Unique, Filed
<1>14. kept'  BY <1>2 DEF AccountsInv
<1> QED  BY <1>12, <1>13, <1>14 DEF AccountsInv

\* A module is loaded or unloaded, or sets a value.
LEMMA ModuleInv ==
  ASSUME AccountsInv, ~halfway, NEW n \in nets, NEW m \in CNetwork, m.user = n.user, m.name = n.name,
         nets' = (nets \ {n}) \union {m}, disk' \in Files,
         m.reg # "none" => m.dir = Ac!Own(m) /\ disk'[m.dir] = m.reg,
         \A k \in nets \ {n} : k.reg # "none" => disk'[k.dir] = disk[k.dir],
         UNCHANGED <<users, dying, at, kept, halfway>>
  PROVE  AccountsInv'
<1>1. nets' \in SUBSET CNetwork /\ Homed(nets', users) /\ Unique(nets') /\ Placed(at, nets')
  BY Replaced
<1>2. Filed(nets', disk')
  <2>1. Filed(nets, disk)  BY DEF AccountsInv
  <2> QED  BY <2>1 DEF Filed
<1>3. Ac!TypeOK'  BY <1>1 DEF AccountsInv, Ac!TypeOK, CNetwork, Files
<1>4. Placed(at, nets)' /\ Homed(nets, users)' /\ Unique(nets)' /\ Filed(nets, disk)'
  BY <1>1, <1>2 DEF Placed, Homed, Unique, Filed
<1> QED  BY <1>3, <1>4 DEF AccountsInv

LEMMA ModInv ==
  ASSUME AccountsInv, ~halfway, Ac!LoadMod \/ Ac!UnloadMod \/ Ac!SetNV
  PROVE  AccountsInv'
<1>0. nets \in SUBSET CNetwork /\ disk \in Files /\ Filed(nets, disk) /\ Unique(nets)
  BY AccountsTypes DEF AccountsInv
<1>1. CASE Ac!LoadMod
  <2>1. PICK n \in nets : /\ n.reg = "none" /\ nets' = (nets \ {n}) \union {Ac!Load(n, disk)}
                          /\ UNCHANGED <<users, dying, at, disk, kept, halfway>>
    BY <1>1, Zenon DEF Ac!LoadMod
  <2> DEFINE m == Ac!Load(n, disk)
  <2>2. /\ m \in CNetwork /\ m.user = n.user /\ m.name = n.name
        /\ m.dir = Ac!Own(m) /\ m.reg = disk[m.dir]
    BY <1>0, LoadFacts
  <2> HIDE DEF m
  <2>3. nets' = (nets \ {n}) \union {m} /\ UNCHANGED <<users, dying, at, kept, halfway>> /\ disk' = disk
    BY <2>1 DEF m
  <2> QED  BY <1>0, <2>2, <2>3, ModuleInv
<1>2. CASE Ac!UnloadMod
  <2>1. PICK n \in nets :
          /\ n.reg # "none" /\ nets' = (nets \ {n}) \union {[n EXCEPT !.reg = "none", !.dir = Ac!Own(n)]}
          /\ disk' = Ac!Saved({n}, disk)
          /\ UNCHANGED <<users, dying, at, kept, halfway>>
    BY <1>2, Zenon DEF Ac!UnloadMod
  <2> DEFINE m == [n EXCEPT !.reg = "none", !.dir = Ac!Own(n)]
  <2>2. m \in CNetwork /\ m.user = n.user /\ m.name = n.name /\ m.reg = "none"
    BY <1>0 DEF CNetwork, Ac!Own
  <2> HIDE DEF m
  <2>3. /\ disk' \in Files
        /\ \A d \in Users \X Names : d # n.dir \/ n.reg = "none" => disk'[d] = disk[d]
    BY <1>0, <2>1, SavedOne
  <2>4. \A k \in nets \ {n} : k.reg # "none" => k.dir # n.dir  BY <1>0, <2>1, DirsApart
  <2>5. \A k \in nets : k.dir \in Users \X Names  BY <1>0 DEF CNetwork
  <2>6. nets' = (nets \ {n}) \union {m} /\ UNCHANGED <<users, dying, at, kept, halfway>>
    BY <2>1 DEF m
  <2> QED  BY <2>2, <2>3, <2>4, <2>5, <2>6, ModuleInv
<1>3. CASE Ac!SetNV
  <2>1. PICK n \in nets, v \in Values :
          /\ n.reg \notin {"none", v}
          /\ nets' = (nets \ {n}) \union {[n EXCEPT !.reg = v]} /\ disk' = [disk EXCEPT ![n.dir] = v]
          /\ UNCHANGED <<users, dying, at, kept, halfway>>
    BY <1>3, Zenon DEF Ac!SetNV
  <2> DEFINE m == [n EXCEPT !.reg = v]
  <2>2. m \in CNetwork /\ m.user = n.user /\ m.name = n.name /\ m.reg = v /\ m.dir = n.dir
    BY <1>0 DEF CNetwork
  <2> HIDE DEF m
  <2>3. n.dir = Ac!Own(n) /\ n.dir \in Users \X Names  BY <1>0, <2>1 DEF Filed, CNetwork
  <2>4. m.dir = Ac!Own(m)  BY <2>2, <2>3 DEF Ac!Own
  <2>5. disk' \in Files /\ disk'[m.dir] = v  BY <1>0, <2>1, <2>2, <2>3 DEF Files
  <2>6. \A k \in nets \ {n} : k.reg # "none" => k.dir # n.dir  BY <1>0, <2>1, DirsApart
  <2>7. \A d \in Users \X Names : d # n.dir => disk'[d] = disk[d]  BY <1>0, <2>1 DEF Files
  <2>8. \A k \in nets : k.dir \in Users \X Names  BY <1>0 DEF CNetwork
  <2>9. \A k \in nets \ {n} : k.reg # "none" => disk'[k.dir] = disk[k.dir]  BY <2>6, <2>7, <2>8
  <2>10. nets' = (nets \ {n}) \union {m} /\ UNCHANGED <<users, dying, at, kept, halfway>>
    BY <2>1 DEF m
  <2> QED  BY <2>2, <2>4, <2>5, <2>9, <2>10, ModuleInv
<1> QED  BY <1>1, <1>2, <1>3

\* Users come and are marked; clients come, move and go.
LEMMA OtherInv ==
  ASSUME AccountsInv, Ac!AddUser \/ Ac!DelUser \/ Ac!Attach \/ Ac!Leave
  PROVE  AccountsInv'
<1>0. at \in Places /\ Placed(at, nets) /\ users \subseteq Users /\ nets \in SUBSET CNetwork
  BY AccountsTypes DEF AccountsInv
<1>1. CASE Ac!AddUser \/ Ac!DelUser
  <2>1. /\ users \subseteq users' /\ users' \subseteq Users /\ dying' \subseteq users'
        /\ UNCHANGED <<nets, at, disk, kept, halfway>>
    BY <1>1, AccountsTypes DEF AccountsInv, Ac!AddUser, Ac!DelUser
  <2>2. Ac!TypeOK'  BY <2>1 DEF AccountsInv, Ac!TypeOK
  <2>3. Placed(at, nets)' /\ Homed(nets, users)' /\ Unique(nets)' /\ (~halfway => Filed(nets, disk))'
    BY <2>1 DEF AccountsInv, Placed, Homed, Unique, Filed
  <2> QED  BY <2>1, <2>2, <2>3 DEF AccountsInv
<1>2. CASE Ac!Attach
  <2>1. PICK u \in users : \E w \in {""} \union {n.name : n \in Ac!NetworksOf(u)} :
          at' = [at EXCEPT ![u] = w] /\ UNCHANGED <<users, nets, dying, disk, kept, halfway>>
    BY <1>2, Zenon DEF Ac!Attach
  <2>2. PICK w \in {""} \union {n.name : n \in Ac!NetworksOf(u)} :
          at' = [at EXCEPT ![u] = w] /\ UNCHANGED <<users, nets, dying, disk, kept, halfway>>
    BY <2>1
  <2>3. w = "" \/ \E n \in nets : n.user = u /\ n.name = w  BY <2>2 DEF Ac!NetworksOf
  <2>4. w \in Names \union {"", "closed"}  BY <1>0, <2>3 DEF CNetwork
  <2>5. at' \in Places  BY <1>0, <2>2, <2>4 DEF Places
  <2>6. Placed(at', nets)  BY <1>0, <2>2, <2>3 DEF Placed, Places
  <2> QED  BY <2>2, <2>5, <2>6, AtInv
<1>3. CASE Ac!Leave
  <2>1. PICK u \in users : /\ at' = [at EXCEPT ![u] = "closed"]
                           /\ UNCHANGED <<users, nets, dying, disk, kept, halfway>>
    BY <1>3, Zenon DEF Ac!Leave
  <2>2. at' \in Places /\ Placed(at', nets)  BY <1>0, <2>1, LeftPlaced
  <2> QED  BY <2>1, <2>2, AtInv
<1> QED  BY <1>1, <1>2, <1>3

LEMMA AccountsNext == ASSUME AccountsInv, [Ac!Next]_acVars PROVE AccountsInv'
<1>1. CASE UNCHANGED acVars
  BY <1>1 DEF acVars, AccountsInv, Ac!TypeOK, Placed, Homed, Unique, Filed
<1>2. CASE Ac!Next
  BY <1>2, AddInv, DelInv, MoveNetworkInv, RenameInv, CloneUserInv, UserDeletionInv, ModInv, OtherInv
  DEF Ac!Next
<1> QED  BY <1>1, <1>2
-----------------------------------------------------------------------------
\* For any users, networks and limits, whatever is added, cloned, moved, renamed and
\* deleted in whatever order: no client and no network is left without its owner, no
\* name is taken twice, and each module finds on disk what it holds in memory
\* (CUser, CIRCNetwork, CModule::MoveRegistry); and the lookups keep their types.
THEOREM ReferencesHold == PartsSpec => []References
<1> DEFINE Inv == ResolverInv /\ AccountsInv
<1>1. PartsInit => Inv  BY ResolverInit, AccountsInit DEF PartsInit
<1>2. Inv /\ [PartsNext]_<<part, vars, acVars>> => Inv'
  <2>1. [PartsNext]_<<part, vars, acVars>> => [Next]_vars /\ [Ac!Next]_acVars
    BY DEF PartsNext, Stopped
  <2> QED  BY <2>1, ResolverNext, AccountsNext
<1>3. Inv => References  BY AccountsOwned DEF References, ResolverInv
<1> QED  BY <1>1, <1>2, <1>3, PTL DEF PartsSpec
=============================================================================
