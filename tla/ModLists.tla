------------------------------ MODULE ModLists --------------------------------
(***************************************************************************)
(* Bundled modules that keep a list in memory and in their registry: watch,*)
(* perform, alias, autocycle, autoattach, autoop, autovoice and certauth.  *)
(* Each has commands that change the list, a way to store it, OnLoad, and  *)
(* hooks that act on it.  Modules do not touch each other's registry, so a *)
(* behaviour follows one of them, chosen at the start.                     *)
(*                                                                         *)
(* Text is abstract: "A" is "a" in another case, "*" the wildcard.  The    *)
(* registry is a std::map, so a load meets its keys in byte order; only    *)
(* autoop and autovoice depend on that order.                              *)
(***************************************************************************)
EXTENDS Naturals, FiniteSets, SequencesExt

CONSTANT MaxEntries  \* bound: entries in one list

ListModules == {"watch", "perform", "alias", "autocycle", "autoattach", "autoop", "autovoice", "certauth"}

VARIABLES mod,   \* the module
          mem,   \* its list in memory (alias: what the commands asked for)
          reg,   \* its registry
          args,  \* the arguments it was loaded with, which are loaded again
          known, \* certauth: the users of ZNC
          skew   \* ghost: a user was named in another case than it is stored, or a
                 \* user of ZNC with keys was deleted; not followed any further

vars == <<mod, mem, reg, args, known, skew>>

Lower(s) == IF s = "A" THEN "a" ELSE s
WildCmp(s, w) == w = "*" \/ Lower(w) = Lower(s)
Without(f, k) == [x \in DOMAIN f \ {k} |-> f[x]]
With(f, k, v) == [x \in DOMAIN f \union {k} |-> IF x = k THEN v ELSE f[x]]

\* What a list that was joined with newlines splits into: the entries that are not e.
Lines(l, e) ==
  LET I == {i \in DOMAIN l : l[i] # e}
      Place(i) == Cardinality({j \in I : j <= i})
  IN  [k \in 1..Cardinality(I) |-> l[CHOOSE i \in I : Place(i) = k]]
-----------------------------------------------------------------------------
(* watch *)
WatchEntry(k, t) == [mask |-> k, target |-> t, off |-> FALSE, client |-> FALSE,
                     chan |-> FALSE, sources |-> {}]

Equal(e, f) == Lower(e.mask) = Lower(f.mask) /\ e.target = f.target

IsMatch(e, nick, source) ==
  /\ ~e.off
  /\ source # "none" /\ e.sources # {} =>
       LET hit == {s \in e.sources : WildCmp(source, s.name)}
       IN  hit # {} /\ \A s \in hit : ~s.neg
  /\ WildCmp(nick, e.mask)

\* Process: the targets that get a copy, each one.
Process(l, nick, source, attached, detached) ==
  {e.target : e \in {x \in ToSet(l) : /\ ~(attached /\ x.client)
                                      /\ ~(source = "a" /\ ~detached /\ x.chan)
                                      /\ IsMatch(x, nick, source)}}

\* Mutant: without the blank after the sources an entry that has none is not loaded.
WatchSaveTrimmed(l) == {e \in ToSet(l) : e.sources # {}}

\* Save: the registry has one key per entry.  OnLoad reads the entries back.
WatchSave(l) == ToSet(l)
WatchLoaded(r) == SetToSeq(r)

Watch == \E k \in {"a", "A", "*"}, t \in {"t", "u"} :
  LET e == WatchEntry(k, t)
  IN  /\ Len(mem) < MaxEntries
      /\ mem' = IF \E i \in 1..Len(mem) : Equal(mem[i], e) THEN mem ELSE Append(mem, e)
      /\ reg' = WatchSave(mem')

WatchRemove == \E i \in 1..Len(mem) : mem' = RemoveAt(mem, i) /\ reg' = WatchSave(mem')

WatchClear == mem' = <<>> /\ reg' = WatchSave(mem')

\* Enable, Disable, SetDetachedClientOnly and SetDetachedChannelOnly, of one entry
\* or of all, and SetSources of one.
WatchSet == \E f \in {"off", "client", "chan"}, b \in BOOLEAN,
               I \in {{i} : i \in 1..Len(mem)} \union {1..Len(mem)} :
  /\ mem' = [i \in 1..Len(mem) |-> IF i \in I THEN [mem[i] EXCEPT ![f] = b] ELSE mem[i]]
  /\ reg' = WatchSave(mem')

WatchSetSources == \E i \in 1..Len(mem), S \in {{}, {[neg |-> FALSE, name |-> "A"]},
                       {[neg |-> FALSE, name |-> "*"], [neg |-> TRUE, name |-> "a"]}} :
  mem' = [mem EXCEPT ![i].sources = S] /\ reg' = WatchSave(mem')
-----------------------------------------------------------------------------
(* perform: a command has layers of "/", "raw" and "quote" in front of a text. *)
PerformInputs == [layers : 0..2, text : {"p", "empty"}] \ {[layers |-> 0, text |-> "empty"]}

\* One layer goes.  The change of MSG to PRIVMSG and the added ":" are not made again.
ParsePerform(c) == [c EXCEPT !.layers = IF @ > 0 THEN @ - 1 ELSE 0]

Parsed(l) == [i \in 1..Len(l) |-> ParsePerform(l[i])]

\* Save joins the commands with newlines; OnLoad splits, without empty ones.
PerformLoaded(r) ==
  Parsed(Lines(r, [layers |-> 0, text |-> "empty"]))

PerformAdd == \E c \in PerformInputs : /\ Len(mem) < MaxEntries
                                       /\ mem' = Append(mem, ParsePerform(c)) /\ reg' = mem'
PerformDel == \E i \in 1..Len(mem) : mem' = RemoveAt(mem, i) /\ reg' = mem'
PerformSwap == \E i, j \in 1..Len(mem) :
  mem' = [mem EXCEPT ![i] = mem[j], ![j] = mem[i]] /\ reg' = mem'
PerformPost == \E l \in BoundedSeq(PerformInputs, MaxEntries) : mem' = Parsed(l) /\ reg' = mem'
-----------------------------------------------------------------------------
(* alias: one alias; the registry holds its commands joined with newlines. *)
AliasGet(r) == Lines(r.cmds, "empty")
Commit(cmds) == reg' = [exists |-> TRUE, cmds |-> cmds]

CreateCommand == ~reg.exists /\ Commit(<<>>) /\ mem' = <<>>
DeleteCommand == /\ reg.exists /\ reg' = [exists |-> FALSE, cmds |-> <<>>] /\ mem' = <<>>
AddCmd == \E c \in {"p", "q", "empty"} :
  /\ reg.exists /\ Len(mem) < MaxEntries
  /\ Commit(Append(AliasGet(reg), c))
  /\ mem' = IF c = "empty" THEN mem ELSE Append(mem, c)
InsertCommand == \E i \in 0..Len(AliasGet(reg)), c \in {"p", "q", "empty"} :
  /\ reg.exists /\ Len(mem) < MaxEntries
  /\ Commit(InsertAt(AliasGet(reg), i + 1, c))
  /\ mem' = IF c = "empty" THEN mem ELSE InsertAt(mem, i + 1, c)
RemoveCommand == \E i \in 0..Len(AliasGet(reg)) - 1 :
  reg.exists /\ Commit(RemoveAt(AliasGet(reg), i + 1)) /\ mem' = RemoveAt(mem, i + 1)
ClearCommand == reg.exists /\ Commit(<<>>) /\ mem' = <<>>
-----------------------------------------------------------------------------
(* autocycle *)
Chans == [neg : BOOLEAN, chan : {"a", "A", "*"}]

AlreadyAdded(l, c) == \E i \in 1..Len(l) : l[i].neg = c.neg /\ Lower(l[i].chan) = Lower(c.chan)

IsAutoCycle(l, chan) == LET hit == {c \in ToSet(l) : WildCmp(chan, c.chan)}
                        IN  hit # {} /\ \A c \in hit : ~c.neg

\* The arguments, then the registry, and "*" when there is no channel; each is stored.
CycleLoaded(r, a) ==
  LET l == a \o SetToSeq(r \union ToSet(a))
      all == [neg |-> FALSE, chan |-> "*"]
  IN  IF \E i \in 1..Len(l) : ~l[i].neg THEN l ELSE Append(l, all)

CycleAdd == \E c \in Chans : /\ ~AlreadyAdded(mem, c) /\ Len(mem) < MaxEntries
                             /\ mem' = Append(mem, c) /\ reg' = reg \union {c}
CycleDel == \E i \in 1..Len(mem) :
  /\ \A j \in 1..i - 1 : mem[j] # mem[i]
  /\ mem' = RemoveAt(mem, i) /\ reg' = reg \ {mem[i]}
-----------------------------------------------------------------------------
(* autoattach: entries differ when their text does, whether negated or not. *)
Add(l, c) == IF \E i \in 1..Len(l) : l[i].chan = c.chan THEN l ELSE Append(l, c)

TryAttach(l, chan) == LET hit == {c \in ToSet(l) : WildCmp(chan, c.chan)}
                      IN  hit # {} /\ \A c \in hit : ~c.neg

\* The arguments, then the registry, where a key with "!" comes before one without.
AttachLoaded(r, a) ==
  LET r1 == {c \in r : \A i \in 1..Len(a) : a[i].chan # c.chan}
  IN  a \o SetToSeq({c \in r1 : c.neg \/ [c EXCEPT !.neg = TRUE] \notin r1})

AttachAdd == \E c \in Chans :
  /\ Add(mem, c) # mem /\ Len(mem) < MaxEntries /\ mem' = Add(mem, c) /\ reg' = reg \union {c}
AttachDel == \E i \in 1..Len(mem) : mem' = RemoveAt(mem, i) /\ reg' = reg \ {mem[i]}
AttachSwap == \E i, j \in 1..Len(mem) :
  i # j /\ mem' = [mem EXCEPT ![i] = mem[j], ![j] = mem[i]] /\ reg' = ToSet(mem')
-----------------------------------------------------------------------------
(* autoop and autovoice: users by lower-case name in memory, by the name as it was   *)
(* typed in the registry.                                                             *)
Users == {"a", "A", "b"}
UserMasks == (SUBSET {"m", "n"}) \ {{}}

\* The first one that matches, in the order of the names.
FindUserByHost(us, host, chan) ==
  LET hit == {u \in DOMAIN us : host \in us[u].masks /\ chan \in us[u].chans}
  IN  IF hit = {} THEN "nobody"
      ELSE us[Head(SelectSeq(<<"a", "args0", "b">>, LAMBDA u : u \in hit))].key

\* Of two entries for one name the first key of the registry counts.
ByName(r, good) ==
  [l \in {Lower(n) : n \in good} |-> r[IF l = "a" /\ "A" \in good THEN "A" ELSE l]]

\* The name n is not how the user is stored.
Differs(n) == Lower(n) \in DOMAIN mem /\ mem[Lower(n)].name # n

\* AddUser looks for the name as it was typed, among lower-case ones.
AddUser(n, u) == /\ n \notin DOMAIN mem
                 /\ mem' = With(mem, Lower(n), u) /\ reg' = With(reg, n, u) /\ skew' = Differs(n)

DelUser(n) == mem' = Without(mem, Lower(n)) /\ reg' = Without(reg, n) /\ skew' = Differs(n)

\* SetNV(GetUsername(), ToString()).
Store(l, u) == mem' = [mem EXCEPT ![l] = u] /\ reg' = With(reg, u.name, u) /\ UNCHANGED skew

\* autoop leaves out an entry without a key.
OpLoaded(r) == ByName(r, {n \in DOMAIN r : r[n].key # "empty"})

OpAddUser == \E n \in Users, M \in UserMasks, C \in SUBSET {"c"}, k \in {"empty", "key", "__NOKEY__"} :
  AddUser(n, [name |-> n, masks |-> M, chans |-> C, key |-> k])

OpDelUser == \E n \in Users : DelUser(n)

OpAddChans == \E n \in Users : /\ Lower(n) \in DOMAIN mem
                               /\ Store(Lower(n), [mem[Lower(n)] EXCEPT !.chans = {"c"}])

OpDelChans == \E n \in Users : /\ Lower(n) \in DOMAIN mem
                               /\ Store(Lower(n), [mem[Lower(n)] EXCEPT !.chans = {}])

OpAddMasks == \E n \in Users, M \in UserMasks :
  /\ Lower(n) \in DOMAIN mem
  /\ Store(Lower(n), [mem[Lower(n)] EXCEPT !.masks = @ \union M])

OpDelMasks == \E n \in Users, M \in UserMasks :
  /\ Lower(n) \in DOMAIN mem
  /\ LET left == mem[Lower(n)].masks \ M
     IN  IF left = {} THEN DelUser(n)
         ELSE Store(Lower(n), [mem[Lower(n)] EXCEPT !.masks = left])

\* autovoice makes one user of all its arguments, so the last one wins.
VoiceLoaded(r, a) ==
  LET given == [name |-> "Args0", masks |-> {"m", "n"}, chans |-> {a[Len(a)]}, key |-> "voice"]
      own == ByName(r, DOMAIN r)
  IN  IF a = <<>> THEN own ELSE With(own, "args0", given)

VoiceAddUser == \E n \in Users, h \in {"m", "n"}, C \in SUBSET {"c"} :
  AddUser(n, [name |-> n, masks |-> {h}, chans |-> C, key |-> "voice"])

VoiceDelUser == \E n \in Users : DelUser(n)

VoiceAddChans == \E n \in Users : /\ Lower(n) \in DOMAIN mem
                                  /\ Store(Lower(n), [mem[Lower(n)] EXCEPT !.chans = {"c"}])

VoiceDelChans == \E n \in Users : /\ Lower(n) \in DOMAIN mem
                                  /\ Store(Lower(n), [mem[Lower(n)] EXCEPT !.chans = {}])

\* OnJoin and CheckAutoVoice.
CheckAutoVoice(us, host, chan) == FindUserByHost(us, host, chan) # "nobody"
-----------------------------------------------------------------------------
(* certauth: keys of users, and users of keys; the registry holds the first. *)
Owners == {"u", "v"}
PubKeys == {"k", "l"}

Save(pub) == reg' = [u \in {x \in Owners : pub[x] # {}} |-> pub[u]]

\* OnBoot, also after a rehash: keys of users that ZNC knows are added.
OnBoot(m, r, us) ==
  LET pub == [u \in Owners |-> m.pub[u] \union (IF u \in us \intersect DOMAIN r THEN r[u] ELSE {})]
  IN  [pub |-> pub,
       users |-> [k \in PubKeys |-> m.users[k] \union
                    {u \in us \intersect DOMAIN r : k \in r[u]}]]

NoKeys == [pub |-> [u \in Owners |-> {}], users |-> [k \in PubKeys |-> {}]]

AddKey == \E u \in known, k \in PubKeys :
  /\ k \notin mem.pub[u]
  /\ mem' = [pub |-> [mem.pub EXCEPT ![u] = @ \union {k}],
             users |-> [mem.users EXCEPT ![k] = @ \union {u}]]
  /\ Save(mem'.pub) /\ UNCHANGED <<known, skew>>

DelKey == \E u \in known : \E k \in mem.pub[u] :
  /\ mem' = [pub |-> [mem.pub EXCEPT ![u] = @ \ {k}],
             users |-> [mem.users EXCEPT ![k] = @ \ {u}]]
  /\ Save(mem'.pub) /\ UNCHANGED <<known, skew>>

OnPostRehash == mem' = OnBoot(mem, reg, known) /\ UNCHANGED <<reg, known, skew>>

\* ZNC adds and deletes users; certauth does not hear of it.
AddOwner == \E u \in Owners \ known : known' = known \union {u} /\ UNCHANGED <<mem, reg, skew>>
DelOwner == \E u \in known : /\ known' = known \ {u} /\ skew' = (u \in DOMAIN reg)
                             /\ UNCHANGED <<mem, reg>>
-----------------------------------------------------------------------------
\* OnLoad of the module over its registry: the list it makes, and the registry after it.
Loaded == CASE mod = "watch"      -> WatchLoaded(reg)
            [] mod = "perform"    -> PerformLoaded(reg)
            [] mod = "alias"      -> AliasGet(reg)
            [] mod = "autocycle"  -> CycleLoaded(reg, args)
            [] mod = "autoattach" -> AttachLoaded(reg, args)
            [] mod = "certauth"   -> OnBoot(NoKeys, reg, known)
            [] mod = "autoop"     -> OpLoaded(reg)
            [] mod = "autovoice"  -> VoiceLoaded(reg, args)

Stored == CASE mod = "perform" -> Loaded
            [] mod \in {"autocycle", "autoattach"} -> reg \union ToSet(Loaded)
            [] OTHER -> reg

Init == /\ mod \in ListModules /\ known = Owners /\ skew = FALSE
        /\ args \in CASE mod \in {"autocycle", "autoattach"} -> {<<>>, <<[neg |-> FALSE, chan |-> "a"]>>}
                      [] mod = "autovoice" -> {<<>>, <<"c", "d">>}
                      [] OTHER -> {<<>>}
        /\ reg = CASE mod = "watch" -> {}
                   [] mod = "autocycle" -> ToSet(CycleLoaded({}, args))
                   [] mod = "autoattach" -> ToSet(args)
                   [] mod = "alias" -> [exists |-> FALSE, cmds |-> <<>>]
                   [] OTHER -> <<>>
        /\ mem = Loaded

Reload == mem' = Loaded /\ reg' = Stored /\ UNCHANGED <<mod, args, known, skew>>

Only(m) == mod = m /\ UNCHANGED <<mod, args, known, skew>>

Next ==
  \/ Only("watch") /\ (Watch \/ WatchRemove \/ WatchClear \/ WatchSet \/ WatchSetSources)
  \/ Only("perform") /\ (PerformAdd \/ PerformDel \/ PerformSwap \/ PerformPost)
  \/ Only("alias") /\ (\/ CreateCommand \/ DeleteCommand \/ AddCmd
                       \/ InsertCommand \/ RemoveCommand \/ ClearCommand)
  \/ Only("autocycle") /\ (CycleAdd \/ CycleDel)
  \/ Only("autoattach") /\ (AttachAdd \/ AttachDel \/ AttachSwap)
  \/ /\ mod = "autoop" /\ ~skew /\ UNCHANGED <<mod, args, known>>
     /\ OpAddUser \/ OpDelUser \/ OpAddChans \/ OpDelChans \/ OpAddMasks \/ OpDelMasks
  \/ /\ mod = "autovoice" /\ ~skew /\ UNCHANGED <<mod, args, known>>
     /\ VoiceAddUser \/ VoiceDelUser \/ VoiceAddChans \/ VoiceDelChans
  \/ /\ mod = "certauth" /\ ~skew /\ UNCHANGED <<mod, args>>
     /\ AddKey \/ DelKey \/ OnPostRehash \/ AddOwner \/ DelOwner
  \/ Reload

Spec == Init /\ [][Next]_vars
-----------------------------------------------------------------------------
\* What the hooks of the module make of a list, for every event.
Does(l) ==
  CASE mod = "watch" -> [n \in {"a", "b"}, s \in {"none", "a", "priv"}, att, det \in BOOLEAN |->
                           Process(l, n, s, att, det)]
    [] mod \in {"perform", "alias"} -> l
    [] mod = "autocycle" -> {c \in {"a", "b"} : IsAutoCycle(l, c)}
    [] mod = "autoattach" -> {c \in {"a", "b"} : TryAttach(l, c)}
    [] mod = "certauth" -> l
    [] mod = "autoop" -> [h \in {"m", "n"}, c \in {"c", "d"} |-> FindUserByHost(l, h, c)]
    [] mod = "autovoice" -> [h \in {"m", "n"}, c \in {"c", "d"} |-> CheckAutoVoice(l, h, c)]

TypeOK == mod \in ListModules /\ skew \in BOOLEAN /\ known \subseteq Owners

\* A restart changes nothing: over the list that OnLoad would make of the registry,
\* the hooks of the module do what they do over the list in memory, at every moment,
\* so each command stored what it changed.  Left out is what the code loses or brings
\* back: perform takes another layer off a command and drops an empty one; autocycle
\* falls back to every channel when none is left; arguments come back at each load;
\* autoop drops a user without a key; a user of autoop or autovoice named in another
\* case, and keys of a deleted user of ZNC (skew).
RestartKeeps ==
  LET normal == CASE mod = "perform" -> \A c \in ToSet(mem) : c.layers = 0 /\ c.text # "empty"
                  [] mod = "autocycle" -> args = <<>> /\ \E c \in ToSet(mem) : ~c.neg
                  [] mod = "autoattach" -> args = <<>>
                  [] mod = "autoop" -> ~skew /\ \A u \in DOMAIN mem : mem[u].key # "empty"
                  [] mod = "autovoice" -> ~skew /\ args = <<>>
                  [] mod = "certauth" -> ~skew
                  [] OTHER -> TRUE
  IN  normal => Does(Loaded) = Does(mem)
=============================================================================
