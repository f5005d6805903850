------------------------------ MODULE Accounts --------------------------------
(***************************************************************************)
(* Users and their networks: added, cloned, kept, renamed and deleted     *)
(* with the commands of *status, controlpanel and webadmin, while clients  *)
(* are attached and a module of each network keeps its registry on disk.   *)
(*                                                                         *)
(* A network object is a record: its owner, its name, and its module: the  *)
(* registry in memory ("none": not loaded, "": empty) and the directory it *)
(* is saved in, which MoveRegistry changes.  Network names are compared    *)
(* without case ("N" is "n"), directories with it.                         *)
(***************************************************************************)
EXTENDS Naturals, FiniteSets

CONSTANTS Users,        \* names of users; "adm" is the admin
          Names,        \* names of networks
          Values,       \* what a registry may hold
          MaxNetworks,  \* MaxNetworks of a user
          MaxNets,      \* bound: networks of all users
          MaxClients    \* bound: clients that are connected at a time

VARIABLES users,    \* m_msUsers
          nets,     \* the networks
          dying,    \* m_msDelUsers
          at,       \* where the client of a user is: a name, "" (no network) or "closed"
          disk,     \* the registry file of each directory; "" is no file
          kept,     \* ghost: moves and renames kept the registry
          halfway   \* ghost: a hook refused a step of a move or of a rename

vars == <<users, nets, dying, at, disk, kept, halfway>>

Lower(s) == IF s = "N" THEN "n" ELSE s
NetworksOf(u) == {n \in nets : n.user = u}
FindNetwork(u, name) == {n \in NetworksOf(u) : Lower(n.name) = Lower(name)}
HasSpaceForNewNetwork(u) == Cardinality(NetworksOf(u)) < MaxNetworks
Own(n) == <<n.user, n.name>>
\* c may change the networks of u; DenySetNetwork is SettingLife's.
MaySetNetwork(c, u) == c \in {"adm", u}

Init == /\ users = Users /\ nets = {} /\ dying = {}
        /\ at = [u \in Users |-> "closed"]
        /\ disk = [d \in Users \X Names |-> ""]
        /\ kept = TRUE /\ halfway = FALSE

\* A module loads the registry that is in the directory of its network.
Load(n, files) == [n EXCEPT !.reg = files[Own(n)], !.dir = Own(n)]
Fresh(u, name) == [user |-> u, name |-> name, reg |-> "none", dir |-> <<u, name>>]

\* ~CModule saves the registry where the module's directory is by then.
Saved(S, files) == [d \in DOMAIN files |->
  LET here == {n \in S : n.dir = d /\ n.reg # "none"}
  IN  IF here = {} THEN files[d] ELSE (CHOOSE n \in here : TRUE).reg]

\* MoveRegistry: nothing happens when there is no file.
MoveRegistry(n, dir) == IF n.reg # "none" /\ n.dir # dir /\ disk[n.dir] # ""
                        THEN [n EXCEPT !.dir = dir] ELSE n
Copied(n, dir) == IF MoveRegistry(n, dir) = n THEN disk ELSE [disk EXCEPT ![dir] = disk[n.dir]]

\* Clone of a network into a new one: the modules of the old one are loaded.
Clone(old, new, files) == IF old.reg = "none" THEN new ELSE Load(new, files)

\* What was moved is there, if there was something.
Keeps(old, new) == kept /\ old.reg \in {"", new.reg}

\* ~CIRCNetwork of the networks S: their clients are closed.
Closed(S, where) == [u \in Users |->
  IF \E n \in S : n.user = u /\ n.name = where[u] THEN "closed" ELSE where[u]]
-----------------------------------------------------------------------------
\* CUser::AddNetwork; the hook OnAddNetwork may refuse.
Added(u, name) == /\ FindNetwork(u, name) = {} /\ Cardinality(nets) < MaxNets
                  /\ nets' = nets \union {Fresh(u, name)}

\* ADDNETWORK of *status.
StatusAddNetwork == \E u \in users, name \in Names :
  /\ MaySetNetwork(u, u) /\ (u = "adm" \/ HasSpaceForNewNetwork(u))
  /\ at[u] # "closed" /\ Added(u, name)
  /\ UNCHANGED <<users, dying, at, disk, kept, halfway>>

\* AddNetwork of controlpanel: an admin's for anyone.
PanelAddNetwork == \E c, u \in users, name \in Names :
  /\ MaySetNetwork(c, u) /\ (c = "adm" \/ HasSpaceForNewNetwork(u))
  /\ at[c] # "closed" /\ Added(u, name)
  /\ UNCHANGED <<users, dying, at, disk, kept, halfway>>

\* The form of webadmin for a new network.
WebAddNetwork == \E c, u \in users, name \in Names :
  /\ MaySetNetwork(c, u) /\ (c = "adm" \/ HasSpaceForNewNetwork(u))
  /\ Added(u, name)
  /\ UNCHANGED <<users, dying, at, disk, kept, halfway>>

\* CUser::DeleteNetwork and ~CIRCNetwork.
Deleted(n, where) == /\ nets' = nets \ {n} /\ disk' = Saved({n}, disk)
                     /\ at' = Closed({n}, where)

\* DELNETWORK: the client leaves the network first, also when a hook then refuses.
StatusDelNetwork == \E u \in users : \E n \in NetworksOf(u), ok \in BOOLEAN :
  LET where == IF at[u] = n.name THEN [at EXCEPT ![u] = ""] ELSE at
  IN  /\ at[u] # "closed" /\ MaySetNetwork(u, u)
      /\ IF ok THEN Deleted(n, where) ELSE at' = where /\ UNCHANGED <<nets, disk>>
      /\ UNCHANGED <<users, dying, kept, halfway>>

\* DelNetwork of controlpanel refuses the network that the client is on.
PanelDelNetwork == \E c, u \in users : \E n \in NetworksOf(u) :
  /\ at[c] # "closed" /\ MaySetNetwork(c, u) /\ ~(u = c /\ n.name = at[c])
  /\ Deleted(n, at)
  /\ UNCHANGED <<users, dying, kept, halfway>>

WebDelNetwork == \E c, u \in users : \E n \in NetworksOf(u) :
  /\ MaySetNetwork(c, u) /\ Deleted(n, at)
  /\ UNCHANGED <<users, dying, kept, halfway>>

\* Mutant: the registries are left where they are.
MoveNetworkOnly == \E u, v \in users, name \in Names : \E n \in NetworksOf(u), add, del \in BOOLEAN :
  LET new == Clone(n, Fresh(v, name), disk)
  IN  /\ at["adm"] # "closed" /\ "adm" \in users /\ add /\ del
      /\ FindNetwork(v, name) = {}
      /\ kept' = Keeps(n, new)
      /\ nets' = (nets \ {n}) \union {new} /\ disk' = Saved({n}, disk) /\ at' = Closed({n}, at)
      /\ UNCHANGED <<users, dying, halfway>>

\* MOVENETWORK of *status: the registries move before the network is added.
MoveNetwork == \E u, v \in users, name \in Names : \E n \in NetworksOf(u), add, del \in BOOLEAN :
  LET dir == <<v, name>>
      old == MoveRegistry(n, dir)
      files == Copied(n, dir)
      new == Clone(old, Fresh(v, name), files)
      where == IF u = "adm" /\ at[u] = n.name THEN [at EXCEPT ![u] = ""] ELSE at
  IN  /\ at["adm"] # "closed" /\ "adm" \in users
      /\ FindNetwork(v, name) = {}
      /\ halfway' = (halfway \/ ~add \/ ~del)
      /\ IF ~add THEN /\ nets' = (nets \ {n}) \union {old} /\ disk' = files
                      /\ UNCHANGED <<at, kept>>
         ELSE /\ kept' = Keeps(n, new)
              /\ IF del THEN /\ nets' = (nets \ {n}) \union {new}
                             /\ disk' = Saved({old}, files) /\ at' = Closed({n}, where)
                 ELSE /\ nets' = (nets \ {n}) \union {old, new} /\ disk' = files /\ at' = where
      /\ UNCHANGED <<users, dying>>

\* The form of webadmin for a network, with a new name.
Rename == \E c, u \in users, name \in Names : \E n \in NetworksOf(u), del \in BOOLEAN :
  LET dir == <<u, name>>
      old == MoveRegistry(n, dir)
      files == Copied(n, dir)
      new == Clone(old, Fresh(u, name), files)
  IN  /\ MaySetNetwork(c, u)
      /\ FindNetwork(u, name) = {}
      /\ halfway' = (halfway \/ ~del) /\ kept' = Keeps(n, new)
      /\ IF del THEN /\ nets' = (nets \ {n}) \union {new}
                     /\ disk' = Saved({old}, files) /\ at' = Closed({n}, at)
         ELSE nets' = (nets \ {n}) \union {old, new} /\ disk' = files /\ UNCHANGED at
      /\ UNCHANGED <<users, dying>>
-----------------------------------------------------------------------------
\* AddUser of controlpanel, and webadmin's form.
AddUser == \E u \in Users \ users :
  /\ users' = users \union {u}
  /\ UNCHANGED <<nets, dying, at, disk, kept, halfway>>

\* CloneUser of controlpanel, and webadmin's form for a copy: the networks are
\* cloned, and their modules load what is in the directories of the new user.
CloneUser == \E u \in users, v \in Users \ users :
  /\ users' = users \union {v}
  /\ nets' = nets \union {Clone(n, Fresh(v, n.name), disk) : n \in NetworksOf(u)}
  /\ UNCHANGED <<dying, at, disk, kept, halfway>>

\* DelUser of controlpanel and of webadmin: nobody deletes himself; the main loop will.
DelUser == \E u \in users \ {"adm"} :
  /\ dying' = dying \union {u}
  /\ UNCHANGED <<users, nets, at, disk, kept, halfway>>

\* HandleUserDeletion: the hook OnDeleteUser may keep some; ~CUser deletes the rest.
HandleUserDeletion == \E spared \in SUBSET dying :
  LET gone == dying \ spared
      lost == {n \in nets : n.user \in gone}
  IN  /\ dying # {} /\ dying' = {} /\ users' = users \ gone /\ nets' = nets \ lost
      /\ disk' = Saved(lost, disk)
      /\ at' = [u \in Users |-> IF u \in gone THEN "closed" ELSE at[u]]
      /\ UNCHANGED <<kept, halfway>>
-----------------------------------------------------------------------------
\* A client logs in, without a network or to one; JUMPNETWORK; it goes away.
Attach == \E u \in users : \E w \in {""} \union {n.name : n \in NetworksOf(u)} :
  /\ at' = [at EXCEPT ![u] = w] /\ Cardinality({v \in Users : at'[v] # "closed"}) <= MaxClients
  /\ UNCHANGED <<users, nets, dying, disk, kept, halfway>>

Leave == \E u \in users : /\ at[u] # "closed" /\ at' = [at EXCEPT ![u] = "closed"]
                          /\ UNCHANGED <<users, nets, dying, disk, kept, halfway>>

\* LOADMOD and UNLOADMOD of the module, and SetNV, which saves.
LoadMod == \E n \in nets : /\ n.reg = "none" /\ nets' = (nets \ {n}) \union {Load(n, disk)}
                           /\ UNCHANGED <<users, dying, at, disk, kept, halfway>>

UnloadMod == \E n \in nets :
  /\ n.reg # "none" /\ nets' = (nets \ {n}) \union {[n EXCEPT !.reg = "none", !.dir = Own(n)]}
  /\ disk' = Saved({n}, disk)
  /\ UNCHANGED <<users, dying, at, kept, halfway>>

SetNV == \E n \in nets, v \in Values :
  /\ n.reg \notin {"none", v}
  /\ nets' = (nets \ {n}) \union {[n EXCEPT !.reg = v]} /\ disk' = [disk EXCEPT ![n.dir] = v]
  /\ UNCHANGED <<users, dying, at, kept, halfway>>

Next == ~halfway /\
  (\/ StatusAddNetwork \/ PanelAddNetwork \/ WebAddNetwork
  \/ StatusDelNetwork \/ PanelDelNetwork \/ WebDelNetwork \/ MoveNetwork \/ Rename
  \/ AddUser \/ CloneUser \/ DelUser \/ HandleUserDeletion
  \/ Attach \/ Leave \/ LoadMod \/ UnloadMod \/ SetNV)

Spec == Init /\ [][Next]_vars
-----------------------------------------------------------------------------
TypeOK == /\ users \subseteq Users /\ dying \subseteq users /\ halfway \in BOOLEAN
          /\ nets \subseteq [user : Users, name : Names, reg : {"none", ""} \union Values,
                             dir : Users \X Names]
          /\ at \in [Users -> Names \union {"", "closed"}]
          /\ disk \in [Users \X Names -> {""} \union Values]

\* Whatever is done to users and networks: every network has a user, names are unique
\* without regard to case, a client that is on a network is on one of its user's; and
\* a restart loads for each module what it has in memory, also after its network was
\* moved to another user or renamed (MoveRegistry, ~CModule), which keeps the data
\* unless there was none.  Not so when a hook stops a move or a rename halfway: the
\* old network then saves into the directory of the new one.
Owned ==
  /\ TypeOK
  /\ \A n \in nets : n.user \in users /\ FindNetwork(n.user, n.name) = {n}
  /\ \A u \in Users : at[u] \notin {"", "closed"} => \E n \in NetworksOf(u) : n.name = at[u]
  /\ ~halfway => \A n \in nets : n.reg # "none" => disk[Own(n)] = n.reg
  /\ kept

=============================================================================
