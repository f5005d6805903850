------------------------------ MODULE Listeners -------------------------------
(***************************************************************************)
(* The ports ZNC listens on and what comes in on them: src/src/Listener.cpp, *)
(* AddListener and LoadListeners of znc.cpp, AddPort and DelPort of        *)
(* *status, add_listener and del_listener of webadmin.                     *)
(*                                                                         *)
(* A URI prefix is its word with a slash before it or not and slashes      *)
(* after it.  SSL, group and mode of a listener are left out: they only    *)
(* are further reasons for Listen to fail.                                 *)
(***************************************************************************)
EXTENDS Naturals, Sequences, SequencesExt, FiniteSets

CONSTANTS IPs,            \* remote addresses
          Conns,          \* slots for inbound connections
          AnonIPLimit,    \* m_uiAnonIPLimit, 0 for none
          MaxListeners    \* bound: listeners, as long as they all have an address of their own

VARIABLES listeners,      \* m_vpListeners
          disk,           \* the sections Listener of znc.conf
          conns,          \* the inbound sockets
          wanted,         \* ghost: the addresses that were added and not deleted
          saved,          \* ghost: nothing was changed since znc.conf was written
          failed,         \* ghost: a rehash failed and left some listeners out
          doubled         \* ghost: an address was added whose listener had been closed

vars == <<listeners, disk, conns, wanted, saved, failed, doubled>>

Prefix(lead, word, trail) == [lead |-> lead, word |-> word, trail |-> trail]
NoPrefix == Prefix(FALSE, "none", 0)

TCP(port, addr, accept, prefix) ==
  [at |-> port, addr |-> addr, accept |-> accept, prefix |-> prefix, real |-> TRUE]
Unix(path, accept, prefix) == TCP(path, "unix", accept, prefix)

\* What admins ask for.
Requests == {TCP("1", "ipv4", "all", NoPrefix), TCP("1", "ipv6", "irc", Prefix(FALSE, "znc", 0)),
             TCP("1", "all", "web", Prefix(TRUE, "znc", 1)), TCP("0", "all", "all", NoPrefix),
             Unix("path", "all", Prefix(TRUE, "znc", 0))}

Free == [ip |-> "none", accept |-> "none", as |-> "free"]

\* FindListener and FindUnixListener go by this.
Address(l) == <<l.at, l.addr>>
Addresses(s) == {Address(l) : l \in Range(s)}
-----------------------------------------------------------------------------
(* znc.conf *)

\* CListener::ToConfig, and what CTCPListener and CUnixListener add to it: one has a Port
\* with its families, the other a Path.
BaseConfig(l) == [URIPrefix |-> [l.prefix EXCEPT !.trail = @ + 1],
                  AllowIRC |-> l.accept # "web", AllowWeb |-> l.accept # "irc"]
ToConfig(l) == LET unix == l.addr = "unix" IN
  [base |-> BaseConfig(l),
   Path |-> IF unix THEN l.at ELSE "none", Port |-> IF unix THEN "none" ELSE l.at,
   IPv4 |-> l.addr \in {"ipv4", "all"}, IPv6 |-> l.addr \in {"ipv6", "all"}]

\* The prefix starts with a slash and ends without one.
Normalised(p) == IF p.word = "none" THEN NoPrefix ELSE Prefix(TRUE, p.word, 0)

\* AddListener(CConfig*): without a port it is a path.
FromConfig(c) ==
  [at |-> IF c.Port = "none" THEN c.Path ELSE c.Port,
   addr |-> CASE c.Port = "none" -> "unix"
              [] c.Port # "none" /\ c.IPv4 -> IF c.IPv6 THEN "all" ELSE "ipv4"
              [] OTHER -> "ipv6",
   accept |-> IF c.base.AllowIRC THEN (IF c.base.AllowWeb THEN "all" ELSE "irc") ELSE "web",
   prefix |-> Normalised(c.base.URIPrefix), real |-> TRUE]

WriteConfig(s) == [i \in DOMAIN s |-> ToConfig(s[i])]
-----------------------------------------------------------------------------
(* Listeners *)

\* The system has one socket per address; one for all families takes both.
Overlap(a, b) == a.at = b.at /\ (a.addr = b.addr \/ "all" \in {a.addr, b.addr})
Taken(l, s) == \E k \in Range(s) : k.real /\ Overlap(k, l)
\* Listen.  A path may also fail for its group or mode; the socket is closed then, and a
\* listener that does not listen is deleted: nothing happened.
ListenTCP(l, s) == l.addr # "unix" /\ l.at # "0" /\ ~Taken(l, s)
ListenUnix(l, s) == l.addr = "unix" /\ ~Taken(l, s)
Listen(l, s) == ListenTCP(l, s) \/ ListenUnix(l, s)

Init == /\ listeners = <<TCP("1", "ipv4", "all", NoPrefix)>> /\ disk = WriteConfig(listeners)
        /\ conns = [c \in Conns |-> Free] /\ wanted = Addresses(listeners)
        /\ saved = TRUE /\ failed = FALSE /\ doubled = FALSE

Added(l) == /\ listeners' = Append(listeners, l)
            /\ wanted' = wanted \cup {Address(l)}
            /\ doubled' = (doubled \/ Address(l) \in Addresses(listeners))
Save == disk' = WriteConfig(listeners') /\ saved' = TRUE
SaveOrNot == \/ Save
             \/ UNCHANGED disk /\ saved' = FALSE

\* AddPort: Listen, and AddListener if the socket is there; nothing is saved.  Another
\* listener of the same address is not looked for.
AddPort == \E l \in Requests :
  /\ Len(listeners) < MaxListeners /\ Listen(l, listeners) /\ Added(l) /\ saved' = FALSE
  /\ UNCHANGED <<disk, conns, failed>>

\* webadmin: AddTCPListener or AddUnixListener, and WriteConfig, which may fail.
WebAddListener == \E l \in Requests :
  /\ Len(listeners) < MaxListeners /\ Listen(l, listeners) /\ Added(l)
  /\ SaveOrNot
  /\ UNCHANGED <<conns, failed>>

\* DelListener of the first one with that address; its socket is closed with it.
Found(a) == SelectInSeq(listeners, LAMBDA l : Address(l) = a)
Deleted(a) == /\ Found(a) > 0 /\ listeners' = RemoveAt(listeners, Found(a))
              /\ wanted' = wanted \ {a}
DelPort == \E a \in Addresses(listeners) :
  Deleted(a) /\ saved' = FALSE /\ UNCHANGED <<disk, conns, failed, doubled>>
WebDelListener == \E a \in Addresses(listeners) :
  Deleted(a) /\ SaveOrNot /\ UNCHANGED <<conns, failed, doubled>>

\* Mutant: the CListener goes with its socket.
SockErrorDeleting == \E i \in DOMAIN listeners :
  /\ listeners[i].real /\ listeners' = RemoveAt(listeners, i)
  /\ UNCHANGED <<disk, conns, wanted, saved, failed, doubled>>
\* SockError of a listening socket: the limit of file descriptors; the CListener stays.
SockError == \E i \in DOMAIN listeners :
  /\ listeners[i].real /\ listeners' = [listeners EXCEPT ![i].real = FALSE]
  /\ UNCHANGED <<disk, conns, wanted, saved, failed, doubled>>

\* LoadListeners: all are deleted, those of the file are added up to the first that can
\* not be bound.
Loads(n) == [i \in 1..n |-> FromConfig(disk[i])]
Binds(n) == \A i \in 1..n : Listen(FromConfig(disk[i]), Loads(i - 1))
LoadListeners ==
  /\ \E n \in 0..Len(disk) :
       /\ Binds(n) /\ listeners' = Loads(n)
       /\ wanted' = {Address(FromConfig(disk[i])) : i \in DOMAIN disk}
       /\ failed' = (n < Len(disk))
  /\ saved' = TRUE /\ doubled' = (doubled /\ Cardinality(wanted') < Len(disk))
  /\ UNCHANGED <<disk, conns>>

SaveConfig == /\ ~saved /\ UNCHANGED listeners /\ Save
              /\ UNCHANGED <<conns, wanted, failed, doubled>>
-----------------------------------------------------------------------------
(* Inbound connections *)

\* GetAnonConnectionCount: sockets of that address that are not named USR::, which a
\* CClient is from its first line on.
GetAnonConnectionCount(ip) ==
  Cardinality({c \in Conns : conns[c].ip = ip /\ conns[c].as \in {"incoming", "web", "refused"}})
AllowConnectionFrom(ip) == AnonIPLimit = 0 \/ GetAnonConnectionCount(ip) < AnonIPLimit

\* ConnectionFrom and GetSockObj, for a host that some user allows.
Accept == \E c \in Conns, ip \in IPs, l \in Range(listeners) :
  /\ l.real /\ conns[c] = Free
  /\ conns' = [conns EXCEPT ![c] =
       [ip |-> ip, accept |-> l.accept,
        as |-> IF AllowConnectionFrom(ip) THEN "incoming" ELSE "refused"]]
  /\ UNCHANGED <<listeners, disk, wanted, saved, failed, doubled>>

\* The first line tells the protocol; the socket is swapped for one of its kind.
Dispatched(x, http) ==
  [x EXCEPT !.accept = "none", !.as = IF http THEN (IF x.accept = "irc" THEN "refused" ELSE "web")
                   ELSE (IF x.accept = "web" THEN "refused" ELSE "client")]
ReadLine == \E c \in Conns, http \in BOOLEAN :
  /\ conns[c].as = "incoming" /\ conns' = [conns EXCEPT ![c] = Dispatched(@, http)]
  /\ UNCHANGED <<listeners, disk, wanted, saved, failed, doubled>>

\* A client logs in; a connection ends, times out, was refused, or sends 4096 bytes
\* without a line (ReachedMaxBuffer).
Login == \E c \in Conns :
  /\ conns[c].as = "client" /\ conns' = [conns EXCEPT ![c].as = "user"]
  /\ UNCHANGED <<listeners, disk, wanted, saved, failed, doubled>>
Closed == \E c \in Conns :
  /\ conns[c] # Free /\ conns' = [conns EXCEPT ![c] = Free]
  /\ UNCHANGED <<listeners, disk, wanted, saved, failed, doubled>>

Next == \/ AddPort \/ WebAddListener \/ DelPort \/ WebDelListener \/ SockError \/ LoadListeners
        \/ SaveConfig \/ Accept \/ ReadLine \/ Login \/ Closed

Spec == Init /\ [][Next]_vars
-----------------------------------------------------------------------------
TypeOK == /\ Len(listeners) <= MaxListeners
          /\ \A c \in Conns : conns[c].as \in {"free", "incoming", "web", "client", "user", "refused"}

\* Up to the end, ZNC has a listener for each address that was added by *status,
\* webadmin or the file and for no other, also one the limit of descriptors closed, and
\* at most one socket per address; what it wrote is read back as the same listeners but
\* for the slashes around the prefix (ToConfig, AddListener).  A rehash that failed, and
\* an address added again after its socket was closed, are the exceptions.
PortsKept ==
  /\ \A i, j \in DOMAIN listeners :
       listeners[i].real /\ listeners[j].real /\ Overlap(listeners[i], listeners[j]) => i = j
  /\ ~failed /\ ~doubled => /\ Addresses(listeners) = wanted
                            /\ Cardinality(wanted) = Len(listeners)
  /\ saved /\ ~failed => Loads(Len(disk)) =
       [i \in DOMAIN listeners |-> [listeners[i] EXCEPT !.prefix = Normalised(@), !.real = TRUE]]

\* No more than AnonIPLimit connections of an address are there without a login
\* (ChangeLog.md:1577, settings.tmpl:195), unless there is no limit.
AnonLimit == AnonIPLimit > 0 =>
  \A ip \in IPs : Cardinality({c \in Conns : conns[c].ip = ip /\
                                  conns[c].as \in {"incoming", "web", "client"}}) <= AnonIPLimit
=============================================================================
