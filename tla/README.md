# ZNC: a verification project

ZNC is an IRC bouncer: one process holds the IRC connections ("networks") of
many users, and their clients attach to it and detach from it. Except for a pool
of worker threads it is a single-threaded event loop (`CSockManager::DynamicSelectLoop`,
an external library) that calls handlers of sockets and timers. Handlers call
each other, and module hooks, directly; what makes the program hard is therefore
not only the pool but chains of callbacks, objects deleted while something
still refers to them, and queues fed from many places.

This directory holds TLA+ models of its parts, TLC configurations that check
them on small instances, and proofs checked by TLAPS.

## Inventory

| Component | State | Operations | Hard part | What makes it correct |
|---|---|---|---|---|
| Thread pool (`Threads.cpp`) | job list, job states, pipe, two counters, `m_done` | `addJob`, `threadFunc`, `jobDone`, `cancelJobs`, `handlePipeReadable`, destructor | threads, three condition variables, raw pointers in a pipe, cancellation races | every job is held by one place; no lost wakeup; exact counters; cancel and exit return |
| DNS resolution (`Socket.cpp`) | `TDNSTask` per socket, `m_InFlightDnsSockets` | `Connect`, `StartTDNSThread`, `SetTDNSThreadFinished`, `FinishConnect`, `DelSockByAddr` | two results in any order, owner destroyed meanwhile, reused addresses | one join per task, marks match owners, families fit |
| Server list (`IRCNetwork.cpp`) | `m_vServers`, `m_uServerIdx` | `AddServer`, `DelServer`, `GetNextServer`, JUMP, `Clone`, webadmin | unsigned index into a list that changes while connected | no wrap, no server skipped |
| Connect queue, throttle (`znc.cpp`) | `m_lpConnectQueue`, timer, `m_uiConnectPaused`, `m_sConnectThrottle` | enqueue, `RunJob`, pause, resume | re-entrancy: attempts put networks back into the queue while it is walked | nobody forgotten, timer runs when needed, pauses balanced, networks get to try |
| IRC socket life (`IRCSock.cpp`), identfile | `m_pNetwork`, `m_bAuthed`; `m_pIRCSock` of identfile | created by `Connect`, 001, disconnected, destroyed | deletion in either order with the network; identfile pauses the queue of *all* users | pointers agree in both directions; held socket and pause agree |
| Server capabilities (`IRCSock.cpp`), `sasl.cpp` | pending and accepted sets, `m_uCapPaused`; mechanism in use, `m_bAuthenticated` | `SendNextCap`, `PauseCap`, `ResumeCap`, CAP handlers, AUTHENTICATE and 903 to 907 | asynchronous replies, modules that pause, a list that changes meanwhile | both sides agree on what is enabled; CAP END comes after everything; `require_auth` holds |
| Send queue (`IRCSock.cpp`) | `m_vSendQueue`, `m_iSendsAllowed` | `PutIRC`, `PutIRCQuick`, `TrySend`, flood timer | PINGs overtake; two integer widths compared | order kept, burst bounded, everything sent |
| Channels, nicks (`Chan.cpp`, `Nick.cpp`, `IRCSock.cpp`; kickrejoin, stickychan, autocycle, keepnick) | nick list, permissions, `m_bIsOn`, `m_bDisabled`, join tries | JOIN, PART, KICK, QUIT, NICK, MODE, NAMES, join timer | the server's lines cross ZNC's | ZNC's picture is the server's; the nick is regained |
| Buffers (`Buffer.cpp`, `Query.cpp`, `Chan.cpp`; autoattach, flooddetach, clearbufferonmsg, buffextras, savebuff) | lines, `m_bDetached`, sizes, auto-clear | messages, attach, detach, `SendBuffer`, clear | several clients attach and detach while lines arrive | each line reaches a client or a buffer, once |
| Clients (`Client.cpp`, `Listener.cpp`; authentication modules) | login fields, `m_spAuth`, lists of clients | PASS, NICK, USER, CAP, AUTHENTICATE, `AcceptLogin`, JUMPNETWORK | authentication answers later, or after the client went away | logged in at most once, as the right user; login ends |
| Configuration, main loop (`znc.cpp`, `main.cpp`) | `m_eConfigState`, znc.conf, users to delete | signals, rehash, delayed save, `WriteConfig`, shutdown | one slot written by another thread; crash in a save | the file can be loaded; a save happens |
| Settings (`User.cpp`, `IRCNetwork.cpp`, `Chan.cpp`, controlpanel, webadmin) | every setting of user, network, channel | set, reset, write, parse, clone, inherit | each setting passes through five places | survives restart and clone; Deny flags hold |
| Accounts (`User.cpp`, `ClientCommand.cpp`, controlpanel, webadmin) | users, networks, registries | add, delete, clone, move, rename | several steps, each can be refused; deferred deletion | nothing refers to what is gone; data moves along |
| Modules and hooks (`Modules.cpp`) | loaded modules, their sockets, timers, jobs, registry | load, unload, reload, hook loops | UNLOAD in the middle of a hook loop | what a module owns ends with it; hooks reach all |
| Web (`HTTPSock.cpp`, `WebModules.cpp`) | sessions, cookies, counts per address | request, login, POST, expiry | logins answer late; sessions are shared and outlive their entry | a page is shown only to its user |
| Listeners (`Listener.cpp`) | `m_vpListeners`, inbound sockets | add, delete, rehash, accept | failure in the middle, lack of descriptors | ports survive a restart |
| Bundled modules with protocols: route_replies, autoop, simple_away, awaystore, dcc, bouncedcc, crypt | queues, challenges, flags, files, keys | see the modules below | timeouts, nick changes, late answers | as stated by their properties |
| Modules that keep lists: watch, perform, alias, autocycle, autoattach, autoop, autovoice, certauth | list and registry | their commands | memory and registry are changed by different code | a restart changes nothing |
| Strings, messages (`ZNCString.cpp`, `Message.cpp`) | none | `WildCmp`, `Escape_n`, `Token`, `Split`, `Parse`, `ToString` | backtracking, positions in strings | text comes back, masks match what they mean |

How they interact: a network enters the connect queue; the queue's timer calls
`CIRCNetwork::Connect`, which takes the next server, consults the throttle,
creates a `CIRCSock`, asks every module (`OnIRCConnecting`; identfile may claim
the socket and pause the queue) and hands it to `CSockManager::Connect`; that
starts DNS jobs in the thread pool, whose results come back through the pipe to
the main loop; the socket then lives in the socket manager until it ends, and its
destructor tells the network, which enters the queue again. An open socket
negotiates with its server and then exchanges lines with it, which change
channels and fill buffers; clients connect through a listener, log in, attach to
a network and are sent the buffers. Commands of clients and forms of the web
interface change settings, accounts and modules, and the main loop writes them to
znc.conf.

Components left out, and why, are listed in `PROJECT.json` and under
"Not modelled".

## Modules

Everything between two calls of the event loop is one handler and runs without
interruption, so an action is a whole handler with all it calls, except where the
code itself is interrupted: by threads (`ThreadPool`, the signal thread in
`Config`), by death of the process (`Config`, `AwayStore`), or where a handler's
loop has to be followed step by step (`IrcConnect`'s `RunJob`, `ModuleHost`'s
hook loops). Calls that change several objects are operators on a record that
are composed in the order of the code and keep its names.

### `JobLifecycle`: what the pool promises

One variable, `phase`, gives each job's place in its life:

    none -> queued -> running -> done -> inMain -> none
    queued, done -> cancelled;  running -> stopping -> cancelled;  cancelled -> none

A cancelled job never enters `inMain`, and a job that a thread runs is
`stopping` until the thread has left it. `ThreadPool` implements it under the
mapping `PhaseOf`; `Resolver` relies on it.

### `ThreadPool`: `src/src/Threads.cpp`

A critical section of `m_mutex` is one action: `ThreadStart`, `ThreadWake` and
`JobDone` for workers (each ends in `Loop`, the body of `threadFunc`'s loop up
to the next wait, unlock or return), `AddJob`, `CancelJobs` / `MarkJob` /
`Collect` / `DrainCancelled` / `DeleteLater` (the phases of `cancelJobs`),
`ReadPipe` / `FinishJob` (`handlePipeReadable` and `finishJob`), `DestroyPool` /
`ExitWake`. The marking loop of `cancelJobs` takes an action per job and keeps
workers out, which makes the order of the set irrelevant. `notify_one` picks any
sleeper; any wait may end spuriously. Job addresses and thread identities are reused.
A job in `Endless` returns from `runThread()` only when `wasCancelled()`, as the
jobs of `test/ThreadTest.cpp` do.

Left out: a full pipe (it would need thousands of finished jobs between two turns
of the event loop), a `cancelJobs` nested in the `runMain()` of a job (`addJob`
there is modelled), thread creation failures, `CJob` deletion by others.
`DestroyPool` requires that no job in `Endless` is left: the pool is destroyed at
process exit, after `~CModule` has cancelled the jobs of every module.

### `Resolver`: `src/src/Socket.cpp`

Per socket address: the object (`obj`), whether its owner exists (`owned`), its
entry in `m_InFlightDnsSockets`, its `TDNSTask`, its outstanding jobs and, once
listed, the address families that were picked. `Connect` starts one job or, with a
bind host, two; `JobFinished` is `CDNSJob::runMain` with
`SetTDNSThreadFinished` and what it calls (`FinishConnect`, or the catch block,
`ReportError`); a lookup returns any set of families, the empty set being
failure; `OwnerDestroyed` is the `DelSockByAddr` call of `~CIRCNetwork` and
`~CModule`. The random choice among addresses is a choice among families:
only families are told apart. A call through a deleted owner sets `crashed`,
after which nothing more is said of the process. A dropped socket keeps its address (`leaked`), as
the code never deletes it.

### `IrcConnect`: `IRCNetwork.cpp`, `znc.cpp`, `IRCSock.cpp`, `identfile.cpp`

The record `znc` is CZNC's queue, timer and pause counter; the operators on it
(`EnableConnectQueue`, `PauseConnectQueue`, `ResumeConnectQueue`,
`AddNetworkToQueue`, ...) keep the source's names and are composed in the order in
which a handler calls them. Actions: creation and deletion of a network, connect
and disconnect, JUMP, adding and removing servers, webadmin's replacement of the list,
`Clone`, the timer's `RunJob`, throttle expiry, and the events of a socket. `RunJob`
takes one action per network it tries (`TryNothing`, `TryThrottled`,
`TryAborted`, `TryConnect`, `TryUnixFails`); other events are kept out while it
runs, since it is a single handler.

Restrictions: whether identfile is loaded is a constant, as is whether some
other module aborts attempts; it is consulted after identfile. Hooks
do not delete networks or change settings. A server is its name, and a list holds a name
once (the throttle goes by name, too). A throttle entry does not expire
during `RunJob`. `closing` records that `Close()` or `Quit()` was called; the
socket ends in a later turn of the event loop. Shutdown (`LeakConnectQueueTimer`) is
left out, and so are proxies for the thread pool: a lookup is an action that happens
later (`Resolved`, `ResolveFails`), as `Resolver` shows in detail.

`MCIrcConnect` moves two instances on the same variables: "names", in which servers have names and only identfile aborts attempts,
and "unix", in which they are unix sockets, which may fail to open, and modules abort attempts. In the second a network may
be aborted for ever and keep others from their turn, so `NetworksTry` is about the first.

### `ServerCap`: `IRCSock.cpp`, `sasl.cpp`

Two sequences, `toServer` and `toZnc`, are the lines on their way. ZNC's part is
an action per kind of line it reads: `OnAvailable` (CAP LS, first lines of a long LS, NEW),
`OnAck`, `OnNak`, `OnDel`, `OnAuthenticate`, `OnSaslSuccess` (903, 907),
`OnSaslFailure` (904, 905), `OnSaslAborted` (906), `OnWelcome` (001); each
includes the hooks of the sasl module and the `SendNextCap` at its end. How many
capabilities fit into a request depends on the lengths of their names, so
`SendNextCap` asks for any non-empty part of the pending set. `Wanted` are the
capabilities that ZNC knows or a module asks for, without the blacklisted
ones; `Dependent` are those of `AddServerDependentCapability`, which are not asked
for again once enabled. `Reconnect` ends a connection at any point; the module
and its variables stay, the socket is new.

The server is external and modelled from the replies that the code handles: it
answers each request in order, refuses a request as a whole, may announce and
withdraw capabilities at any time (NEW, DEL), and ends an authentication that
CAP END overtakes with 906. It does not send 902, and no module keeps 001 or a CAP line from ZNC.
`require_auth` is changed between connections only, and the list of mechanisms is not empty.
After `Quit` the socket reads no more lines.

Some of its properties carry a condition, because the code keeps them no
further. A NEW or DEL before registration makes `SendNextCap` send CAP END although a
REQ is unanswered, so `EndComesLast` speaks of connections in which the server has
announced no change. And the sasl module does not expect a change of sasl
itself: a second ACK pauses the negotiation twice, a failure reported for
an authentication that was given up resumes it once too often, the unsigned
`m_uCapPaused` wraps, and registration may hang; so `PausesBalanced` and
`Registers` require that the server leaves sasl alone (`saslStable`), and
`NothingMissed` requires that or that the negotiation is not paused. `Agreement`
and `AuthRequired` hold regardless.

### `SendQueue`: `IRCSock.cpp`

`PutIRC`, `PutIRCQuick`, `TrySend` and `CIRCFloodTimer` with the widths of
`m_iSendsAllowed` (short) and `m_uFloodBurst` (unsigned short). A FloodBurst of 0
is excluded: with it no line is ever sent. Above 32767 the number of allowed lines starts below zero and wraps at the
top, so a line may wait for 32768 turns of the timer, and a burst has no bound by FloodBurst. No bundled module puts lines
from `OnSendToIRCMessage`, so `TrySend` does not enter itself.

### `Channels`: `Chan.cpp`, `Nick.cpp`, `IRCSock.cpp`, `IRCNetwork.cpp`, four modules

One channel and one other user. `members`, `me`, `other` are the server's truth;
`nick`, `chan` are ZNC's picture of it; `out` and `wire` are the lines under way. `ReadLine` is
the handler of each line with what the modules do in their hooks, `Serve` the
(external) server. Clients join and part, users change the list of channels, the network
kicks and changes modes and nicks while lines are under way. A kick of our own nick reaches both autocycle and
kickrejoin, whose lines go out in the order in which the two were loaded. `Mirror` compares the two
pictures whenever no line to ZNC is left.

### `Playback`: `Buffer.cpp`, `Query.cpp`, `Chan.cpp`, `Client.cpp`, `IRCSock.cpp`, five modules

Where each line went (`seen`, `gone`, `unheard` are ghosts in `net`) and which
buffer holds it, with clients that attach, detach, go away, ask for playback and clear,
with sizes and auto-clearing, and a restart with or without savebuff. Of the
modules one is loaded in a behaviour.

### `ClientLogin`: `Listener.cpp`, `Client.cpp`, `znc.cpp`, authentication modules

One connection after another of one host. `client` holds the fields of `CClient`,
`listed` where it is listed, `pending` the `CAuthBase` objects that modules
still have to answer. Right or wrong passwords are a choice. Two kinds of
behaviours are excluded by name from the properties: a login that is begun while another waits
makes the client forget the first (`superseded`), and SASL that succeeds after CAP END is not
continued (`late`).

### `Config`: `znc.cpp`, `main.cpp`

The loop in steps (`pc`): read and clear `m_eConfigState`, act on it, delete users,
serve events; `WriteConfig` is three more steps (open, write, move), and ZNC may
die before each. Signals store into the slot at any step. `spoiled` records
that the running ZNC was left in a state that it cannot load again, `owed` that
memory differs from the file.

### `Settings` and `SettingLife`: `User.cpp`, `IRCNetwork.cpp`, `Chan.cpp`, `Client*.cpp`, `controlpanel.cpp`, `webadmin.cpp`

`Settings` has no state: for a setting, what each setter, getter, `ToConfig`,
`ParseConfig`, `Clone`, command and form makes of a value. Values are classes
(empty, default, two spellings of one word, refused, too big, too fine). `SettingLife`
picks one setting and changes, saves, clones and reloads it in any order.

### `Accounts`: `User.cpp`, `IRCNetwork.cpp`, `ClientCommand.cpp`, `controlpanel.cpp`, `webadmin.cpp`

An admin and a user, their networks, and on each network a module with a registry.
Adding, deleting, cloning, moving and renaming with the conditions of each of the
three interfaces; deletion of a user is deferred. `halfway`: a hook refused one
step of a move, which leaves two networks writing one file; no bundled module does that.

### `ModuleHost`: `Modules.cpp`, `Modules.h`

The vector of modules as memory and size, so that a loop that goes on over a
vector from which a module was erased reads what is really there. Hooks are forwarded
from new to old names as in the code. What a hook does is a choice: nothing, or throw UNLOAD
or UNLOADREASON, or start a timer, socket or job.

### `ModLists`: eight modules

Each command of each module on the list in memory and on the registry; `Loaded`
is what `OnLoad` would make of the registry now. `RestartKeeps` compares what the hooks
do over both.

### `Web`: `HTTPSock.cpp`, `WebModules.cpp`

Sockets, session objects (alive as long as the map or a socket refers to them),
the map, browsers with their cookies and what each of them knows. A login may be answered
late by an authentication module. `FinishUserSessions` takes the sessions of a user who is deleted out of the map, but a
socket that refers to one keeps it, with its pointer to the user. `fault` is set when a socket then uses the deleted user
or, in a session that another socket logged out, the null one; nothing is claimed of what the program does afterwards.
That the first never happens is `NotAfterDelete`, which the run `web_deleted` refutes (see Findings).

### `Listeners`: `Listener.cpp`, `znc.cpp`, `ClientCommand.cpp`, `webadmin.cpp`

The list, the section in znc.conf, inbound sockets, and the ways in which listeners come and
go, with failures to listen and a socket closed for lack of descriptors.

### `RouteReplies`, `AutoOp`, `SimpleAway`, `AwayStore`, `Dcc`, `Crypt`

One module of ZNC each, with its timers, against an external server or peer.
`RouteReplies`: requests of clients wait for the one before; the timer gives a request up. A client leaves in three
ways: it disconnects, of which the module is told; it goes to another network by JUMPNETWORK
(`CClient::SetNetwork`), of which the module is not told, so what it has of the client stays (`left`); and from there it
disconnects unnoticed. A client that comes may be a new one at an old address. `AutoOp`:
challenge and response, keyed by nicks that change. `SimpleAway`: `m_bWeSetAway` and
`m_bClientSetAway` against what the server has. `AwayStore`: messages and their file, written with one of two keys.
A save may fail before the file is opened, in which case it stays, or after it was truncated, in which case a part of it is
left (`FailedSave`); a file that is there may be unreadable, which `DecryptMessages` takes for no file; the code goes on as
if nothing had happened, and so does the model.
`Dcc`: a transfer by dcc in either direction, or through bouncedcc, in units of bytes with 32-bit positions; files are
of any size that `OpenFile` takes.
`Crypt`: two users and the DH1080 exchange.

### `Text`: `ZNCString.cpp`, `Modules.cpp`, `Message.cpp`, `Nick.cpp`

Text is a sequence of atoms that are typed one by one; `MasksRight` compares
`WildCmp` with a reference definition of matching, `ComesBack` is about escaping and the
registry file, `TokensAgree` relates `Token` and `Split`, and `SameMeaning` says that what
`CMessage::ToString` writes is parsed to the same message.

### `MCOwners`, `MCIrc`, `MCModules`, `MCDaemon`, `MCState`

Instances of several modules that share no state. A behaviour chooses a `part` and moves
only that one, the others staying in an initial state, so each part is explored as if alone, and
a run's states are the sum, not the product. A property of a run is the conjunction of what its
parts promise. Each extends one of its parts (`Resolver`, `ServerCap`, `Crypt`, `Config`, `Playback`),
whose constants the configuration gives and whose properties keep their names, so that a theorem about that
part is about the property the run checks; the constants of the other parts about which there are theorems (`Accounts`,
`Channels`, `ClientLogin` and all of `MCModules` but the list of servers and the text) are given there as well.

## Runs

| Run | Checks | Shows |
|---|---|---|
| `pool` | `CountersExact`, `NoLostWakeup`, `OneHolder`, `CancelledJobsDeleted`, `LifecycleSpec`, `JobsEnd`, `CancelReturns`, `DestructorReturns` | three threads, three jobs, one endless, two idle threads allowed, fair scheduling |
| `pool_queued` | `QueuedOnlyAtLimit` (refuted) | see Findings |
| `owners` | `JobsMatchTask`, `MarksExact`, `FamiliesMatch`, `LookupEnds` (`Resolver`); `References` (`Accounts`) | lookups with every pair of results in every order; users and networks |
| `resolver_dead_owner` | `SilentDeath` (refuted) | see Findings |
| `connect` | `NoneForgotten`, `QueueSound`, `SockOwned`, `PauseBalanced`, `NetworksTry` | two networks that share a server, three sockets, identfile; the server has a name, or is a unix socket and modules abort attempts |
| `identfile_stuck` | `PausedForNetwork` (refuted) | see Findings |
| `irc` | `Mirror`, `KeepNickGets` (`Channels`); `Agreement`, `NothingMissed`, `NegotiationOrdered`, `NegotiationEnds` (`ServerCap`) | the two conversations with a server |
| `modules` | `TrafficRight`, `TextRight`, `KeysAgree` (`Crypt`), `NextServerKept`, `AllSent`, `RequestsServed`, `HolderOpped`, `TransferEnds` | send queue, list of servers, text, route_replies, autoop, simple_away, dcc, bouncedcc, crypt |
| `daemon` | `Consistent`, `LoginCompletes` (`ClientLogin`); `Loadable`, `SaveHappens` (`Config`) | main loop and logins |
| `state` | `NoLineLost` (`Playback`), `Durable`, `DenyHolds`, `NoOrphans` | buffers, settings, web sessions, modules, their lists, listeners, awaystore |
| `web_deleted` | `NotAfterDelete` (refuted) | see Findings |
| `anon_limit` | `AnonLimit` (refuted) | see Findings |

Some properties join what belongs together: `NetworksTry` is `NetworkTries` in the part "names"; `QueueSound` the type of the queue, that its timer
runs and that it holds live networks once; `NoLineLost` is `Kept` and `NotTwice`; `NegotiationOrdered` is `PausesBalanced`, `EndComesLast`
and `AuthRequired`; `NegotiationEnds` is `Registers`; `Durable` is `SurvivesRestart`,
`CloneKeeps`, `RestartKeeps`, `MessagesKept` and `PortsKept`; `NoOrphans` includes `HookReachesAll` and
`PagesRight`; `References` is `Owned`; `TrafficRight` is `SendsInOrder`, `RightClient`, `TransferSafe`
and `AwayRight`, with the types of these parts and of `AutoOp`; `TextRight` is the four properties of `Text`; `CountersExact` includes the
types of the pool's variables. The parts are stated with their conditions in the modules.

**Bounds.** *Pool:* with `MaxTotal = 3` and `MaxIdle = 2` all three outcomes of `addJob`
occur, threads exit because too many are idle, and two notified threads compete for
one job; `cancelJobs` is called with every subset of existing jobs, so a call meets
queued, running and done jobs at once, with other jobs' pointers before them in the pipe.
Jobs are reused without limit. *Resolver:* sockets interact only through
address reuse, which needs one; two show that they do not disturb each other.
*IrcConnect:* two networks compete for the queue, the throttle and identfile; three sockets
let one be dropped while others are used. Two servers to a part would be too many states, and `NetworksTry` fails with
them (see Observations); the four invariants are proved for any servers, unix sockets and aborting modules. In `modules` three servers put the current one
before, after and between others. Leaked addresses are never reused: when
all are leaked the model stops (`Ended`); that is the bound.
*ServerCap:* one capability besides sasl, so a request for two
can be refused for either; `MaxChanges = 2` lets one be withdrawn and
announced again during a request; `MaxConns = 2` is what a flag that outlives a
connection needs; `UIntMod = 8` is more than the pauses that occur.
*Channels:* two lines each way cross, and three unbidden events, such as a kick, a change of nick and a JOIN,
happen in any order with them. *Playback:* two clients, two peers, three lines, buffers
of one line or none, so that limits are met. *ClientLogin:* two connections, six lines
before the attaching, fail2ban with a limit of two. *Config:* two admins, one listener and all
three signals, without a bound on steps. *SettingLife:* every setting, every class of value, no bound on steps.
*Accounts:* two users, three names of which two differ in case, two networks. *Web:* two sockets,
two browsers at two addresses, two sessions; a limit of one session to an address. *ModuleHost:* three modules, which is what
erasing the first or the middle one during a loop needs. *ModLists:* two entries. *Listeners:*
two, and one inbound connection (three of two addresses in `anon_limit`). *AwayStore:* two messages; any save, load or
write may fail. *Crypt:* two pairs of keys each, one message and an
answer under way. *SendQueue:* shorts of -4 to 3, bursts 1 to 3 and 5, which does not fit, six lines. *RouteReplies:* two clients, four requests, any number of jumps to another network and back.
*AutoOp:* a holder of the key and another peer, four nicks of which two differ in case, five changes. *Dcc:* positions
modulo 16, a window of 4, files of up to 15 units, the largest that `OpenFile` takes: for the last three sizes the sum
of position and window wraps. Packets and reads have up to 2 units. *Text:* masks of 3 atoms, strings of 4, lines of 5, values of 3.

A registered connection without traffic, a client that is attached, or a module with nothing to do may stop for good, so deadlock is not
checked in `irc`, `modules`, `daemon`, `state` and `anon_limit`; nor in the runs where a bound on events is reached.

**Fairness.** *Pool:* strong fairness of each worker (a mutex that is released again
and again is obtained in the end; `runThread()` of a job outside `Endless`
returns) and of `ReadPipe` (the event loop polls the pipe in every iteration);
weak fairness of the main thread inside the pool's functions and `runMain()`.
Nothing obliges anyone to add or to cancel jobs. *Resolver:* weak fairness of each
lookup: `getaddrinfo` returns and `CDNSJob::runThread` tries a bounded number of
times. *IrcConnect:* strong fairness of the timer's steps, of the expiry of each throttle entry,
of the end of each lookup, and of an opening socket logging in or ending (the
connection time-out). Handlers take no time compared with the 30 seconds of
the throttle, and the event loop looks at every socket and timer in each
iteration, so users who change settings without end cannot keep these from
happening. Nothing obliges a logged-in connection to end. *ServerCap:* weak fairness of reading the next
line, which the event loop does, and of the server's answers; a server that falls silent is
left to the read time-out, which is not modelled. *Channels:* weak fairness of handling the next line and
of the server's answer; strong fairness of keepnick's timer, which runs every 30 seconds but does nothing while
the nick is held. *Config:* weak fairness of the loop's next step, strong fairness of the timer of delayed
writes, since other events come in between. *ClientLogin:* weak fairness of the answer of an authentication module (its socket
has a time-out) and of closing a socket that is to close. *SendQueue:* weak fairness of
the flood timer. *RouteReplies:* weak fairness of its timer only; the server may never answer. *AutoOp:* weak fairness of the queue's timer and
of the peers' messages. *Dcc:* weak fairness of polling and of what the other ends do according to the protocol; a peer that stops is `broken`.

## Findings

Five properties are stated by the repository's own comments, messages or change log and
refuted by what the code does.

1. `QueuedOnlyAtLimit` (`Threads.cpp:150-158`). `addJob` takes `m_num_idle > 0` to mean
   that a thread can handle the job, but a thread notified for an earlier job still
   counts as idle until it gets the mutex. Two jobs added in a row share one thread
   although another could be started; if the first job runs until it is
   cancelled, the second never runs. `NoLostWakeup` is what does hold.
2. `SilentDeath` (`Socket.cpp:464` and `380`). A resolving socket whose owner is destroyed is to
   "silently die without crash". It does when the lookup succeeds; when it fails the
   catch block calls `SockError` and the destructor, which use the owner.
3. `PausedForNetwork` (`Socket.cpp:439`, `identfile.cpp:181`). A network deleted while its
   socket resolves leaves identfile holding that socket for ever, since it is
   dropped without its destructor. The connect queue stays paused for all users. `NetworkTries`
   excludes this case by name.
4. `AnonLimit` (`Socket.cpp:78`, `Listener.cpp:290`). `AnonIPLimit` "limits the number of
   unidentified connections per IP" (`ChangeLog.md:1577`), but a connection that has sent its first line is
   named `USR::???` and is no longer counted, long before it logs in.
5. `NotAfterDelete` (`WebModules.cpp:233`, `znc.cpp:168-169`). The change log says that a use after delete in webadmin was
   fixed (`ChangeLog.md:517`). One is left: the sessions of a user are erased from the map before he is deleted, but a
   web socket that is still open, its answer not yet written or its request not yet complete, keeps its session and
   `m_pUser` in it. `~CWebSock` counts its traffic for that user, and a page answered later reads his name.
   `NoOrphans` says what does hold: no cookie leads to such a session.

**Observations.** Behaviour that no document contradicts, found while stating what holds; where a property
carries a condition, it is because of one of these.

*Connecting.* With two servers shared by two networks `NetworkTries` fails, because `GetNextServer` advances also when the
server turns out to be throttled, and the two can stay out of step for ever, one of them
always finding the server throttled by the other; the run has one server. A
numeric 902 ends an authentication without resuming the negotiation.

*Configuration.* The slot `m_eConfigState` is read and cleared in two steps, so a signal, QUIT included, can
be lost, and a later request replaces an earlier one; a request in the round in which the write timer fired
replaces NEED_WRITE by another delay. A rehash that fails leaves ZNC without listeners. A global StatusPrefix is
not validated, admins can delete each other, and the last listener can be deleted: then znc.conf cannot be loaded.

*Settings.* The form of webadmin erases CTCP replies that a denied user may not set. `Clone` drops TrustAllCerts, TrustPKI and
disabled channels. A network's value that equals the user's but for case is inherited after a restart. FloodRate is written
with two decimals. A buffer that `ResetBufferCount` could not set, because the user's default is over the limit, changes at a restart.
A listener's URIPrefix from AddPort or webadmin is normalised only at the next start.

*Channels and buffers.* kickrejoin with a delay of 0 enables the channel before the core disables it; autocycle reacts to a
KICK before the nick is removed. A JOIN of a detached channel by one client attaches it silently for the others; `CIRCSock::ResetChans` changes
nothing; autoattach without clients clears a buffer unplayed; flooddetach goes on counting in a channel that the
user detached.

*awaystore.* Messages can be lost in three ways, which `MessagesKept` counts off (`kept` goes on with what is left). A file
that cannot be opened or read counts as no file (`awaystore.cpp:455-458`), and the next save overwrites it. Errors
of opening and of writing after truncation are ignored: while the module is loaded the next save repairs the file, but nothing
does after its last. And ZNC may die in a write or between two. Besides, the command Pass without a password stops a
module from saving, and with one makes a module that stores nothing overwrite the file.

*Clients and modules.* `StartSASLPasswordCheck` goes on after it has refused a differing authzid. UNLOAD thrown in a hook loop makes the loop skip
a module or read the slot of a deleted one. No bundled module refuses `OnAddNetwork`, `OnDeleteNetwork` or
`OnDeleteUser`. route_replies serves clients in the order of their
addresses, so one that keeps asking can starve another; and it does not implement `OnClientDetached`, so the replies
for a client that left by JUMPNETWORK follow it to another network or, if it disconnected there, go to whatever is at its
address. `RightClient` excepts such clients (`left`) until the module has nothing of them any more. A file sent by dcc
of more than 2^32 - 65536 bytes may stall near its end, where position and window no longer fit in 32 bits
(`dcc.cpp:363-364`), until the time-out closes it; `TransferEnds` claims that the file arrives for smaller ones (`Fits`).
A web socket that was logged in takes it that its session still is; when another socket of the session has logged out
meanwhile, the user it dereferences is null (`WebModules.cpp:678`). A bounced DCC peer is shut down at once, its write buffer discarded, and
bouncedcc's `GetSockObj` passes `m_bIsChat` for a time-out. crypt, restarted between INIT and FINISH, leaves two
different keys. A prefix `n!u` is read as nick and host, and written as `n@u`.

## Proofs

Eight modules hold theorems, each for every value of the constants: `ThreadPool_proof` and
`IrcConnect_proof` about the module they are named for,
`MCState_proof` about `Playback`, `Web` and `ModuleHost`, `Durable_proof` about the other parts of `MCState`, which are `SettingLife`,
`AwayStore`, `Listeners` and `ModLists`, `MCOwners_proof` about `Resolver` and `Accounts`, `MCModules_proof` about `Crypt` and the other
parts of `MCModules`, `MCIrc_proof` about `ServerCap` and `Channels`, `MCDaemon_proof` about `Config` and `ClientLogin`. Every theorem about an
invariant is obtained from an inductive one: it holds initially, each action keeps it (a lemma per action), and it
implies the property. The functions that handlers are composed of have lemmas of their own, and a handler's proof
follows its code.

**Assumptions.** Each is made by the module that declares the constants, and TLC evaluates them in the runs.
`ThreadsAssumption` (finitely many identities, at least `MaxTotal`), `JobsAssumption` and
`LimitsAssumption` (both limits positive) for the pool; `ConnAssumption` (the null value is no pair of families);
`NamesAssumption` and `ServersAssumption` (null values are no networks and no sockets, unix sockets are servers);
`CapsAssumption` and `CountsAssumption` (finitely many capabilities; at least one mechanism; a counter of pauses that
can hold 1); `FreshAssumption` (there is a user and a listener to start with); `LoginAssumption` (the modules are
those of the model); `UsersAssumption` (a key exchange has two ends); `NicksAssumption` and `NoChanAssumption` (the three nicks differ, the
null value is no `CChan`) and `BoundsAssumption` (numbers) for the channel; `SizesAssumption` and Playback's
`LimitsAssumption` (sizes and limits are numbers); and of the parts of `MCModules` `QueueAssumption` (a FloodBurst is an unsigned short),
`RepliesAssumption`, `AwayAssumption` and `DccAssumption` (numbers; a packet has a byte, and a paused transfer goes on below
the size at which it was paused), `NicksAssumption` (no challenge has the name of one that is gone); and of the parts of
`MCState` `WebAssumption` (there are a browser and an address), `KeptAssumption` (bounds are numbers, and one listener fits) and `HostAssumption` (the hooks that are called have a loop
over the modules). `Jobs`, `Socks`, `Networks`, `Servers` and `Clients` may be infinite.

**Thread pool.** `PoolInv` is inductive; it is `PoolCore` (types of the pool's
state, the exact counters, and the two halves of `NoLostWakeup`) with the typing of
the main thread's state. `NoLostWakeup` needs the counters: that a thread is
sleeping, or that none may be started, is known to `addJob` only through them.
The second half needs the limit on idle threads: a thread that exits with jobs
pending leaves more than `MaxIdle - 1` others idle, and by the first half they
cannot all be asleep. Cardinalities change by one under `Goto`; lemmas state
this once. `HolderInv` splits `OneHolder` into who holds a job (`Holding`),
running threads having a job, disjointness of the local sets of `cancelJobs`, and
`CancelShape`, which says which of them may be non-empty at each point of
`cancelJobs`; the last is needed for `CancelledJobsDeleted` and for the
refinement. `PoolImplementsLifecycle` then shows, action by action, that a step changes
the phases along `Edges` and leaves one job in the main thread.

**Resolver.** The conjunction of the four invariants is inductive:
`MarksExact` needs `JobsMatchTask` (a socket that resolves has a task, so
`Connect` cannot meet its address), `FamiliesMatch` rests on two lemmas about `Choices`.

**Connect queue.** `ConnectInv` is the conjunction of the four invariants with types and `QueueInv`: nothing is in the
queue twice or both in it and in `RunJob`'s own list, and while `RunJob` goes on the timer is
active and the queue not paused. Each function of CZNC on the queue keeps `Served` and only adds (`Grown`) or removes
what it is called for. `ConnectNextServerKept` is an action property: whatever deletes a server from a list of any length, the
index still leads to the server that was next.

**Capabilities.** `Base` has the types and the start of a connection. `AuthInv` gives `AuthRequired`: a 903 under way
means that the server logged the connection in. `Agreement` needs `Synced`, which says of each capability what the lines under way
will make of it: the last line about it agrees with the server. `PausesBalanced` needs `Token`: while the
server leaves sasl alone, one place holds the right to ask for sasl or to authenticate (a list of
ZNC's, or one line), so no two pauses meet. `EndComesLast` needs `Lock`, that the two sides take turns until the
server announces a change. `NothingMissed` needs `Covered` (what is offered is enabled, in a list of ZNC's, or leads to a
request through a line under way) and `Drained` (a list that is not empty has a line under way that makes ZNC go on with it).

**Users and networks.** `References` says nothing of directories; that each module saved what it holds follows from
`Filed`: it saves into the directory of its own network, which a move or a renaming has to keep true.

**Channel.** `Mirror` speaks of a moment when nothing is under way to ZNC; in between, ZNC lags behind the server. `MirrorInv`
says by how much: there is a history of what the server knew (`Pictures`), one picture more than there are lines on
the wire; each line leads from one picture to the next (`Leads`), the last picture is the server's, and the first is
the one ZNC's `CChan` shows (`Sync`). A handler moves ZNC from the first picture to the second (`LineRead`, with a lemma for
each line), an act of the server adds a picture at the end with the line that leads to it (`Tells`), and what clients, timers
and modules do to the `CChan` shows no other picture (`Acts`). That a channel ZNC forgot while in it will be left needs more
than the first picture: a PART is on its way to the server, or ZNC is out of the channel in a later picture.
The bounds on lines, join tries and events are any numbers in these proofs.

**Configuration.** znc.conf is only replaced by a temporary file that is complete, and that was written from memory that
can be loaded: `LoadableInv` carries this from `WriteTemp` over the crash that may come before `MoveTemp`.

**Logins.** `LoginInv`: an authentication that still points to the client is the one it waits for (`Waits`), and the client is in
exactly the list it is attached to (`Linked`), so that no answer finds a client that is gone. It is proved
function by function on the record that handlers pass along.

**Buffers.** `PlaybackInv`: the lines that wait are in one place each (`Apart`), all lines are accounted for (`Held`), and what
waits in a buffer that clears itself was sent to no client that is there (`Unheard`). Without `Apart` the replay to a client that
connects, of the channel, of queries and of notices in turn, could repeat a line, and without `Unheard` a playback could.
What savebuff stored need not be apart from what was sent, but within itself.

**Web.** `WebInv` speaks of the record that handlers pass along, and is proved function by function (`GetSession`, `SetUser`,
`SendCookie`, what is sent, what is collected). `Private`: a session is within reach of one browser only, through its cookie or
a socket that may still show it a page, and that browser knows the password of the session's user. `Counted`: what refers to
a session refers to an object there is; hence a new object is nobody's. `Living`: sessions in the map belong to users
there are, which is false of sessions that only a socket refers to, as `web_deleted` shows.

**Modules and hooks.** `HostInv`: the vector names no module twice up to its size, the manager holds what loaded modules own, registry and file
agree on what was stored, and a loop stays within the memory of the vector and, until something was thrown in it, has called the modules up
to its position and no others. Three lemmas say what erasing (`CutFacts`), joining (`JoinFacts`) and adding (`AddedFacts`) do to a
list in which nothing is twice. Once a hook has thrown UNLOAD nothing is claimed of the rest of its loop.

**Settings.** `SettingInv`: what is in memory is `Legal`, which says what no setter stores and what is never left empty, and what znc.conf
`Gives` when it is read is legal too, and in force what was in force when it was written; so a restart in any later state finds it.
`ReadBack` is the lemma this rests on: the lines written for a legal setting are read back as a legal one of the same effect. Without
`Legal` it is false, as an empty line is not written and the default would come back. `DenyHolds` follows what a user who is no admin may ask
for, command by command and form by form (`ReservedKept`, `GuardedKept`, `BuffersKept`); it needs `Legal` because a form sends
every field, so that what the user had already must survive being written once more.

**awaystore.** `AwayStoreInv`: a module that saves has a key and in its buffer the messages that came; one that does not save has no key, so what it
would write is not written and the file keeps them. What is in the buffer does not depend on saves that failed. The server has the away state of a module that is loaded, and none without a module
or a connection, unless someone else told it.

**Listeners.** `ListenersInv`: no two listeners with a socket overlap (`Separate`), unless one failed or was doubled each has an address of its
own and these are the ones asked for (`OwnAddress`), and what was saved since the last change is a list that reads back as the one there
is (`Rereads`). The last says less than that the file holds what is in memory, which is false: a URI prefix is normalised when it is
read and not when it is written. `RoundTrip` says what writing and reading make of a listener. `LoadListeners` is the step that needs most: each
entry was bound next to the ones before it, hence no two of them overlap.

**Lists of modules.** `ListsInv` has an invariant for each module, on its list and its registry. watch, autocycle and autoattach keep the
set of their list (autocycle lists nothing twice, and autoattach has one entry for a text, negated or not, so that a deletion
from both deletes the same); perform keeps the list; alias keeps lines that split into the list (`RankOnto` and the lemmas on `Lines` say what is left when
empty lines go, by counting the lines up to each). autoop and autovoice hold a user under his name in lower case and
store him under his name; `UsersKept` says that the two are inverse, except that the registry keeps a user without a key, whom a load
leaves out. certauth keeps two maps, of which the registry holds one and its invariant makes the other the inverse. For
each, what `OnLoad` would make of the registry does what the list in memory does, whenever `RestartKeeps` says so.

**crypt.** `CryptInv`: what is under way of an exchange names the pair its sender still has, who answered has the secret of both,
and while the keys differ an answer is on its way; hence keys agree when nothing is.

**Send queue.** What was sent and what waits, one after the other, are the lines that were put, each once, and the ordinary ones
in order; `TrySend` cuts the queue in two and keeps what stays until one may be sent. That the cut exists is an induction over the
length of the queue: the set of places where the loop may stop is not empty, and has a least element (`NatLeast`, from the library's
theorem that < is well-founded).

**route_replies.** `RepliesInv`: while nothing broke the order, the server has exactly the request under way and no other, and only clients that
are there, or left by JUMPNETWORK, wait.

**simple_away.** `AwayInv`: the two flags exclude each other, a timer runs only while too few clients are attached, and without
one the module acted on those there are.

**dcc, bouncedcc.** `DccInv`: the file is open from `OpenFile` to the end, what was read of it is written or on its way, and a bounced
socket that is not paused has less than `MaxDCCBuffer` waiting.

**autoop.** `OpInv`: the queue has an entry by nick, and a message names a challenge of an entry there is, or one that is gone.

**Only model-checked.** All liveness properties (TLAPS does not prove liveness under fairness, or ENABLED):
`JobsEnd`, `CancelReturns`, `DestructorReturns`, `LookupEnds`, `NetworksTry`, `KeepNickGets`,
`NegotiationEnds`, `AllSent`, `RequestsServed`, `HolderOpped`, `TransferEnds`, `LoginCompletes`, `SaveHappens`. `TextRight`: what the functions on text compute
would need an induction over their arguments for each of them. Every other property
of a run that is expected to pass is stated by a theorem, `NextServerKept` by `ConnectNextServerKept`.

## Not modelled

Language bindings (modperl, modpython, modtcl) are glue, largely generated. Templates, pages, tables, help texts, formatting of time and
numbers, logging and translation change no state that several steps could spoil. Blowfish, Base64, MD5, SHA-256 and the file
wrappers are sequential and covered by unit tests. Csocket is a submodule; what the code relies on is modelled as
external. Of the bundled modules those that react to one hook without state of their own are left out, as are shell and
schat, which wrap processes and sockets. In the thread pool a full pipe, in which `jobDone` would block with the mutex held, and
`cancelJobs` called from a job's `runMain()` are left out.

## Plan

The state of the system is modelled as far as it seems worth it, and the safety properties of the runs are proved. What would
add most is an abstract lookup as a specification that `Resolver` implements and `IrcConnect` uses.
