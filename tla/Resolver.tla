------------------------------ MODULE Resolver ------------------------------
(***************************************************************************)
(* CSockManager's threaded name resolution (src/src/Socket.cpp).  Connect  *)
(* starts one or two DNS jobs for a socket that is not yet in the socket   *)
(* manager's list; the jobs come back to the main thread one by one, and   *)
(* the second one picks the addresses and hands the socket to the manager, *)
(* or reports the failure to it and deletes it.  Meanwhile the owner of    *)
(* the socket (a CIRCNetwork or a CModule) may be destroyed.               *)
(*                                                                         *)
(* A socket is its address, which is reused after a delete.  The jobs run  *)
(* in CThreadPool: JobLifecycle is what this module relies on, a job comes *)
(* to the main thread once, in any order with the others.                  *)
(***************************************************************************)
EXTENDS Naturals, FiniteSets

CONSTANTS Socks, NoConn

Families == {"IPv4", "IPv6"}

ASSUME ConnAssumption == NoConn \notin Families \X (Families \cup {"any"})

VARIABLES obj,       \* the object at each address: none, resolving, listed or leaked
          owned,     \* whether the owner of the object exists
          inFlight,  \* m_InFlightDnsSockets: absent, resolving or deleted
          task,      \* the TDNSTask of the socket
          jobs,      \* CDNSJobs that have not run in the main thread: <<socket, bBind>>
          conn,      \* the address families of target and bind host of a listed socket
          crashed    \* a deleted owner was called

vars == <<obj, owned, inFlight, task, jobs, conn, crashed>>

NoTask == [active |-> FALSE, bindhost |-> FALSE, bDoneBind |-> FALSE,
           bDoneTarget |-> FALSE, aiBind |-> {}, aiTarget |-> {}]

Tasks == [active : BOOLEAN, bindhost : BOOLEAN, bDoneBind : BOOLEAN,
          bDoneTarget : BOOLEAN, aiBind : SUBSET Families, aiTarget : SUBSET Families]

Init == /\ obj = [k \in Socks |-> "none"]
        /\ owned = [k \in Socks |-> FALSE]
        /\ inFlight = [k \in Socks |-> "absent"]
        /\ task = [k \in Socks |-> NoTask]
        /\ jobs = {}
        /\ conn = [k \in Socks |-> NoConn]
        /\ crashed = FALSE
-----------------------------------------------------------------------------
\* Slip: an entry that is already in the map is left as it is.
RegisteredOnce(k) ==
  IF inFlight[k] = "absent" THEN [inFlight EXCEPT ![k] = "resolving"] ELSE inFlight

\* The map once Connect has entered socket k.
Registered(k) == [inFlight EXCEPT ![k] = "resolving"]

\* Slip: without a bind host the task still waits for one.
NewTaskWaiting(bindhost) == [NoTask EXCEPT !.active = TRUE, !.bindhost = bindhost]

\* The task of a connection with or without a bind host.
NewTask(bindhost) == [NoTask EXCEPT !.active = TRUE, !.bindhost = bindhost,
                                    !.bDoneBind = ~bindhost]

\* CSockManager::Connect for a new socket.
Connect(k, bindhost) ==
  /\ obj[k] = "none"
  /\ obj' = [obj EXCEPT ![k] = "resolving"]
  /\ owned' = [owned EXCEPT ![k] = TRUE]
  /\ inFlight' = Registered(k)
  /\ task' = [task EXCEPT ![k] = NewTask(bindhost)]
  /\ jobs' = jobs \cup {<<k, FALSE>>} \cup (IF bindhost THEN {<<k, TRUE>>} ELSE {})
  /\ UNCHANGED <<conn, crashed>>

\* A socket that goes to the list without name resolution: ConnectUnix, a
\* listener, an accepted connection.
OpenDirectly(k) ==
  /\ obj[k] = "none"
  /\ obj' = [obj EXCEPT ![k] = "listed"]
  /\ owned' = [owned EXCEPT ![k] = TRUE]
  /\ UNCHANGED <<inFlight, task, jobs, conn, crashed>>

\* Slip: the result for the bind host is taken for the target's, and vice versa.
StoredSwapped(t, bBind, result) ==
  IF bBind THEN [t EXCEPT !.aiTarget = result, !.bDoneTarget = TRUE]
           ELSE [t EXCEPT !.aiBind = result, !.bDoneBind = TRUE]

\* The task after SetTDNSThreadFinished stored the result of one job; the empty
\* set is a lookup that failed.
Stored(t, bBind, result) ==
  IF bBind THEN [t EXCEPT !.aiBind = result, !.bDoneBind = TRUE]
           ELSE [t EXCEPT !.aiTarget = result, !.bDoneTarget = TRUE]

\* Slip: the target's family is not looked at when the bind host has both.
ChoicesUnmatched(t) ==
  IF t.aiTarget = {} THEN {}
  ELSE IF ~t.bindhost THEN {<<f, "any">> : f \in t.aiTarget}
  ELSE t.aiTarget \X t.aiBind

\* The <<target, bind host>> families that may be picked; none is an error.
Choices(t) ==
  IF t.aiTarget = {} THEN {}
  ELSE IF ~t.bindhost THEN {<<f, "any">> : f \in t.aiTarget}
  ELSE IF t.aiBind = {} THEN {}
  ELSE IF "IPv4" \notin t.aiBind
       THEN IF "IPv6" \in t.aiTarget THEN {<<"IPv6", "IPv6">>} ELSE {}
  ELSE IF "IPv6" \notin t.aiBind
       THEN IF "IPv4" \in t.aiTarget THEN {<<"IPv4", "IPv4">>} ELSE {}
  ELSE {<<f, f>> : f \in t.aiTarget}

\* FinishConnect: the socket is listed, or dropped and never deleted when its
\* owner went away.
FinishConnect(k, c) ==
  /\ inFlight' = [inFlight EXCEPT ![k] = "absent"]
  /\ IF inFlight[k] = "deleted"
     THEN obj' = [obj EXCEPT ![k] = "leaked"] /\ UNCHANGED conn
     ELSE obj' = [obj EXCEPT ![k] = "listed"] /\ conn' = [conn EXCEPT ![k] = c]
  /\ UNCHANGED <<owned, crashed>>

\* The catch block: SockError is called, which uses the owner, and the socket
\* is deleted.  The entry in the map stays.
ReportError(k) ==
  /\ crashed' = (crashed \/ ~owned[k])
  /\ obj' = [obj EXCEPT ![k] = "none"]
  /\ owned' = [owned EXCEPT ![k] = FALSE]
  /\ UNCHANGED <<inFlight, conn>>

\* CDNSJob::runMain, and SetTDNSThreadFinished, for a job that resolved to the
\* families in result.
JobFinished(k, bBind, result) ==
  LET t == Stored(task[k], bBind, result) IN
  /\ <<k, bBind>> \in jobs
  /\ jobs' = jobs \ {<<k, bBind>>}
  /\ \/ /\ ~(t.bDoneBind /\ t.bDoneTarget)
        /\ task' = [task EXCEPT ![k] = t]
        /\ UNCHANGED <<obj, owned, inFlight, conn, crashed>>
     \/ /\ t.bDoneBind /\ t.bDoneTarget
        /\ task' = [task EXCEPT ![k] = NoTask]
        /\ \/ Choices(t) = {} /\ ReportError(k)
           \/ \E c \in Choices(t) : FinishConnect(k, c)

\* The map after DelSockByAddr.
Deleted(k) == IF inFlight[k] = "absent" THEN inFlight
              ELSE [inFlight EXCEPT ![k] = "deleted"]

\* The owner is destroyed and calls DelSockByAddr: the manager deletes a listed
\* socket; one that still resolves is only marked.
OwnerDestroyed(k) ==
  /\ obj[k] \in {"resolving", "listed"} /\ owned[k]
  /\ owned' = [owned EXCEPT ![k] = FALSE]
  /\ inFlight' = Deleted(k)
  /\ obj' = IF obj[k] = "listed" THEN [obj EXCEPT ![k] = "none"] ELSE obj
  /\ conn' = [conn EXCEPT ![k] = NoConn]
  /\ UNCHANGED <<task, jobs, crashed>>

\* A listed socket ends by itself and the manager deletes it.
SockEnds(k) ==
  /\ obj[k] = "listed"
  /\ obj' = [obj EXCEPT ![k] = "none"]
  /\ owned' = [owned EXCEPT ![k] = FALSE]
  /\ conn' = [conn EXCEPT ![k] = NoConn]
  /\ UNCHANGED <<inFlight, task, jobs, crashed>>

\* A call of a deleted object is undefined: nothing more is said of the process.
\* So is a process whose every address is leaked, the bound of this model.
Ended == (crashed \/ \A k \in Socks : obj[k] = "leaked") /\ UNCHANGED vars

Next == \/ /\ ~crashed
           /\ \E k \in Socks :
                \/ \E b \in BOOLEAN : Connect(k, b)
                \/ \E b \in BOOLEAN, r \in SUBSET Families : JobFinished(k, b, r)
                \/ OpenDirectly(k) \/ OwnerDestroyed(k) \/ SockEnds(k)
        \/ Ended

Spec == Init /\ [][Next]_vars

\* Every lookup ends: getaddrinfo returns, and is tried six times at most.
FairSpec == /\ Spec
            /\ \A k \in Socks, b \in BOOLEAN :
                 WF_vars(~crashed /\ \E r \in SUBSET Families : JobFinished(k, b, r))
-----------------------------------------------------------------------------
(* Properties *)

\* Type of the state: what SetTDNSThreadFinished picks is a family for the target
\* and, with a bind host, one for it; without one it binds to any address.
TypeOK == /\ obj \in [Socks -> {"none", "resolving", "listed", "leaked"}]
          /\ owned \in [Socks -> BOOLEAN]
          /\ inFlight \in [Socks -> {"absent", "resolving", "deleted"}]
          /\ task \in [Socks -> Tasks]
          /\ jobs \subseteq Socks \X BOOLEAN
          /\ conn \in [Socks -> {NoConn} \cup (Families \X (Families \cup {"any"}))]
          /\ crashed \in BOOLEAN

\* The jobs that are out for a socket are exactly the lookups its task misses,
\* and it has a task exactly while it resolves: the task is deleted once, by the
\* job that comes last, and no job reaches a deleted task or socket.
JobsMatchTask == \A k \in Socks :
  /\ task[k].active <=> obj[k] = "resolving"
  /\ <<k, TRUE>> \in jobs <=> task[k].active /\ ~task[k].bDoneBind
  /\ <<k, FALSE>> \in jobs <=> task[k].active /\ ~task[k].bDoneTarget

\* The marks in the map are right for every socket that resolves, also when its
\* address had been in the map before: a socket is dropped at the end of its
\* lookup exactly when its owner was destroyed meanwhile.
MarksExact == ~crashed =>
  \A k \in Socks : obj[k] = "resolving"
    => inFlight[k] = IF owned[k] THEN "resolving" ELSE "deleted"

\* A listed socket has a bind host of the family of its target, if it has one.
FamiliesMatch == \A k \in Socks :
  conn[k] # NoConn => obj[k] = "listed" /\ conn[k][2] \in {"any", conn[k][1]}

\* Every lookup ends, with and without a bind host: unless the process crashes,
\* a socket does not resolve for ever.
LookupEnds == \A k \in Socks : obj[k] = "resolving" ~> obj[k] # "resolving" \/ crashed

\* Refuted (see README): DelSockByAddr says of a socket that resolves "When that
\* finishes, let it silently die without crash."
SilentDeath == ~crashed
=============================================================================
