-------------------------------- MODULE AutoOp --------------------------------
(***************************************************************************)
(* autoop: the handshake by which a user whose host is known and who knows *)
(* the key gets op in a channel.  src/modules/autoop.cpp; its list of      *)
(* users is in ModLists.                                                   *)
(*                                                                         *)
(* One channel and one autoop user, whose hostmask all peers match.  The   *)
(* holders of the key run autoop, too.  A challenge is as random as it is  *)
(* long: it is known by the entry of the queue that has it, under whatever *)
(* nick, and is "old" when that is gone.  A MODE takes effect at once.     *)
(***************************************************************************)
EXTENDS Naturals, FiniteSets, Functions

CONSTANTS Holders, Others,   \* peers that know the key, and peers that do not
          Nicks, Lower,      \* nicks, and AsLower of each
          MaxChanges         \* bound: joins, parts, changes of nick or mode

Peers == Holders \cup Others

VARIABLES key,      \* FALSE: the user's key is __NOKEY__
          op,       \* we are op
          peers,    \* nick, whether in the channel, whether op
          queue,    \* m_msQueue: for each nick queued, whether it was challenged
          out,      \* challenges on the way
          back,     \* responses on the way
          changes,
          late      \* ghost: a challenge was dropped, not answered or answered too late, a
                    \* nick changed case, or others changed a peer's mode

vars == <<key, op, peers, queue, out, back, changes, late>>
net == <<out, back>>

Init == /\ key \in BOOLEAN /\ op = FALSE /\ queue = [n \in {} |-> FALSE] /\ out = {} /\ back = {}
        /\ changes = 0 /\ late = FALSE
        /\ \E f \in [Peers -> Nicks] :
             /\ \A p, q \in Peers : Lower[f[p]] = Lower[f[q]] => p = q
             /\ peers = [p \in Peers |-> [nick |-> f[p], in |-> FALSE, op |-> FALSE]]

\* The messages on the way, with new names for their challenges.
Relabelled(S, f) == {[m EXCEPT !.of = IF @ \in DOMAIN f THEN f[@] ELSE @] : m \in S}
Gone(S) == [n \in S |-> "old"]

Without(q, n) == [k \in DOMAIN q \ {n} |-> q[k]]
With(q, n, v) == [k \in DOMAIN q \cup {n} |-> IF k = n THEN v ELSE q[k]]
-----------------------------------------------------------------------------
Change == changes < MaxChanges /\ changes' = changes + 1

\* Each of the candidates P: MODE for a user without a key, else it is queued.
CheckAutoOp(ps, P) ==
  IF key
  THEN /\ peers' = ps
       /\ queue' = [k \in DOMAIN queue \cup {Lower[ps[p].nick] : p \in P} |->
                      IF k \in DOMAIN queue THEN queue[k] ELSE FALSE]
  ELSE /\ peers' = [p \in Peers |-> IF p \in P THEN [ps[p] EXCEPT !.op = TRUE] ELSE ps[p]]
       /\ UNCHANGED queue

OnJoin == \E p \in Peers :
  /\ ~peers[p].in /\ CheckAutoOp([peers EXCEPT ![p].in = TRUE], IF op THEN {p} ELSE {})
  /\ Change /\ UNCHANGED <<key, op, net, late>>

\* Parting leaves the queue alone.
Part == \E p \in Peers :
  /\ peers[p].in /\ peers' = [peers EXCEPT ![p].in = FALSE, ![p].op = FALSE]
  /\ Change /\ UNCHANGED <<key, op, queue, net, late>>

OnQuit == \E p \in Peers : LET n == Lower[peers[p].nick] IN
  /\ peers[p].in /\ ~\E r \in back : r.peer = p
  /\ peers' = [peers EXCEPT ![p].in = FALSE, ![p].op = FALSE]
  /\ queue' = Without(queue, n)
  /\ out' = Relabelled(out, Gone({n})) /\ back' = Relabelled(back, Gone({n}))
  /\ Change /\ UNCHANGED <<key, op, late>>

\* Mutant: the queue keeps the old nick.
RenamedNot(old, new) == UNCHANGED <<queue, net>>
\* The entry is stored under the new nick, then the old one is erased.
Renamed(old, new) ==
  IF old \notin DOMAIN queue THEN UNCHANGED <<queue, net>>
  ELSE LET f == [n \in {old, new} |-> IF n = old /\ old # new THEN new ELSE "old"]
       IN  /\ queue' = Without(With(queue, new, queue[old]), old)
           /\ out' = Relabelled(out, f) /\ back' = Relabelled(back, f)
\* NICK is seen for someone in the channel.
OnNick == \E p \in Peers, n \in Nicks :
  /\ n # peers[p].nick /\ \A q \in Peers \ {p} : Lower[peers[q].nick] # Lower[n]
  /\ peers' = [peers EXCEPT ![p].nick = n]
  /\ IF peers[p].in THEN Renamed(Lower[peers[p].nick], Lower[n]) ELSE UNCHANGED <<queue, net>>
  /\ late' = (late \/ (peers[p].in /\ Lower[peers[p].nick] = Lower[n]))
  /\ Change /\ UNCHANGED <<key, op>>

\* We are made op: everyone in the channel who is not.
OnOp2 == /\ ~op /\ op' = TRUE
         /\ CheckAutoOp(peers, {p \in Peers : peers[p].in /\ ~peers[p].op})
         /\ Change /\ UNCHANGED <<key, net, late>>
Deop == /\ op /\ op' = FALSE /\ Change /\ UNCHANGED <<key, peers, queue, net, late>>
\* Others make a peer op, or take it away.
PeerMode == \E p \in Peers :
  /\ peers[p].in /\ peers' = [peers EXCEPT ![p].op = ~@]
  /\ late' = TRUE /\ Change /\ UNCHANGED <<key, op, queue, net>>

\* Every 20 seconds: what was challenged and not answered is dropped, the others are
\* challenged.
ProcessQueue ==
  LET new == {n \in DOMAIN queue : ~queue[n]}
      old == DOMAIN queue \ new
  IN  /\ DOMAIN queue # {}
      /\ queue' = [n \in new |-> TRUE]
      /\ out' = Relabelled(out, Gone(old)) \cup {[nick |-> n, of |-> n] : n \in new}
      /\ back' = Relabelled(back, Gone(old))
      /\ late' = (late \/ old # {})
      /\ UNCHANGED <<changes, key, op, peers>>

\* A challenge gets to whoever has the nick, or to nobody.  ChallengeRespond of a
\* holder: the challenger must be op in the channel.  Others answer something else.
Answers(p) == p \in Others \/ (op /\ peers[p].in)
ChallengeRespond == \E m \in out :
  /\ out' = out \ {m}
  /\ back' = back \cup {[peer |-> p, of |-> m.of] :
                          p \in {q \in Peers : Lower[peers[q].nick] = m.nick /\ Answers(q)}}
  /\ late' = (late \/ \E p \in Peers : Lower[peers[p].nick] = m.nick /\ ~Answers(p))
  /\ UNCHANGED <<changes, key, op, peers, queue>>

\* The response is the MD5 of the key and the challenge of the nick's entry.
Good(r, n) == r.peer \in Holders /\ r.of = n
\* The nick leaves the queue whatever it answered; op is given where we can.
VerifyResponse == \E r \in back : LET n == Lower[peers[r.peer].nick] IN
  /\ queue' = Without(queue, n)
  /\ out' = Relabelled(out, Gone({n})) /\ back' = Relabelled(back \ {r}, Gone({n}))
  /\ IF n \in DOMAIN queue /\ Good(r, n) /\ op /\ peers[r.peer].in
     THEN peers' = [peers EXCEPT ![r.peer].op = TRUE] ELSE UNCHANGED peers
  /\ late' = (late \/ (n \in DOMAIN queue /\ r.of # n))
  /\ UNCHANGED <<changes, key, op>>

Next == \/ OnJoin \/ Part \/ OnQuit \/ OnNick \/ OnOp2 \/ Deop \/ PeerMode
        \/ ProcessQueue \/ ChallengeRespond \/ VerifyResponse

Spec == Init /\ [][Next]_vars

\* The timer runs and the server passes the notices on.
Fairness == WF_vars(ProcessQueue) /\ WF_vars(ChallengeRespond) /\ WF_vars(VerifyResponse)
FairSpec == Spec /\ Fairness
-----------------------------------------------------------------------------
TypeOK == /\ key \in BOOLEAN /\ op \in BOOLEAN /\ late \in BOOLEAN
          /\ DOMAIN queue \subseteq Range(Lower) /\ Range(queue) \subseteq BOOLEAN
          /\ \A m \in out \cup back : m.of # "old" => m.of \in DOMAIN queue /\ queue[m.of]

\* A holder of the key who stays in the channel gets op while we are op, whatever nicks it
\* and others take, unless the timer finds its challenge unanswered (ProcessQueue does
\* not ask again), the nick only changes case (OnNick loses the entry then), or another
\* answer took its entry.
HolderOpped == \A p \in Holders :
  op /\ peers[p].in /\ ~peers[p].op ~> ~op \/ ~peers[p].in \/ peers[p].op \/ late
=============================================================================
