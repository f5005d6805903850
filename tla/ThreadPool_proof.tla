-------------------------- MODULE ThreadPool_proof --------------------------
(***************************************************************************)
(* Proofs about ThreadPool for any number of threads and jobs.             *)
(***************************************************************************)
EXTENDS ThreadPool, FiniteSetTheorems, SequenceTheorems, TLAPS

Where(f, P) == {t \in Threads : f[t] \in P}

\* A set of threads is finite and its cardinality is a number.
LEMMA WhereNat ==
  ASSUME NEW f, NEW P
  PROVE  /\ IsFiniteSet(Where(f, P))
         /\ Cardinality(Where(f, P)) \in Nat
         /\ Cardinality(Where(f, P)) = 0 <=> Where(f, P) = {}
<1>1. Where(f, P) \subseteq Threads  BY DEF Where
<1>2. IsFiniteSet(Where(f, P))  BY <1>1, ThreadsAssumption, FS_Subset
<1> QED  BY <1>2, FS_CardinalityType, FS_EmptySet

\* A thread that moves changes the number of threads in P by one, or not at
\* all when it stays within P or outside it.
LEMMA Moved ==
  ASSUME pc \in [Threads -> ThreadPC], NEW t \in Threads, NEW p, Goto(t, p)
  PROVE  \A P : /\ (pc[t] \in P <=> p \in P) => Where(pc', P) = Where(pc, P)
                /\ pc[t] \notin P /\ p \in P
                     => Cardinality(Where(pc', P)) = Cardinality(Where(pc, P)) + 1
                /\ pc[t] \in P /\ p \notin P
                     => Cardinality(Where(pc', P)) = Cardinality(Where(pc, P)) - 1
<1> SUFFICES ASSUME NEW P
             PROVE  /\ (pc[t] \in P <=> p \in P) => Where(pc', P) = Where(pc, P)
                    /\ pc[t] \notin P /\ p \in P
                         => Cardinality(Where(pc', P)) = Cardinality(Where(pc, P)) + 1
                    /\ pc[t] \in P /\ p \notin P
                         => Cardinality(Where(pc', P)) = Cardinality(Where(pc, P)) - 1
  OBVIOUS
<1>1. (pc[t] \in P <=> p \in P) => Where(pc', P) = Where(pc, P)
  BY DEF Where, Goto
<1>2. ASSUME pc[t] \notin P, p \in P
      PROVE  Cardinality(Where(pc', P)) = Cardinality(Where(pc, P)) + 1
  <2>1. Where(pc', P) = Where(pc, P) \cup {t} /\ t \notin Where(pc, P)
    BY <1>2 DEF Where, Goto
  <2> QED  BY <2>1, WhereNat, FS_AddElement
<1>3. ASSUME pc[t] \in P, p \notin P
      PROVE  Cardinality(Where(pc', P)) = Cardinality(Where(pc, P)) - 1
  <2>1. Where(pc', P) = Where(pc, P) \ {t} /\ t \in Where(pc, P)
    BY <1>3 DEF Where, Goto
  <2> QED  BY <2>1, WhereNat, FS_RemoveElement
<1> QED  BY <1>1, <1>2, <1>3

Live == ThreadPC \ {"off"}
Idle == {"waiting", "woken"}
Active == {"starting", "woken", "running"}

\* What the worker threads and the queue of pending jobs keep true.
PoolCore ==
  /\ pc \in [Threads -> ThreadPC]
  /\ work \in [Threads -> Jobs \cup {NoJob}]
  /\ m_eState \in [Jobs -> EJobState \cup {"none"}]
  /\ m_jobs \in Seq(Jobs)
  /\ m_num_threads \in Nat
  /\ m_num_idle \in Nat
  /\ m_done \in BOOLEAN
  /\ main \in MainPC
  /\ \A t \in Threads : pc[t] = "running" => work[t] \in Jobs
  /\ m_num_threads = Cardinality(Where(pc, Live))
  /\ m_num_idle = Cardinality(Where(pc, Idle))
  /\ m_num_threads <= MaxTotal
  /\ m_num_idle <= MaxIdle
  /\ Where(pc, {"waiting"}) # {} => Len(m_jobs) <= Cardinality(Where(pc, {"woken"}))
  /\ m_jobs # <<>> /\ ~m_done => Where(pc, Active) # {}
  /\ m_done => Where(pc, {"waiting"}) = {}

\* One turn of threadFunc's loop keeps PoolCore.
LEMMA LoopCore ==
  ASSUME PoolCore,
         NEW t \in Threads, NEW idle, NEW mn \in MainPC,
         NEW st \in [Jobs -> EJobState \cup {"none"}],
         \/ pc[t] \in {"starting", "running"} /\ idle = m_num_idle + 1
         \/ pc[t] = "woken" /\ idle = m_num_idle,
         Loop(t, idle, st, mn), m_done' = m_done
  PROVE  PoolCore'
<1> USE DEF PoolCore
<1> USE LimitsAssumption, JobsAssumption
<1>0. /\ idle \in Nat
      /\ pc[t] \in Live /\ pc[t] \in Active /\ pc[t] \notin {"waiting"}
      /\ pc[t] \in ThreadPC
  BY DEF Live, Active, ThreadPC
<1>1. /\ Cardinality(Where(pc, {"woken"})) \in Nat
      /\ Cardinality(Where(pc, {"woken"})) = 0 <=> Where(pc, {"woken"}) = {}
      /\ Cardinality(Where(pc, Idle)) = 0 <=> Where(pc, Idle) = {}
      /\ Cardinality(Where(pc, Live)) = 0 <=> Where(pc, Live) = {}
  BY WhereNat
<1>2. m_num_threads > 0
  <2>1. t \in Where(pc, Live)  BY <1>0 DEF Where
  <2> QED  BY <2>1, <1>1
<1>3. pc[t] = "woken" => m_num_idle > 0
  <2>1. pc[t] = "woken" => t \in Where(pc, Idle)  BY DEF Where, Idle
  <2> QED  BY <2>1, <1>1
<1>4. CASE /\ ~ThreadNeeded(idle)
           /\ Goto(t, "off")
           /\ work' = [work EXCEPT ![t] = NoJob]
           /\ m_num_threads' = m_num_threads - 1
           /\ m_num_idle' = idle - 1
           /\ m_eState' = st
           /\ main' = ExitNotified(m_num_threads - 1, mn)
           /\ UNCHANGED m_jobs
  <2>1. /\ pc' \in [Threads -> ThreadPC]
        /\ work' \in [Threads -> Jobs \cup {NoJob}]
        /\ main' \in MainPC
        /\ \A s \in Threads : pc'[s] = "running" => work'[s] \in Jobs
    BY <1>4 DEF Goto, ThreadPC, MainPC, ExitNotified
  <2>2. m_num_threads' = Cardinality(Where(pc', Live))
    BY <1>4, <1>0, Moved DEF Live
  <2>3. m_num_idle' = Cardinality(Where(pc', Idle))
    <3>1. CASE pc[t] = "woken"
      BY <1>4, <3>1, Moved DEF Idle
    <3>2. CASE pc[t] # "woken"
      <4>1. Where(pc', Idle) = Where(pc, Idle)
        BY <1>4, <3>2, Moved DEF Idle
      <4> QED  BY <1>4, <3>2, <4>1
    <3> QED  BY <3>1, <3>2
  <2>4. m_num_threads' \in Nat /\ m_num_threads' <= MaxTotal
        /\ m_num_idle' \in Nat /\ m_num_idle' <= MaxIdle
    BY <1>4, <1>2, <1>3
  <2>5. Where(pc', {"waiting"}) = Where(pc, {"waiting"})
    BY <1>4, <1>0, Moved
  <2>6. pc[t] = "woken" => m_done
    BY <1>4 DEF ThreadNeeded
  <2>7. Where(pc', {"waiting"}) # {} => Len(m_jobs') <= Cardinality(Where(pc', {"woken"}))
    <3>1. CASE pc[t] = "woken"  BY <3>1, <2>5, <2>6
    <3>2. CASE pc[t] # "woken"
      <4>1. Where(pc', {"woken"}) = Where(pc, {"woken"})
        BY <1>4, <3>2, Moved
      <4> QED  BY <1>4, <2>5, <4>1
    <3> QED  BY <3>1, <3>2
  <2>8. m_jobs' # <<>> /\ ~m_done' => Where(pc', Active) # {}
    <3> SUFFICES ASSUME m_jobs' # <<>>, ~m_done'  PROVE Where(pc', Active) # {}
      OBVIOUS
    <3>1. pc[t] # "woken" /\ m_num_idle = MaxIdle
      BY <1>4, <2>6 DEF ThreadNeeded
    <3>2. Where(pc, Idle) # {}
      BY <3>1, <1>1
    <3>3. Len(m_jobs) > 0  BY <1>4
    <3>4. Where(pc, {"woken"}) # {}
      BY <3>2, <3>3, <1>1 DEF Where, Idle
    <3>5. PICK s \in Threads : pc[s] = "woken"
      BY <3>4 DEF Where
    <3>6. s # t /\ pc'[s] = "woken"  BY <3>5, <3>1, <1>4 DEF Goto
    <3> QED  BY <3>6 DEF Where, Active
  <2> QED  BY <1>4, <2>1, <2>2, <2>3, <2>4, <2>5, <2>7, <2>8
<1>5. CASE /\ ThreadNeeded(idle)
           /\ m_jobs = <<>>
           /\ Goto(t, "waiting")
           /\ work' = [work EXCEPT ![t] = NoJob]
           /\ m_num_idle' = idle
           /\ m_eState' = st
           /\ main' = mn
           /\ UNCHANGED <<m_jobs, m_num_threads>>
  <2>1. /\ pc' \in [Threads -> ThreadPC]
        /\ work' \in [Threads -> Jobs \cup {NoJob}]
        /\ \A s \in Threads : pc'[s] = "running" => work'[s] \in Jobs
    BY <1>5 DEF Goto, ThreadPC
  <2>2. m_num_threads' = Cardinality(Where(pc', Live))
    <3>1. Where(pc', Live) = Where(pc, Live)
      BY <1>5, <1>0, Moved DEF Live, ThreadPC
    <3> QED  BY <3>1, <1>5
  <2>3. m_num_idle' = Cardinality(Where(pc', Idle))
    <3>1. CASE pc[t] = "woken"
      <4>1. Where(pc', Idle) = Where(pc, Idle)
        BY <1>5, <3>1, Moved DEF Idle
      <4> QED  BY <1>5, <3>1, <4>1
    <3>2. CASE pc[t] # "woken"
      <4>1. pc[t] \notin Idle  BY <3>2 DEF Idle
      <4> QED  BY <1>5, <3>2, <4>1, Moved DEF Idle
    <3> QED  BY <3>1, <3>2
  <2>4. m_num_idle' \in Nat /\ m_num_idle' <= MaxIdle
    BY <1>5, <1>0 DEF ThreadNeeded
  <2>5. Len(m_jobs') <= Cardinality(Where(pc', {"woken"}))
    BY <1>5, WhereNat
  <2> QED  BY <1>5, <2>1, <2>2, <2>3, <2>4, <2>5 DEF ThreadNeeded
<1>6. CASE /\ ThreadNeeded(idle)
           /\ m_jobs # <<>>
           /\ Goto(t, "running")
           /\ work' = [work EXCEPT ![t] = Head(m_jobs)]
           /\ m_jobs' = Tail(m_jobs)
           /\ m_num_idle' = idle - 1
           /\ m_eState' = [st EXCEPT ![Head(m_jobs)] = "RUNNING"]
           /\ main' = mn
           /\ UNCHANGED m_num_threads
  <2>1. /\ pc' \in [Threads -> ThreadPC]
        /\ Head(m_jobs) \in Jobs
        /\ m_jobs' \in Seq(Jobs) /\ Len(m_jobs') = Len(m_jobs) - 1
    BY <1>6 DEF Goto, ThreadPC
  <2>2. /\ work' \in [Threads -> Jobs \cup {NoJob}]
        /\ m_eState' \in [Jobs -> EJobState \cup {"none"}]
        /\ \A s \in Threads : pc'[s] = "running" => work'[s] \in Jobs
    BY <1>6, <2>1 DEF EJobState, Goto
  <2>3. m_num_threads' = Cardinality(Where(pc', Live))
    <3>1. Where(pc', Live) = Where(pc, Live)
      BY <1>6, <1>0, Moved DEF Live, ThreadPC
    <3> QED  BY <3>1, <1>6
  <2>4. m_num_idle' = Cardinality(Where(pc', Idle))
    <3>1. CASE pc[t] = "woken"
      <4>1. pc[t] \in Idle /\ "running" \notin Idle  BY <3>1 DEF Idle
      <4>2. Cardinality(Where(pc', Idle)) = Cardinality(Where(pc, Idle)) - 1
        BY <1>6, <4>1, Moved
      <4> QED  BY <1>6, <3>1, <4>2
    <3>2. CASE pc[t] # "woken"
      <4>1. Where(pc', Idle) = Where(pc, Idle)
        BY <1>6, <3>2, Moved DEF Idle
      <4> QED  BY <1>6, <3>2, <4>1
    <3> QED  BY <3>1, <3>2
  <2>5. m_num_idle' \in Nat /\ m_num_idle' <= MaxIdle
    BY <1>6, <1>3
  <2>6. Where(pc', {"waiting"}) = Where(pc, {"waiting"})
    BY <1>6, <1>0, Moved
  <2>7. Cardinality(Where(pc', {"woken"})) >= Cardinality(Where(pc, {"woken"})) - 1
    <3>1. CASE pc[t] = "woken"
      BY <1>6, <3>1, Moved, <1>1
    <3>2. CASE pc[t] # "woken"
      <4>1. Where(pc', {"woken"}) = Where(pc, {"woken"})
        BY <1>6, <3>2, Moved
      <4> QED  BY <4>1, <1>1
    <3> QED  BY <3>1, <3>2
  <2>8. Cardinality(Where(pc', {"woken"})) \in Nat  BY WhereNat
  <2>9. Where(pc', {"waiting"}) # {} => Len(m_jobs') <= Cardinality(Where(pc', {"woken"}))
    BY <2>1, <2>6, <2>7, <2>8, <1>1
  <2>10. Where(pc', Active) # {}
    <3>1. pc'[t] = "running"  BY <1>6 DEF Goto
    <3> QED  BY <3>1 DEF Where, Active
  <2> QED  BY <1>6, <2>1, <2>2, <2>3, <2>4, <2>5, <2>6, <2>9, <2>10 DEF ThreadNeeded
<1> QED  BY <1>4, <1>5, <1>6 DEF Loop

\* What the main thread's variables keep true.
MainTyped ==
  /\ pipe \in Seq(Jobs)
  /\ finishing \in Jobs \cup {NoJob}
  /\ todo \in SUBSET Jobs /\ wait \in SUBSET Jobs
  /\ finished \in SUBSET Jobs /\ deleteLater \in SUBSET Jobs

PoolInv == PoolCore /\ MainTyped

\* The pool starts in the invariant.
LEMMA InitInv == Init => PoolInv
<1> SUFFICES ASSUME Init PROVE PoolInv  OBVIOUS
<1>1. \A P : "off" \notin P => Where(pc, P) = {}
  BY DEF Init, Where
<1>2. /\ Where(pc, Live) = {} /\ Where(pc, Idle) = {} /\ Where(pc, {"waiting"}) = {}
  BY <1>1 DEF Live, Idle
<1>3. Cardinality({}) = 0  BY FS_EmptySet
<1>4. /\ pc \in [Threads -> ThreadPC]
      /\ work \in [Threads -> Jobs \cup {NoJob}]
      /\ m_eState \in [Jobs -> EJobState \cup {"none"}]
      /\ main \in MainPC
      /\ \A t \in Threads : pc[t] = "running" => work[t] \in Jobs
  BY DEF Init, ThreadPC, EJobState, MainPC
<1>5. /\ m_jobs \in Seq(Jobs) /\ m_jobs = <<>> /\ pipe \in Seq(Jobs)
      /\ m_num_threads = 0 /\ m_num_idle = 0 /\ m_done = FALSE
  BY DEF Init
<1>6. MainTyped  BY <1>5 DEF Init, MainTyped
<1>7. m_num_threads <= MaxTotal /\ m_num_idle <= MaxIdle
  BY <1>5, LimitsAssumption
<1> QED  BY <1>2, <1>3, <1>4, <1>5, <1>6, <1>7 DEF PoolInv, PoolCore

\* A worker thread that takes the mutex keeps the invariant.
LEMMA WorkerInv ==
  ASSUME PoolInv, NEW t \in Threads, Worker(t)
  PROVE  PoolInv'
<1> USE DEF PoolInv, PoolCore
<1>1. CASE ThreadStart(t)
  <2>1. PoolCore'
    BY <1>1, LoopCore DEF ThreadStart
  <2> QED  BY <1>1, <2>1 DEF ThreadStart, MainTyped, cancelVars
<1>2. CASE ThreadWake(t)
  <2>1. PoolCore'
    BY <1>2, LoopCore DEF ThreadWake
  <2> QED  BY <1>2, <2>1 DEF ThreadWake, MainTyped, cancelVars
<1>3. CASE JobDone(t)
  <2> DEFINE st == [m_eState EXCEPT ![work[t]] = "DONE"]
             mn == CancellationNotified(work[t])
  <2>1. st \in [Jobs -> EJobState \cup {"none"}] /\ mn \in MainPC
    BY DEF EJobState, CancellationNotified, MainPC
  <2>2. pc[t] = "running" /\ Loop(t, m_num_idle + 1, st, mn) /\ m_done' = m_done
    BY <1>3 DEF JobDone
  <2>3. PoolCore'
    <3> HIDE DEF st, mn
    <3> QED  BY <2>1, <2>2, LoopCore
  <2>4. pipe' \in Seq(Jobs)
    BY <1>3 DEF JobDone, MainTyped
  <2> QED  BY <1>3, <2>3, <2>4 DEF JobDone, MainTyped, cancelVars
<1> QED  BY <1>1, <1>2, <1>3 DEF Worker

\* A sleeping thread that wakes keeps PoolCore whatever the reason.
LEMMA WokenCore ==
  ASSUME PoolCore, NEW t \in Threads, pc[t] = "waiting", Goto(t, "woken"),
         m_jobs' = m_jobs \/ (\E j \in Jobs : m_jobs' = Append(m_jobs, j)),
         m_eState' \in [Jobs -> EJobState \cup {"none"}],
         UNCHANGED <<work, m_num_threads, m_num_idle, m_done, main>>
  PROVE  PoolCore'
<1> USE DEF PoolCore
<1>1. /\ Where(pc', Live) = Where(pc, Live)
      /\ Where(pc', Idle) = Where(pc, Idle)
      /\ Cardinality(Where(pc', {"woken"})) = Cardinality(Where(pc, {"woken"})) + 1
  BY Moved DEF Live, Idle, ThreadPC
<1>2. pc' \in [Threads -> ThreadPC] /\ pc'[t] = "woken" /\ \A s \in Threads : pc'[s] = "running" => pc[s] = "running"
  BY DEF Goto, ThreadPC
<1>3. t \in Where(pc, {"waiting"}) /\ t \in Where(pc', Active)
  BY <1>2 DEF Where, Active
<1>4. m_jobs' \in Seq(Jobs) /\ Len(m_jobs') <= Len(m_jobs) + 1
  OBVIOUS
<1>5. Cardinality(Where(pc, {"woken"})) \in Nat /\ Len(m_jobs) \in Nat /\ Len(m_jobs') \in Nat
  BY <1>4, WhereNat
<1>6. Len(m_jobs') <= Cardinality(Where(pc', {"woken"}))
  BY <1>1, <1>3, <1>4, <1>5
<1> QED  BY <1>1, <1>2, <1>3, <1>4, <1>6

\* A step that leaves the threads and the queue alone keeps PoolCore.
LEMMA SameCore ==
  ASSUME PoolCore, m_eState' \in [Jobs -> EJobState \cup {"none"}], main' \in MainPC,
         UNCHANGED <<pc, work, m_num_threads, m_num_idle, m_jobs, m_done>>
  PROVE  PoolCore'
BY DEF PoolCore

\* So does addJob, in each of its three outcomes.
LEMMA AddJobInv ==
  ASSUME PoolInv, NEW j \in Jobs, AddJob(j)
  PROVE  PoolInv'
<1> USE DEF PoolInv, PoolCore
<1>1. /\ m_eState' \in [Jobs -> EJobState \cup {"none"}]
      /\ m_jobs' = Append(m_jobs, j) /\ m_jobs' \in Seq(Jobs)
      /\ UNCHANGED <<work, pipe, m_num_idle, m_done, main, finishing, cancelVars>>
      /\ StartThreadFor
  BY DEF AddJob, EJobState
<1>2. MainTyped'  BY <1>1 DEF MainTyped, cancelVars
<1>3. /\ Cardinality(Where(pc, Idle)) = 0 <=> Where(pc, Idle) = {}
      /\ Cardinality(Where(pc, Live)) = 0 <=> Where(pc, Live) = {}
  BY WhereNat
<1>4. CASE m_num_idle > 0 /\ NotifyOne /\ UNCHANGED m_num_threads
  <2>1. CASE In("waiting") = {}
    <3>1. pc' = pc  BY <1>4, <2>1 DEF NotifyOne
    <3>2. Where(pc, {"waiting"}) = {}  BY <2>1 DEF In, Where
    <3>3. Where(pc, Idle) # {}  BY <1>3, <1>4
    <3>4. Where(pc, Active) # {}  BY <3>2, <3>3 DEF Where, Idle, Active
    <3> QED  BY <1>1, <1>2, <1>4, <3>1, <3>2, <3>4
  <2>2. CASE In("waiting") # {}
    <3>1. PICK t \in In("waiting") : Goto(t, "woken")
      BY <1>4, <2>2 DEF NotifyOne
    <3>2. t \in Threads /\ pc[t] = "waiting"  BY <3>1 DEF In
    <3>3. PoolCore'  BY <1>1, <1>4, <3>1, <3>2, WokenCore
    <3> QED  BY <1>2, <3>3
  <2> QED  BY <2>1, <2>2
<1>5. ASSUME m_num_idle = 0  PROVE Where(pc, {"waiting"}) = {} /\ Where(pc, {"woken"}) = {}
  <2>1. Where(pc, Idle) = {}  BY <1>3, <1>5
  <2> QED  BY <2>1 DEF Where, Idle
<1>6. CASE /\ m_num_idle = 0 /\ m_num_threads >= MaxTotal
           /\ UNCHANGED <<pc, m_num_threads>>
  <2>1. Where(pc, Live) # {}  BY <1>3, <1>6, LimitsAssumption
  <2>2. Where(pc, Active) # {}
    BY <2>1, <1>5, <1>6 DEF Where, Live, Active, ThreadPC
  <2> QED  BY <1>1, <1>2, <1>5, <1>6, <2>2
<1>7. CASE /\ m_num_idle = 0 /\ m_num_threads < MaxTotal
           /\ m_num_threads' = m_num_threads + 1
           /\ \E t \in In("off") : Goto(t, "starting")
  <2>1. PICK t \in In("off") : Goto(t, "starting")  BY <1>7
  <2>2. t \in Threads /\ pc[t] = "off"  BY <2>1 DEF In
  <2>3. /\ Cardinality(Where(pc', Live)) = Cardinality(Where(pc, Live)) + 1
        /\ Where(pc', Idle) = Where(pc, Idle)
        /\ Where(pc', {"waiting"}) = Where(pc, {"waiting"})
    BY <2>1, <2>2, Moved DEF Live, Idle, ThreadPC
  <2>4. /\ pc' \in [Threads -> ThreadPC]
        /\ \A s \in Threads : pc'[s] = "running" => pc[s] = "running"
        /\ pc'[t] = "starting"
    BY <2>1, <2>2 DEF Goto, ThreadPC
  <2>5. Where(pc', Active) # {}  BY <2>2, <2>4 DEF Where, Active
  <2>6. m_num_threads' \in Nat /\ m_num_threads' <= MaxTotal
    BY <1>7, LimitsAssumption
  <2> QED  BY <1>1, <1>2, <1>5, <1>7, <2>3, <2>4, <2>5, <2>6
<1> QED  BY <1>1, <1>4, <1>6, <1>7 DEF StartThreadFor

\* Taking one element out of a sequence leaves a shorter sequence.
LEMMA RemoveIndexShorter ==
  ASSUME NEW S, NEW s \in Seq(S), NEW i \in DOMAIN s
  PROVE  RemoveIndex(s, i) \in Seq(S) /\ Len(RemoveIndex(s, i)) = Len(s) - 1
BY DEF RemoveIndex

\* So does one turn of the marking loop of cancelJobs.
LEMMA MarkJobInv ==
  ASSUME PoolInv, NEW j \in Jobs, MarkJob(j)
  PROVE  PoolInv'
<1> USE DEF PoolInv, PoolCore
<1>1. m_eState' \in [Jobs -> EJobState \cup {"none"}]
  BY DEF MarkJob, EJobState
<1>2. UNCHANGED <<pc, work, m_num_threads, m_num_idle, pipe, m_done, main, finishing>>
  BY DEF MarkJob, workers
<1>3. MainTyped'
  BY <1>2 DEF MarkJob, MarkReady, MarkRunning, MarkDone, MainTyped
<1>4. m_jobs' \in Seq(Jobs) /\ Len(m_jobs') <= Len(m_jobs) /\ (m_jobs = <<>> => m_jobs' = <<>>)
  <2>1. CASE MarkReady(j)
    <3>1. PICK i \in DOMAIN m_jobs : m_jobs' = RemoveIndex(m_jobs, i)
      BY <2>1 DEF MarkReady
    <3>2. m_jobs' \in Seq(Jobs) /\ Len(m_jobs') = Len(m_jobs) - 1
      BY <3>1, RemoveIndexShorter
    <3> QED  BY <3>1, <3>2
  <2>2. CASE MarkRunning(j) \/ MarkDone(j)
    BY <2>2 DEF MarkRunning, MarkDone
  <2> QED  BY <2>1, <2>2 DEF MarkJob
<1>5. Len(m_jobs') <= Len(m_jobs) /\ Len(m_jobs) \in Nat /\ Len(m_jobs') \in Nat
      /\ Cardinality(Where(pc, {"woken"})) \in Nat
  BY <1>4, WhereNat
<1> QED  BY <1>1, <1>2, <1>3, <1>4, <1>5

\* So does the loop of the destructor.
LEMMA ExitLoopInv ==
  ASSUME PoolInv, ExitLoop, m_done' \in BOOLEAN, m_done => m_done', 
         UNCHANGED <<work, m_num_threads, m_num_idle, m_eState, m_jobs, pipe, finishing, cancelVars>>
  PROVE  PoolInv'
<1> USE DEF PoolInv, PoolCore
<1>1. MainTyped'  BY DEF MainTyped, cancelVars
<1>2. CASE m_num_threads > 0 /\ NotifyAll /\ main' = "exitWaiting"
  <2>1. /\ Where(pc', Live) = Where(pc, Live) /\ Where(pc', Idle) = Where(pc, Idle)
        /\ Where(pc', {"waiting"}) = {}
        /\ Where(pc, Active) \subseteq Where(pc', Active)
        /\ \A s \in Threads : pc'[s] = "running" => pc[s] = "running"
        /\ pc' \in [Threads -> ThreadPC]
    BY <1>2 DEF NotifyAll, Where, Live, Idle, Active, ThreadPC
  <2>2. main' \in MainPC  BY <1>2 DEF MainPC
  <2> QED  BY <1>1, <2>1, <2>2
<1>3. CASE m_num_threads = 0 /\ main' = "dead" /\ UNCHANGED pc
  <2>1. Where(pc, Live) = {}  BY <1>3, WhereNat
  <2>2. Where(pc, {"waiting"}) = {}  BY <2>1 DEF Where, Live, ThreadPC
  <2>3. main' \in MainPC  BY <1>3 DEF MainPC
  <2> QED  BY <1>1, <1>3, <2>2, <2>3
<1> QED  BY <1>2, <1>3 DEF ExitLoop

\* The invariant is inductive.
LEMMA NextInv == PoolInv /\ [Next]_vars => PoolInv'
<1> SUFFICES ASSUME PoolInv, [Next]_vars PROVE PoolInv'  OBVIOUS
<1>1. ASSUME NEW t \in Threads, Worker(t) PROVE PoolInv'  BY <1>1, WorkerInv
<1>2. ASSUME NEW t \in Threads, SpuriousWake(t) PROVE PoolInv'
  <2>1. PoolCore'
    BY <1>2, WokenCore DEF SpuriousWake, PoolInv, PoolCore
  <2> QED  BY <1>2, <2>1 DEF SpuriousWake, PoolInv, MainTyped, cancelVars
<1>3. ASSUME NEW j \in Jobs, AddJob(j) PROVE PoolInv'  BY <1>3, AddJobInv
<1>4. ASSUME NEW j \in Jobs, MarkJob(j) PROVE PoolInv'  BY <1>4, MarkJobInv
<1>5. ASSUME NEW jobs \in SUBSET Jobs, CancelJobs(jobs) PROVE PoolInv'
  BY <1>5, SameCore
  DEF CancelJobs, workers, PoolInv, MainTyped, PoolCore, MainPC
<1>6. CASE ReadPipe
  <2>1. Head(pipe) \in Jobs /\ Tail(pipe) \in Seq(Jobs)
    BY <1>6 DEF ReadPipe, PoolInv, MainTyped
  <2> QED  BY <1>6, <2>1, SameCore DEF ReadPipe, workers, cancelVars, PoolInv, MainTyped, PoolCore
<1>7. CASE FinishJob
  BY <1>7, SameCore DEF FinishJob, workers, cancelVars, PoolInv, MainTyped, PoolCore, EJobState
<1>8. CASE Collect
  BY <1>8, SameCore DEF Collect, workers, PoolInv, MainTyped, PoolCore, MainPC, EJobState
<1>9. CASE DrainCancelled
  BY <1>9, SameCore DEF DrainCancelled, workers, PoolInv, MainTyped, PoolCore, EJobState
<1>10. CASE DeleteLater
  BY <1>10, SameCore DEF DeleteLater, workers, PoolInv, MainTyped, PoolCore, MainPC, EJobState
<1>11. CASE DestroyPool
  BY <1>11, ExitLoopInv DEF DestroyPool, PoolInv, PoolCore
<1>12. CASE ExitWake
  BY <1>12, ExitLoopInv DEF ExitWake, PoolInv, PoolCore
<1>13. CASE SpuriousMainWake
  BY <1>13, SameCore
  DEF SpuriousMainWake, workers, cancelVars, PoolInv, MainTyped, PoolCore, MainPC
<1>14. CASE UNCHANGED vars
  BY <1>14 DEF vars, PoolInv, PoolCore, MainTyped
<1> QED
  BY <1>1, <1>2, <1>3, <1>4, <1>5, <1>6, <1>7, <1>8, <1>9, <1>10, <1>11, <1>12, <1>13, <1>14
  DEF Next, Terminated

\* It holds in every reachable state.
LEMMA PoolInvariant == Spec => []PoolInv
BY InitInv, NextInv, PTL DEF Spec

\* The types of the pool's variables, for any number of threads and jobs.
THEOREM TypeCorrect == Spec => []TypeOK
<1>1. PoolInv => TypeOK  BY DEF PoolInv, PoolCore, MainTyped, TypeOK
<1> QED  BY <1>1, PoolInvariant, PTL

\* m_num_threads and m_num_idle, which never wrap, count the threads and stay within
\* MAX_TOTAL_THREADS and MAX_IDLE_THREADS.
THEOREM CountersCorrect == Spec => []CountersExact
<1>1. PoolInv => LiveThreads = Where(pc, Live) /\ IdleThreads = Where(pc, Idle)
  BY DEF PoolInv, PoolCore, LiveThreads, IdleThreads, Where, Live, Idle, ThreadPC
<1>2. PoolInv => (TypeOK => CountersExact)  BY <1>1 DEF PoolInv, PoolCore, CountersExact
<1> QED  BY <1>2, PoolInvariant, TypeCorrect, PTL

\* No pending job waits for a wakeup that will not come.
THEOREM WakeupsSuffice == Spec => []NoLostWakeup
<1>1. /\ In("waiting") = Where(pc, {"waiting"}) /\ In("woken") = Where(pc, {"woken"})
  BY DEF In, Where
<1>2. Where(pc, Active) # {} => \E t \in Threads : pc[t] \in {"starting", "woken", "running"}
  BY DEF Where, Active
<1>3. PoolInv => NoLostWakeup  BY <1>1, <1>2 DEF PoolInv, PoolCore, NoLostWakeup
<1> QED  BY <1>3, PoolInvariant, PTL

-----------------------------------------------------------------------------
(* Who holds a job *)

\* OneHolder with the threads' jobs w, the job states e, the list q and the
\* pipe r as parameters: JobDone goes through a state in which the job is done
\* and the thread has not yet turned to the next one.
StateTells(j, w, e, q, r) ==
  /\ Occurs(j, q) <=> e[j] = "READY"
  /\ (\E t \in Threads : w[t] = j) <=> e[j] = "RUNNING" \/ (e[j] = "CANCELLED" /\ j \in wait)
  /\ Occurs(j, r) <=> \/ e[j] = "DONE" /\ j \notin wait /\ j # finishing
                      \/ j \in finished
  /\ e[j] = "CANCELLED" => j \in wait \cup finished \cup deleteLater
  /\ j \in finished \cup deleteLater => e[j] = "CANCELLED"
  /\ j \in wait => e[j] \in {"CANCELLED", "DONE"}
  /\ j \in todo => e[j] \in {"READY", "RUNNING", "DONE"} /\ j \notin wait
  /\ j = finishing => e[j] = "DONE" /\ j \notin wait

Holding(w, e, q, r) ==
  /\ w \in [Threads -> Jobs \cup {NoJob}]
  /\ e \in [Jobs -> EJobState \cup {"none"}]
  /\ q \in Seq(Jobs) /\ Injective(q)
  /\ r \in Seq(Jobs) /\ Injective(r)
  /\ \A s, t \in Threads : w[s] = w[t] /\ w[s] # NoJob => s = t
  /\ \A j \in Jobs : StateTells(j, w, e, q, r)

Disjoint == wait \cap finished = {} /\ wait \cap deleteLater = {} /\ finished \cap deleteLater = {}

\* Which of cancelJobs' sets are in use where, and that no job is being
\* finished while cancelJobs holds or waits for the mutex.
CancelShape ==
  /\ main # "marking" => todo = {}
  /\ main \notin {"marking", "waiting", "woken"} => wait = {}
  /\ main \notin {"marking", "waiting", "woken", "draining"} => finished = {} /\ deleteLater = {}
  /\ main \notin {"loop", "draining"} => finishing = NoJob

RunningHasJob == \A t \in Threads : pc[t] = "running" <=> work[t] # NoJob

HolderInv == /\ Holding(work, m_eState, m_jobs, pipe)
             /\ RunningHasJob
             /\ Disjoint
             /\ CancelShape

\* Appending a new element to a list without duplicates.
LEMMA OccursAppend ==
  ASSUME NEW s \in Seq(Jobs), NEW k \in Jobs, Injective(s), ~Occurs(k, s)
  PROVE  /\ Append(s, k) \in Seq(Jobs)
         /\ Injective(Append(s, k))
         /\ \A j : Occurs(j, Append(s, k)) <=> Occurs(j, s) \/ j = k
<1>1. /\ Append(s, k) \in Seq(Jobs)
      /\ Len(Append(s, k)) = Len(s) + 1
      /\ DOMAIN s = 1..Len(s)
      /\ DOMAIN Append(s, k) = 1..(Len(s) + 1)
      /\ \A i \in 1..Len(s) : Append(s, k)[i] = s[i]
      /\ Append(s, k)[Len(s) + 1] = k
  OBVIOUS
<1>2. \A i \in DOMAIN s : s[i] # k  BY DEF Occurs
<1>3. Injective(Append(s, k))  BY <1>1, <1>2 DEF Injective
<1>4. \A j : Occurs(j, Append(s, k)) <=> Occurs(j, s) \/ j = k
  BY <1>1 DEF Occurs
<1> QED  BY <1>1, <1>3, <1>4

\* Taking the first element of a list without duplicates.
LEMMA OccursTail ==
  ASSUME NEW s \in Seq(Jobs), s # <<>>, Injective(s)
  PROVE  /\ Head(s) \in Jobs /\ Occurs(Head(s), s)
         /\ Tail(s) \in Seq(Jobs)
         /\ Injective(Tail(s))
         /\ \A j : Occurs(j, Tail(s)) <=> Occurs(j, s) /\ j # Head(s)
<1>1. /\ Tail(s) \in Seq(Jobs)
      /\ Len(s) \in Nat /\ Len(s) > 0
      /\ DOMAIN s = 1..Len(s)
      /\ DOMAIN Tail(s) = 1..(Len(s) - 1)
      /\ \A i \in 1..(Len(s) - 1) : Tail(s)[i] = s[i + 1]
      /\ Head(s) = s[1] /\ s[1] \in Jobs
  OBVIOUS
<1>2. Injective(Tail(s))  BY <1>1 DEF Injective
<1>3. ASSUME NEW j, Occurs(j, Tail(s))  PROVE Occurs(j, s) /\ j # Head(s)
  <2>1. PICK i \in 1..(Len(s) - 1) : s[i + 1] = j  BY <1>1, <1>3 DEF Occurs
  <2> QED  BY <1>1, <2>1 DEF Occurs, Injective
<1>4. ASSUME NEW j, Occurs(j, s), j # Head(s)  PROVE Occurs(j, Tail(s))
  <2>1. PICK i \in 1..Len(s) : s[i] = j  BY <1>1, <1>4 DEF Occurs
  <2>2. i - 1 \in 1..(Len(s) - 1) /\ (i - 1) + 1 = i  BY <1>1, <1>4, <2>1
  <2> QED  BY <1>1, <2>1, <2>2 DEF Occurs
<1>5. Occurs(Head(s), s)  BY <1>1 DEF Occurs
<1> QED  BY <1>1, <1>2, <1>3, <1>4, <1>5

\* Removing an element from a list without duplicates.
LEMMA OccursRemove ==
  ASSUME NEW s \in Seq(Jobs), NEW i \in DOMAIN s, Injective(s)
  PROVE  /\ RemoveIndex(s, i) \in Seq(Jobs)
         /\ Injective(RemoveIndex(s, i))
         /\ \A j : Occurs(j, RemoveIndex(s, i)) <=> Occurs(j, s) /\ j # s[i]
<1> DEFINE r == RemoveIndex(s, i)
<1>1. /\ r \in Seq(Jobs)
      /\ Len(s) \in Nat
      /\ DOMAIN s = 1..Len(s)
      /\ DOMAIN r = 1..(Len(s) - 1)
      /\ i \in 1..Len(s)
  BY DEF RemoveIndex
<1>2. \A k \in 1..(Len(s) - 1) : r[k] = IF k < i THEN s[k] ELSE s[k + 1]
  <2> DEFINE u == SubSeq(s, 1, i - 1)
             v == SubSeq(s, i + 1, Len(s))
  <2>1. /\ u \in Seq(Jobs) /\ Len(u) = i - 1 /\ \A k \in 1..(i - 1) : u[k] = s[k]
    BY <1>1
  <2>2. /\ v \in Seq(Jobs) /\ Len(v) = Len(s) - i
        /\ \A k \in 1..(Len(s) - i) : v[k] = s[i + k]
    BY <1>1
  <2>3. r = u \o v  BY DEF RemoveIndex
  <2> HIDE DEF u, v, r
  <2>4. \A k \in 1..(Len(u) + Len(v)) : r[k] = IF k <= Len(u) THEN u[k] ELSE v[k - Len(u)]
    BY <2>1, <2>2, <2>3, ConcatProperties
  <2> TAKE k \in 1..(Len(s) - 1)
  <2>5. CASE k < i  BY <1>1, <2>1, <2>2, <2>4, <2>5
  <2>6. CASE ~(k < i)
    <3>1. k - (i - 1) \in 1..(Len(s) - i) /\ i + (k - (i - 1)) = k + 1  BY <1>1, <2>6
    <3>2. k \in 1..(Len(u) + Len(v)) /\ ~(k <= Len(u))  BY <1>1, <2>1, <2>2, <2>6
    <3>3. r[k] = v[k - (i - 1)]  BY <2>1, <2>4, <3>2
    <3> QED  BY <2>2, <2>6, <3>1, <3>3
  <2> QED  BY <2>5, <2>6
<1> HIDE DEF r
<1>3. Injective(r)
  <2> SUFFICES ASSUME NEW a \in 1..(Len(s) - 1), NEW b \in 1..(Len(s) - 1), r[a] = r[b]
               PROVE  a = b
    BY <1>1 DEF Injective
  <2> DEFINE up(k) == IF k < i THEN k ELSE k + 1
  <2>1. up(a) \in 1..Len(s) /\ up(b) \in 1..Len(s)  BY <1>1
  <2>2. r[a] = s[up(a)] /\ r[b] = s[up(b)]  BY <1>2
  <2>3. up(a) = up(b)  BY <1>1, <2>1, <2>2 DEF Injective
  <2> QED  BY <1>1, <2>3
<1>4. ASSUME NEW j, Occurs(j, r)  PROVE Occurs(j, s) /\ j # s[i]
  <2>1. PICK k \in 1..(Len(s) - 1) : r[k] = j  BY <1>1, <1>4 DEF Occurs
  <2> QED  BY <1>1, <1>2, <2>1 DEF Occurs, Injective
<1>5. ASSUME NEW j, Occurs(j, s), j # s[i]  PROVE Occurs(j, r)
  <2>1. PICK k \in 1..Len(s) : s[k] = j  BY <1>1, <1>5 DEF Occurs
  <2>2. CASE k < i  BY <1>1, <1>2, <2>1, <2>2 DEF Occurs
  <2>3. CASE k > i
    <3>1. k - 1 \in 1..(Len(s) - 1) /\ (k - 1) + 1 = k /\ ~(k - 1 < i)  BY <1>1, <2>1, <2>3
    <3> QED  BY <1>1, <1>2, <2>1, <3>1 DEF Occurs
  <2> QED  BY <1>1, <1>5, <2>1, <2>2, <2>3
<1> QED  BY <1>1, <1>3, <1>4, <1>5 DEF r

\* The job of a thread whose runThread() returned is in the pipe, or cancelled.
LEMMA JobDoneHolding ==
  ASSUME HolderInv, NEW t \in Threads, pc[t] = "running", MutexFree
  PROVE  Holding([work EXCEPT ![t] = NoJob], [m_eState EXCEPT ![work[t]] = "DONE"], m_jobs,
                 IF WasCancelled(work[t]) THEN pipe ELSE Append(pipe, work[t]))
<1> DEFINE j == work[t]
           w == [work EXCEPT ![t] = NoJob]
           e == [m_eState EXCEPT ![j] = "DONE"]
           r == IF WasCancelled(j) THEN pipe ELSE Append(pipe, j)
<1>1. j \in Jobs /\ j # NoJob
  BY JobsAssumption DEF HolderInv, Holding, RunningHasJob
<1>2. /\ w \in [Threads -> Jobs \cup {NoJob}]
      /\ e \in [Jobs -> EJobState \cup {"none"}]
      /\ \A a, b \in Threads : w[a] = w[b] /\ w[a] # NoJob => a = b
      /\ \A k \in Jobs : (\E a \in Threads : w[a] = k) <=> (\E a \in Threads : work[a] = k) /\ k # j
  BY <1>1, JobsAssumption DEF HolderInv, Holding, EJobState
<1>3. /\ StateTells(j, work, m_eState, m_jobs, pipe)
      /\ m_eState[j] = "RUNNING" \/ (m_eState[j] = "CANCELLED" /\ j \in wait)
      /\ ~Occurs(j, pipe)
  BY <1>1 DEF HolderInv, Holding, StateTells, Disjoint
<1>4. /\ r \in Seq(Jobs) /\ Injective(r)
      /\ \A k \in Jobs : Occurs(k, r) <=> Occurs(k, pipe) \/ (k = j /\ ~WasCancelled(j))
  BY <1>1, <1>3, OccursAppend DEF HolderInv, Holding
<1>5. ASSUME NEW k \in Jobs  PROVE StateTells(k, w, e, m_jobs, r)
  <2>1. StateTells(k, work, m_eState, m_jobs, pipe)  BY DEF HolderInv, Holding
  <2>2. CASE k # j
    <3>1. e[k] = m_eState[k]  BY <1>2, <2>2 DEF HolderInv, Holding
    <3> HIDE DEF j, w, e, r
    <3> QED  BY <1>2, <1>4, <2>1, <2>2, <3>1 DEF StateTells
  <2>3. CASE k = j
    <3>1. e[k] = "DONE"  BY <1>1, <2>3 DEF HolderInv, Holding
    <3>2. WasCancelled(j) <=> m_eState[j] = "CANCELLED"  BY DEF WasCancelled
    <3>3. j \notin finished \/ j \notin wait  BY DEF HolderInv, Disjoint
    <3> HIDE DEF j, w, e, r
    <3>4. ~Occurs(j, m_jobs) /\ j # finishing /\ j \notin finished \cup deleteLater \cup todo
      BY <1>1, <1>3 DEF HolderInv, Disjoint, StateTells, CancelShape, MutexFree
    <3>5. ~\E a \in Threads : w[a] = j  BY <1>1, <1>2
    <3>6. j \in wait <=> m_eState[j] = "CANCELLED"  BY <1>3 DEF StateTells
    <3>7. Occurs(j, r) <=> j \notin wait  BY <1>1, <1>3, <1>4, <3>2, <3>6
    <3> QED  BY <2>3, <3>1, <3>4, <3>5, <3>7 DEF StateTells
  <2> QED  BY <2>2, <2>3
<1> HIDE DEF j, w, e, r
<1>6. Holding(w, e, m_jobs, r)
  BY <1>2, <1>4, <1>5 DEF HolderInv, Holding
<1> QED  BY <1>6 DEF j, w, e, r

\* One turn of threadFunc's loop moves at most the head of the list to a thread.
LEMMA LoopHolding ==
  ASSUME NEW t \in Threads, NEW idle, NEW st, NEW mn, work \in [Threads -> Jobs \cup {NoJob}],
         Holding([work EXCEPT ![t] = NoJob], st, m_jobs, pipe'),
         Loop(t, idle, st, mn), UNCHANGED <<finishing, cancelVars>>
  PROVE  Holding(work, m_eState, m_jobs, pipe)'
<1> DEFINE w == [work EXCEPT ![t] = NoJob]
<1>1. CASE work' = w /\ m_eState' = st /\ m_jobs' = m_jobs
  BY <1>1 DEF Holding, StateTells, cancelVars
<1>2. CASE /\ m_jobs # <<>>
           /\ work' = [work EXCEPT ![t] = Head(m_jobs)]
           /\ m_jobs' = Tail(m_jobs)
           /\ m_eState' = [st EXCEPT ![Head(m_jobs)] = "RUNNING"]
  <2> DEFINE h == Head(m_jobs)
  <2>1. /\ h \in Jobs /\ Occurs(h, m_jobs)
        /\ m_jobs' \in Seq(Jobs) /\ Injective(m_jobs')
        /\ \A j : Occurs(j, m_jobs') <=> Occurs(j, m_jobs) /\ j # h
    BY <1>2, OccursTail DEF Holding
  <2>2. StateTells(h, w, st, m_jobs, pipe')  BY <2>1 DEF Holding
  <2>3. st[h] = "READY" /\ ~\E s \in Threads : w[s] = h
    BY <2>1, <2>2 DEF StateTells
  <2>4. work' = [w EXCEPT ![t] = h]  BY <1>2
  <2>5. h # NoJob  BY <2>1, JobsAssumption
  <2>6. w \in [Threads -> Jobs \cup {NoJob}] /\ st \in [Jobs -> EJobState \cup {"none"}]
    BY DEF Holding
  <2>7. w[t] = NoJob  OBVIOUS
  <2> HIDE DEF w, h
  <2>8. /\ work' \in [Threads -> Jobs \cup {NoJob}]
        /\ m_eState' \in [Jobs -> EJobState \cup {"none"}]
        /\ \A a, b \in Threads : work'[a] = work'[b] /\ work'[a] # NoJob => a = b
        /\ \A k \in Jobs : (\E a \in Threads : work'[a] = k) <=> (\E a \in Threads : w[a] = k) \/ k = h
    BY <1>2, <2>1, <2>3, <2>4, <2>5, <2>6, <2>7, JobsAssumption DEF Holding, EJobState, h, w
  <2>9. ASSUME NEW k \in Jobs  PROVE StateTells(k, work, m_eState, m_jobs, pipe)'
    <3>1. StateTells(k, w, st, m_jobs, pipe')  BY DEF Holding, w
    <3>2. m_eState'[k] = IF k = h THEN "RUNNING" ELSE st[k]  BY <1>2, <2>1, <2>6 DEF h
    <3> QED  BY <2>1, <2>3, <2>8, <3>1, <3>2 DEF StateTells, cancelVars
  <2> QED  BY <2>1, <2>8, <2>9 DEF Holding, w
<1> QED  BY <1>1, <1>2 DEF Loop

\* The steps of a worker thread keep the holders of every job.
LEMMA WorkerHolder ==
  ASSUME PoolInv, HolderInv, NEW t \in Threads, Worker(t)
  PROVE  HolderInv'
<1>0. /\ pc \in [Threads -> ThreadPC] /\ work \in [Threads -> Jobs \cup {NoJob}]
      /\ pc[t] = "running" <=> work[t] # NoJob
  BY DEF HolderInv, Holding, RunningHasJob, PoolInv, PoolCore
<1>1. ASSUME NEW idle, NEW st, NEW mn, Loop(t, idle, st, mn),
             mn = main \/ (main = "waiting" /\ mn = "woken"),
             UNCHANGED <<finishing, cancelVars>>
      PROVE  RunningHasJob' /\ Disjoint' /\ CancelShape'
  <2>1. Disjoint'  BY <1>1 DEF HolderInv, Disjoint, cancelVars
  <2>2. main' = main \/ (main = "waiting" /\ main' = "woken")
                     \/ (main = "exitWaiting" /\ main' = "exitWoken")
    BY <1>1 DEF Loop, ExitNotified
  <2>3. CancelShape'  BY <1>1, <2>2 DEF HolderInv, CancelShape, cancelVars
  <2>4. RunningHasJob'
    <3>1. m_jobs # <<>> => Head(m_jobs) # NoJob
      BY JobsAssumption DEF HolderInv, Holding
    <3> QED  BY <1>0, <1>1, <3>1 DEF Loop, Goto, HolderInv, RunningHasJob
  <2> QED  BY <2>1, <2>3, <2>4
<1>2. CASE ThreadStart(t) \/ ThreadWake(t)
  <2>1. PICK idle : Loop(t, idle, m_eState, main)
    BY <1>2 DEF ThreadStart, ThreadWake
  <2>2. UNCHANGED <<pipe, finishing, cancelVars>> /\ pc[t] # "running"
    BY <1>2 DEF ThreadStart, ThreadWake
  <2>3. [work EXCEPT ![t] = NoJob] = work  BY <1>0, <2>2
  <2>4. Holding([work EXCEPT ![t] = NoJob], m_eState, m_jobs, pipe')
    BY <2>2, <2>3 DEF HolderInv
  <2>5. Holding(work, m_eState, m_jobs, pipe)'
    BY <1>0, <2>1, <2>2, <2>4, LoopHolding
  <2> QED  BY <1>1, <2>1, <2>2, <2>5 DEF HolderInv
<1>3. CASE JobDone(t)
  <2> DEFINE st == [m_eState EXCEPT ![work[t]] = "DONE"]
             mn == CancellationNotified(work[t])
  <2>1. /\ pc[t] = "running" /\ MutexFree
        /\ pipe' = IF WasCancelled(work[t]) THEN pipe ELSE Append(pipe, work[t])
        /\ Loop(t, m_num_idle + 1, st, mn)
        /\ UNCHANGED <<finishing, cancelVars>>
    BY <1>3 DEF JobDone
  <2>2. mn = main \/ (main = "waiting" /\ mn = "woken")
    BY DEF CancellationNotified
  <2>3. Holding([work EXCEPT ![t] = NoJob], st, m_jobs, pipe')
    BY <2>1, JobDoneHolding
  <2> HIDE DEF st, mn
  <2>4. Holding(work, m_eState, m_jobs, pipe)'
    BY <1>0, <2>1, <2>3, LoopHolding
  <2> QED  BY <1>1, <2>1, <2>2, <2>4 DEF HolderInv
<1> QED  BY <1>2, <1>3 DEF Worker

\* So does addJob.
LEMMA AddJobHolder ==
  ASSUME PoolInv, HolderInv, NEW j \in Jobs, AddJob(j)
  PROVE  HolderInv'
<1>1. /\ m_eState[j] = "none" /\ m_eState' = [m_eState EXCEPT ![j] = "READY"]
      /\ m_jobs' = Append(m_jobs, j) /\ StartThreadFor
      /\ UNCHANGED <<work, pipe, m_done, main, finishing, cancelVars>>
  BY DEF AddJob
<1>2. StateTells(j, work, m_eState, m_jobs, pipe)  BY DEF HolderInv, Holding
<1>3. ~Occurs(j, m_jobs)  BY <1>1, <1>2 DEF StateTells
<1>4. /\ m_jobs' \in Seq(Jobs) /\ Injective(m_jobs')
      /\ \A k : Occurs(k, m_jobs') <=> Occurs(k, m_jobs) \/ k = j
  BY <1>1, <1>3, OccursAppend DEF HolderInv, Holding
<1>5. /\ m_eState' \in [Jobs -> EJobState \cup {"none"}]
      /\ \A k \in Jobs : m_eState'[k] = IF k = j THEN "READY" ELSE m_eState[k]
  BY <1>1 DEF HolderInv, Holding, EJobState
<1>6. ASSUME NEW k \in Jobs  PROVE StateTells(k, work, m_eState, m_jobs, pipe)'
  <2>1. StateTells(k, work, m_eState, m_jobs, pipe)  BY DEF HolderInv, Holding
  <2>2. CASE k # j  BY <1>1, <1>4, <1>5, <2>1, <2>2 DEF StateTells, cancelVars
  <2>3. CASE k = j
    <3>1. todo = {} \/ j \notin todo  BY <1>1, <1>2 DEF StateTells
    <3> QED  BY <1>1, <1>2, <1>4, <1>5, <2>3, <3>1 DEF StateTells, cancelVars
  <2> QED  BY <2>2, <2>3
<1>7. RunningHasJob'
  <2>1. \A t \in Threads : pc'[t] = "running" <=> pc[t] = "running"
    BY <1>1 DEF StartThreadFor, NotifyOne, In, Goto, PoolInv, PoolCore
  <2> QED  BY <1>1, <2>1 DEF HolderInv, RunningHasJob
<1> QED
  BY <1>1, <1>4, <1>5, <1>6, <1>7
  DEF HolderInv, Holding, Disjoint, CancelShape, cancelVars

\* So does the marking of a job in any of its three states.
LEMMA MarkJobHolder ==
  ASSUME PoolInv, HolderInv, NEW j \in Jobs, MarkJob(j)
  PROVE  HolderInv'
<1>1. /\ main = "marking" /\ j \in todo /\ todo' = todo \ {j}
      /\ m_eState' = [m_eState EXCEPT ![j] = "CANCELLED"]
      /\ UNCHANGED <<pc, work, pipe, main, finishing>>
  BY DEF MarkJob, workers
<1>2. StateTells(j, work, m_eState, m_jobs, pipe)  BY DEF HolderInv, Holding
<1>3. /\ m_eState' \in [Jobs -> EJobState \cup {"none"}]
      /\ \A k \in Jobs : m_eState'[k] = IF k = j THEN "CANCELLED" ELSE m_eState[k]
  BY <1>1 DEF HolderInv, Holding, EJobState
<1>4. finishing = NoJob /\ j # NoJob
  BY <1>1, JobsAssumption DEF HolderInv, CancelShape
<1>5. j \notin wait \cup finished \cup deleteLater
  BY <1>1, <1>2 DEF StateTells
<1>6. RunningHasJob' /\ CancelShape'
  BY <1>1 DEF HolderInv, RunningHasJob, CancelShape
<1>7. CASE MarkReady(j)
  <2>1. PICK i \in DOMAIN m_jobs : m_jobs[i] = j /\ m_jobs' = RemoveIndex(m_jobs, i)
    BY <1>7 DEF MarkReady
  <2>2. /\ m_jobs' \in Seq(Jobs) /\ Injective(m_jobs')
        /\ \A k : Occurs(k, m_jobs') <=> Occurs(k, m_jobs) /\ k # j
    BY <2>1, OccursRemove DEF HolderInv, Holding
  <2>3. /\ m_eState[j] = "READY" /\ deleteLater' = deleteLater \cup {j}
        /\ UNCHANGED <<wait, finished>>
    BY <1>7 DEF MarkReady
  <2>4. ASSUME NEW k \in Jobs  PROVE StateTells(k, work, m_eState, m_jobs, pipe)'
    <3>1. StateTells(k, work, m_eState, m_jobs, pipe)  BY DEF HolderInv, Holding
    <3> QED  BY <1>1, <1>3, <1>4, <1>5, <2>2, <2>3, <3>1 DEF StateTells
  <2> QED
    BY <1>1, <1>3, <1>5, <1>6, <2>2, <2>3, <2>4 DEF HolderInv, Holding, Disjoint
<1>8. CASE MarkRunning(j)
  <2>1. /\ m_eState[j] = "RUNNING" /\ wait' = wait \cup {j}
        /\ UNCHANGED <<m_jobs, finished, deleteLater>>
    BY <1>8 DEF MarkRunning
  <2>2. ASSUME NEW k \in Jobs  PROVE StateTells(k, work, m_eState, m_jobs, pipe)'
    <3>1. StateTells(k, work, m_eState, m_jobs, pipe)  BY DEF HolderInv, Holding
    <3> QED  BY <1>1, <1>3, <1>4, <1>5, <2>1, <3>1 DEF StateTells
  <2> QED
    BY <1>1, <1>3, <1>5, <1>6, <2>1, <2>2 DEF HolderInv, Holding, Disjoint
<1>9. CASE MarkDone(j)
  <2>1. /\ m_eState[j] = "DONE" /\ finished' = finished \cup {j}
        /\ UNCHANGED <<m_jobs, wait, deleteLater>>
    BY <1>9 DEF MarkDone
  <2>2. ASSUME NEW k \in Jobs  PROVE StateTells(k, work, m_eState, m_jobs, pipe)'
    <3>1. StateTells(k, work, m_eState, m_jobs, pipe)  BY DEF HolderInv, Holding
    <3> QED  BY <1>1, <1>3, <1>4, <1>5, <2>1, <3>1 DEF StateTells
  <2> QED
    BY <1>1, <1>3, <1>5, <1>6, <2>1, <2>2 DEF HolderInv, Holding, Disjoint
<1> QED  BY <1>7, <1>8, <1>9 DEF MarkJob

\* So do the reads of the pipe.
LEMMA PipeHolder ==
  ASSUME PoolInv, HolderInv, ReadPipe \/ DrainCancelled
  PROVE  HolderInv'
<1> DEFINE h == Head(pipe)
<1>1. /\ pipe # <<>> /\ pipe' = Tail(pipe) /\ finishing = NoJob
      /\ main \in {"loop", "draining"} /\ UNCHANGED <<pc, work, m_jobs, main, todo, wait, deleteLater>>
  BY DEF ReadPipe, DrainCancelled, workers, cancelVars
<1>2. /\ h \in Jobs /\ Occurs(h, pipe)
      /\ pipe' \in Seq(Jobs) /\ Injective(pipe')
      /\ \A j : Occurs(j, pipe') <=> Occurs(j, pipe) /\ j # h
  BY <1>1, OccursTail DEF HolderInv, Holding
<1>3. StateTells(h, work, m_eState, m_jobs, pipe)  BY <1>2 DEF HolderInv, Holding
<1>4. h # NoJob /\ wait = {} /\ todo = {}
  BY <1>1, <1>2, JobsAssumption DEF HolderInv, CancelShape
<1>5. RunningHasJob'  BY <1>1 DEF HolderInv, RunningHasJob
<1>6. CASE ReadPipe
  <2>1. /\ finishing' = h /\ UNCHANGED <<m_eState, finished>> /\ h \notin finished
    BY <1>6 DEF ReadPipe, cancelVars, HolderInv, CancelShape
  <2> HIDE DEF h
  <2>2. ASSUME NEW k \in Jobs  PROVE StateTells(k, work, m_eState, m_jobs, pipe)'
    <3>1. StateTells(k, work, m_eState, m_jobs, pipe)  BY DEF HolderInv, Holding
    <3> QED  BY <1>1, <1>2, <1>3, <1>4, <2>1, <3>1, JobsAssumption DEF StateTells
  <2> QED
    BY <1>1, <1>2, <1>5, <2>1, <2>2 DEF HolderInv, Holding, Disjoint, CancelShape
<1>7. CASE DrainCancelled
  <2>1. /\ h \in finished /\ finished' = finished \ {h} /\ UNCHANGED finishing
        /\ m_eState' = [m_eState EXCEPT ![h] = "none"]
        /\ main = "draining"
    BY <1>7 DEF DrainCancelled
  <2> HIDE DEF h
  <2>2. /\ m_eState' \in [Jobs -> EJobState \cup {"none"}]
        /\ \A k \in Jobs : m_eState'[k] = IF k = h THEN "none" ELSE m_eState[k]
    BY <2>1 DEF HolderInv, Holding, EJobState
  <2>3. h \notin deleteLater /\ m_eState[h] = "CANCELLED"
    BY <2>1, <1>3 DEF HolderInv, Disjoint, StateTells
  <2>4. ASSUME NEW k \in Jobs  PROVE StateTells(k, work, m_eState, m_jobs, pipe)'
    <3>1. StateTells(k, work, m_eState, m_jobs, pipe)  BY DEF HolderInv, Holding
    <3> QED  BY <1>1, <1>2, <1>3, <1>4, <2>1, <2>2, <2>3, <3>1, JobsAssumption DEF StateTells
  <2> QED
    BY <1>1, <1>2, <1>5, <2>1, <2>2, <2>4 DEF HolderInv, Holding, Disjoint, CancelShape
<1> QED  BY <1>6, <1>7

\* So do the deletions in finishJob and cancelJobs.
LEMMA DeleteHolder ==
  ASSUME PoolInv, HolderInv, FinishJob \/ Collect \/ DeleteLater
  PROVE  HolderInv'
<1>0. UNCHANGED <<pc, work, m_jobs, pipe, todo, finished>>
  BY DEF FinishJob, Collect, DeleteLater, workers, cancelVars
<1>1. RunningHasJob'  BY <1>0 DEF HolderInv, RunningHasJob
<1>2. CASE FinishJob
  <2>1. /\ finishing # NoJob /\ m_eState' = [m_eState EXCEPT ![finishing] = "none"]
        /\ finishing' = NoJob /\ UNCHANGED <<main, wait, deleteLater>>
    BY <1>2 DEF FinishJob, cancelVars
  <2>2. finishing \in Jobs  BY <2>1 DEF PoolInv, MainTyped
  <2>3. todo = {}  BY <2>1 DEF HolderInv, CancelShape
  <2>4. /\ m_eState' \in [Jobs -> EJobState \cup {"none"}]
        /\ \A k \in Jobs : m_eState'[k] = IF k = finishing THEN "none" ELSE m_eState[k]
    BY <2>1, <2>2 DEF HolderInv, Holding, EJobState
  <2>5. ASSUME NEW k \in Jobs  PROVE StateTells(k, work, m_eState, m_jobs, pipe)'
    <3>1. StateTells(k, work, m_eState, m_jobs, pipe)  BY DEF HolderInv, Holding
    <3> QED  BY <1>0, <2>1, <2>3, <2>4, <3>1, JobsAssumption DEF StateTells
  <2> QED  BY <1>0, <1>1, <2>1, <2>4, <2>5 DEF HolderInv, Holding, Disjoint, CancelShape
<1>3. CASE Collect
  <2> DEFINE ended == {j \in wait : m_eState[j] # "CANCELLED"}
  <2>1. /\ todo = {} /\ finishing' = finishing
        /\ m_eState' = [j \in Jobs |-> IF j \in ended THEN "CANCELLED" ELSE m_eState[j]]
        /\ deleteLater' = deleteLater \cup ended /\ wait' = wait \ ended
        /\ main' = IF wait \ ended = {} THEN "draining" ELSE "waiting"
        /\ main \in {"marking", "woken"}
    BY <1>3 DEF Collect, HolderInv, CancelShape
  <2>2. /\ m_eState' \in [Jobs -> EJobState \cup {"none"}]
        /\ \A k \in Jobs : m_eState'[k] = IF k \in ended THEN "CANCELLED" ELSE m_eState[k]
    BY <2>1 DEF HolderInv, Holding, EJobState
  <2>3. ended \subseteq wait /\ \A k \in wait : k \in ended <=> m_eState[k] # "CANCELLED"
    OBVIOUS
  <2> HIDE DEF ended
  <2>4. ASSUME NEW k \in Jobs  PROVE StateTells(k, work, m_eState, m_jobs, pipe)'
    <3>1. StateTells(k, work, m_eState, m_jobs, pipe)  BY DEF HolderInv, Holding
    <3>2. k \notin wait \/ k \notin finished \cup deleteLater  BY DEF HolderInv, Disjoint
    <3>3. CASE k \in ended
      <4>1. k \in wait /\ m_eState[k] = "DONE" /\ m_eState'[k] = "CANCELLED"
        BY <2>2, <2>3, <3>1, <3>3 DEF StateTells
      <4> QED  BY <1>0, <2>1, <3>1, <3>2, <3>3, <4>1 DEF StateTells
    <3>4. CASE k \notin ended
      <4>1. m_eState'[k] = m_eState[k] /\ (k \in wait' <=> k \in wait)
            /\ (k \in deleteLater' <=> k \in deleteLater)
        BY <2>1, <2>2, <3>4
      <4> QED  BY <1>0, <2>1, <3>1, <4>1 DEF StateTells
    <3> QED  BY <3>3, <3>4
  <2>5. Disjoint'
    BY <1>0, <2>1, <2>3 DEF HolderInv, Disjoint
  <2>6. CancelShape'  BY <1>0, <2>1 DEF HolderInv, CancelShape
  <2> QED  BY <1>0, <1>1, <2>2, <2>4, <2>5, <2>6 DEF HolderInv, Holding
<1>4. CASE DeleteLater
  <2>1. /\ main = "draining" /\ main' = "loop" /\ finished = {} /\ deleteLater' = {}
        /\ m_eState' = [j \in Jobs |-> IF j \in deleteLater THEN "none" ELSE m_eState[j]]
        /\ UNCHANGED <<finishing, wait>> /\ finishing = NoJob
    BY <1>4 DEF DeleteLater
  <2>2. wait = {} /\ todo = {}  BY <2>1 DEF HolderInv, CancelShape
  <2>3. /\ m_eState' \in [Jobs -> EJobState \cup {"none"}]
        /\ \A k \in Jobs : m_eState'[k] = IF k \in deleteLater THEN "none" ELSE m_eState[k]
    BY <2>1 DEF HolderInv, Holding, EJobState
  <2>4. ASSUME NEW k \in Jobs  PROVE StateTells(k, work, m_eState, m_jobs, pipe)'
    <3>1. StateTells(k, work, m_eState, m_jobs, pipe)  BY DEF HolderInv, Holding
    <3> QED  BY <1>0, <2>1, <2>2, <2>3, <3>1, JobsAssumption DEF StateTells
  <2> QED  BY <1>0, <1>1, <2>1, <2>2, <2>3, <2>4 DEF HolderInv, Holding, Disjoint, CancelShape
<1> QED  BY <1>2, <1>3, <1>4

\* So do the steps that leave the jobs alone.
LEMMA OtherHolder ==
  ASSUME PoolInv, HolderInv,
         \/ \E t \in Threads : SpuriousWake(t)
         \/ \E jobs \in SUBSET Jobs : CancelJobs(jobs)
         \/ DestroyPool \/ ExitWake \/ SpuriousMainWake \/ UNCHANGED vars
  PROVE  HolderInv'
<1>1. /\ UNCHANGED <<work, m_eState, m_jobs, pipe, finishing, wait, finished, deleteLater>>
      /\ \A t \in Threads : pc'[t] = "running" <=> pc[t] = "running"
  BY DEF SpuriousWake, CancelJobs, DestroyPool, ExitWake, SpuriousMainWake, ExitLoop, NotifyAll,
         Goto, vars, workers, cancelVars, PoolInv, PoolCore
<1>2. RunningHasJob' /\ Disjoint'
  BY <1>1 DEF HolderInv, RunningHasJob, Disjoint
<1>3. CASE \E jobs \in SUBSET Jobs : CancelJobs(jobs)
  <2>1. PICK jobs \in SUBSET Jobs : CancelJobs(jobs)  BY <1>3
  <2>2. /\ main = "loop" /\ main' = "marking" /\ todo' = jobs /\ finishing = NoJob
        /\ \A j \in jobs : m_eState[j] # "none"
    BY <2>1 DEF CancelJobs
  <2>3. wait = {} /\ finished = {} /\ deleteLater = {}
    BY <2>2 DEF HolderInv, CancelShape
  <2>4. ASSUME NEW k \in Jobs  PROVE StateTells(k, work, m_eState, m_jobs, pipe)'
    <3>1. StateTells(k, work, m_eState, m_jobs, pipe)  BY DEF HolderInv, Holding
    <3>2. m_eState[k] \in EJobState \cup {"none"}  BY DEF HolderInv, Holding
    <3> QED  BY <1>1, <2>2, <2>3, <3>1, <3>2 DEF StateTells, EJobState
  <2> QED  BY <1>1, <1>2, <2>2, <2>4 DEF HolderInv, Holding, CancelShape
<1>4. CASE ~\E jobs \in SUBSET Jobs : CancelJobs(jobs)
  <2>1. todo' = todo
    BY <1>4 DEF SpuriousWake, DestroyPool, ExitWake, SpuriousMainWake, vars, cancelVars
  <2>2. Holding(work, m_eState, m_jobs, pipe)'
    BY <1>1, <2>1 DEF HolderInv, Holding, StateTells
  <2>3. CancelShape'
    BY <1>1, <1>4, <2>1
    DEF HolderInv, CancelShape, SpuriousWake, DestroyPool, ExitWake, ExitLoop, SpuriousMainWake, vars
  <2> QED  BY <1>2, <2>2, <2>3 DEF HolderInv
<1> QED  BY <1>3, <1>4

\* Both invariants hold in every reachable state.
LEMMA HolderInvariant == Spec => [](PoolInv /\ HolderInv)
<1>1. Init => HolderInv
  <2> SUFFICES ASSUME Init PROVE HolderInv  OBVIOUS
  <2>1. Injective(m_jobs) /\ Injective(pipe) /\ \A j : ~Occurs(j, m_jobs) /\ ~Occurs(j, pipe)
    BY DEF Init, Injective, Occurs
  <2>2. \A j \in Jobs : StateTells(j, work, m_eState, m_jobs, pipe)
    BY <2>1, JobsAssumption DEF Init, StateTells
  <2>3. Holding(work, m_eState, m_jobs, pipe)
    BY <2>1, <2>2, InitInv DEF Init, Holding, PoolInv, PoolCore, MainTyped
  <2> QED  BY <2>3 DEF Init, HolderInv, RunningHasJob, Disjoint, CancelShape
<1>2. PoolInv /\ HolderInv /\ [Next]_vars => HolderInv'
  BY WorkerHolder, AddJobHolder, MarkJobHolder, PipeHolder, DeleteHolder, OtherHolder
  DEF Next, Terminated
<1> QED  BY <1>1, <1>2, InitInv, NextInv, PTL DEF Spec

\* The state of a job tells who holds its address; nobody holds a deleted job.
THEOREM HolderCorrect == Spec => []OneHolder
<1>1. PoolInv /\ HolderInv => OneHolder
  BY DEF HolderInv, Holding, StateTells, RunningHasJob, Disjoint, OneHolder, RunBy, PoolInv
<1> QED  BY <1>1, HolderInvariant, PTL

\* When cancelJobs has returned, no cancelled job is left.
THEOREM CancelComplete == Spec => []CancelledJobsDeleted
<1>1. HolderInv => CancelledJobsDeleted
  BY DEF HolderInv, Holding, StateTells, CancelShape, CancelledJobsDeleted
<1> QED  BY <1>1, HolderInvariant, PTL

-----------------------------------------------------------------------------
(* Refinement of JobLifecycle *)

\* Job k goes along an edge of its life, or stays where it is.
Follows(k) == PhaseOf(k)' # PhaseOf(k) => <<PhaseOf(k), PhaseOf(k)'>> \in Lifecycle!Edges

\* What a worker thread does to the phases of the jobs.
LEMMA WorkerFollows ==
  ASSUME PoolInv, HolderInv, NEW t \in Threads, Worker(t), NEW k \in Jobs
  PROVE  Follows(k)
<1>0. /\ StateTells(k, work, m_eState, m_jobs, pipe)
      /\ m_eState \in [Jobs -> EJobState \cup {"none"}]
  BY DEF HolderInv, Holding
<1>1. m_jobs # <<>> => Head(m_jobs) \in Jobs /\ Occurs(Head(m_jobs), m_jobs)
  BY OccursTail DEF HolderInv, Holding
<1>2. ASSUME NEW st \in [Jobs -> EJobState \cup {"none"}], NEW idle, NEW mn, Loop(t, idle, st, mn)
      PROVE  m_eState'[k] = IF m_jobs # <<>> /\ k = Head(m_jobs) /\ m_eState' # st THEN "RUNNING" ELSE st[k]
  BY <1>1, <1>2 DEF Loop
<1>3. CASE ThreadStart(t) \/ ThreadWake(t)
  <2>1. /\ UNCHANGED <<finishing, wait>>
        /\ m_eState'[k] = m_eState[k] \/ (Occurs(k, m_jobs) /\ m_eState'[k] = "RUNNING")
    BY <1>0, <1>1, <1>2, <1>3 DEF ThreadStart, ThreadWake, cancelVars
  <2>2. m_eState'[k] = m_eState[k] \/ (m_eState[k] = "READY" /\ m_eState'[k] = "RUNNING")
    BY <1>0, <2>1 DEF StateTells
  <2>3. m_eState[k] = "READY" => k # finishing /\ k \notin wait
    BY <1>0 DEF StateTells
  <2> QED  BY <2>1, <2>2, <2>3 DEF Follows, PhaseOf, StatePhase, Lifecycle!Edges
<1>4. CASE JobDone(t)
  <2> DEFINE j == work[t]
             st == [m_eState EXCEPT ![j] = "DONE"]
  <2>1. /\ j \in Jobs /\ UNCHANGED <<finishing, wait>>
        /\ Loop(t, m_num_idle + 1, st, CancellationNotified(j))
    BY <1>4, JobsAssumption DEF JobDone, cancelVars, PoolInv, PoolCore
  <2>2. st \in [Jobs -> EJobState \cup {"none"}] /\ st[k] = IF k = j THEN "DONE" ELSE m_eState[k]
    BY <1>0, <2>1 DEF EJobState
  <2>3. StateTells(j, work, m_eState, m_jobs, pipe)  BY <2>1 DEF HolderInv, Holding
  <2>4. m_eState[j] = "RUNNING" \/ (m_eState[j] = "CANCELLED" /\ j \in wait)
    BY <2>3 DEF StateTells
  <2> HIDE DEF j, st
  <2>5. m_eState'[k] = st[k] \/ (Occurs(k, m_jobs) /\ m_eState'[k] = "RUNNING")
    BY <1>1, <1>2, <2>1, <2>2
  <2>6. Occurs(k, m_jobs) <=> m_eState[k] = "READY"  BY <1>0 DEF StateTells
  <2>7. CASE k = j
    <3>1. m_eState'[k] = "DONE" /\ k # finishing
      BY <2>2, <2>3, <2>4, <2>5, <2>6, <2>7 DEF StateTells
    <3>2. m_eState[k] = "RUNNING" => k \notin wait  BY <1>0 DEF StateTells
    <3> QED  BY <2>1, <2>4, <2>7, <3>1, <3>2 DEF Follows, PhaseOf, StatePhase, Lifecycle!Edges
  <2>8. CASE k # j
    <3>1. m_eState'[k] = m_eState[k] \/ (m_eState[k] = "READY" /\ m_eState'[k] = "RUNNING")
      BY <2>2, <2>5, <2>6, <2>8
    <3>2. m_eState[k] = "READY" => k # finishing /\ k \notin wait
      BY <1>0 DEF StateTells
    <3> QED  BY <2>1, <3>1, <3>2 DEF Follows, PhaseOf, StatePhase, Lifecycle!Edges
  <2> QED  BY <2>7, <2>8
<1> QED  BY <1>3, <1>4 DEF Worker

\* What the main thread does to the phases of the jobs.
LEMMA MainFollows ==
  ASSUME PoolInv, HolderInv, NEW k \in Jobs,
         \/ \E j \in Jobs : AddJob(j) \/ MarkJob(j)
         \/ ReadPipe \/ FinishJob \/ Collect \/ DrainCancelled \/ DeleteLater
  PROVE  Follows(k)
<1> USE DEF Follows, PhaseOf, StatePhase, Lifecycle!Edges
<1>0. /\ StateTells(k, work, m_eState, m_jobs, pipe)
      /\ m_eState \in [Jobs -> EJobState \cup {"none"}]
      /\ k # NoJob
  BY JobsAssumption DEF HolderInv, Holding
<1>1. ASSUME NEW j \in Jobs, AddJob(j)  PROVE Follows(k)
  <2>1. /\ UNCHANGED <<finishing, wait>> /\ m_eState[j] = "none"
        /\ m_eState'[k] = IF k = j THEN "READY" ELSE m_eState[k]
    BY <1>0, <1>1 DEF AddJob, cancelVars
  <2> QED  BY <1>0, <2>1 DEF StateTells
<1>2. ASSUME NEW j \in Jobs, MarkJob(j)  PROVE Follows(k)
  <2>1. /\ UNCHANGED finishing /\ j \in todo /\ finishing = NoJob
        /\ m_eState'[k] = IF k = j THEN "CANCELLED" ELSE m_eState[k]
        /\ wait' = IF m_eState[j] = "RUNNING" THEN wait \cup {j} ELSE wait
    BY <1>0, <1>2
    DEF MarkJob, MarkReady, MarkRunning, MarkDone, HolderInv, CancelShape
  <2>2. StateTells(j, work, m_eState, m_jobs, pipe)  BY DEF HolderInv, Holding
  <2>3. m_eState[j] \in {"READY", "RUNNING", "DONE"} /\ j \notin wait
    BY <2>1, <2>2 DEF StateTells
  <2> QED  BY <1>0, <2>1, <2>3
<1>3. CASE ReadPipe
  <2>1. /\ UNCHANGED <<m_eState, wait>> /\ finishing = NoJob /\ finishing' = Head(pipe)
        /\ Occurs(Head(pipe), pipe) /\ Head(pipe) \notin finished /\ wait = {}
    BY <1>3, OccursTail DEF ReadPipe, cancelVars, HolderInv, Holding, CancelShape
  <2> QED  BY <1>0, <2>1 DEF StateTells
<1>4. CASE FinishJob
  <2>1. /\ finishing' = NoJob /\ wait' = wait
        /\ m_eState'[k] = IF k = finishing THEN "none" ELSE m_eState[k]
    BY <1>0, <1>4 DEF FinishJob, cancelVars
  <2> QED  BY <1>0, <2>1 DEF StateTells
<1>5. CASE Collect
  <2>1. /\ finishing' = finishing
        /\ m_eState'[k] = IF k \in wait THEN "CANCELLED" ELSE m_eState[k]
        /\ k \in wait' <=> k \in wait /\ m_eState[k] = "CANCELLED"
    BY <1>0, <1>5 DEF Collect
  <2> QED  BY <1>0, <2>1 DEF StateTells
<1>6. CASE DrainCancelled
  <2>1. /\ UNCHANGED <<finishing, wait>> /\ Head(pipe) \in finished /\ wait = {}
        /\ m_eState'[k] = IF k = Head(pipe) THEN "none" ELSE m_eState[k]
    BY <1>0, <1>6 DEF DrainCancelled, HolderInv, CancelShape
  <2> QED  BY <1>0, <2>1 DEF StateTells
<1>7. CASE DeleteLater
  <2>1. /\ UNCHANGED <<finishing, wait>> /\ wait = {}
        /\ m_eState'[k] = IF k \in deleteLater THEN "none" ELSE m_eState[k]
    BY <1>0, <1>7 DEF DeleteLater, HolderInv, CancelShape
  <2> QED  BY <1>0, <2>1 DEF StateTells
<1> QED  BY <1>1, <1>2, <1>3, <1>4, <1>5, <1>6, <1>7

\* The remaining steps leave the phases alone.
LEMMA OtherFollows ==
  ASSUME NEW k \in Jobs,
         \/ \E t \in Threads : SpuriousWake(t)
         \/ \E jobs \in SUBSET Jobs : CancelJobs(jobs)
         \/ DestroyPool \/ ExitWake \/ SpuriousMainWake \/ UNCHANGED vars
  PROVE  Follows(k)
<1>1. UNCHANGED <<m_eState, finishing, wait>>
  BY DEF SpuriousWake, CancelJobs, DestroyPool, ExitWake, SpuriousMainWake, vars, cancelVars
<1> QED  BY <1>1 DEF Follows, PhaseOf

\* The thread pool implements the life of a job that its header promises.
THEOREM PoolImplementsLifecycle == Spec => LifecycleSpec
<1>1. Init => Lifecycle!Init
  BY JobsAssumption DEF Init, Lifecycle!Init, phase, PhaseOf, StatePhase
<1>2. PoolInv /\ HolderInv => phase \in [Jobs -> Lifecycle!Phases] /\ Lifecycle!OneInMain
  <2> SUFFICES ASSUME PoolInv, HolderInv
               PROVE  phase \in [Jobs -> Lifecycle!Phases] /\ Lifecycle!OneInMain
    OBVIOUS
  <2>1. \A j \in Jobs : /\ m_eState[j] \in EJobState \cup {"none"}
                        /\ phase[j] = PhaseOf(j)
    BY DEF HolderInv, Holding, phase
  <2>2. \A j \in Jobs : PhaseOf(j) \in Lifecycle!Phases /\ (PhaseOf(j) = "inMain" => j = finishing)
    BY <2>1 DEF PhaseOf, StatePhase, Lifecycle!Phases, EJobState
  <2> QED  BY <2>1, <2>2 DEF phase, Lifecycle!OneInMain
<1>3. PoolInv /\ HolderInv /\ [Next]_vars /\ (PoolInv /\ HolderInv)'
        => [Lifecycle!Next]_phase
  <2> SUFFICES ASSUME PoolInv, HolderInv, [Next]_vars, (PoolInv /\ HolderInv)'
               PROVE  Lifecycle!Next
    OBVIOUS
  <2>1. \A k \in Jobs : Follows(k)
    BY WorkerFollows, MainFollows, OtherFollows DEF Next, Terminated
  <2>2. (phase \in [Jobs -> Lifecycle!Phases] /\ Lifecycle!OneInMain)'
    BY <1>2, PTL
  <2>3. \A j \in Jobs : phase[j] = PhaseOf(j) /\ phase'[j] = PhaseOf(j)'
    BY DEF phase
  <2> QED  BY <2>1, <2>2, <2>3 DEF Lifecycle!Next, Follows
<1> QED  BY <1>1, <1>3, HolderInvariant, PTL DEF Spec, Lifecycle!Spec, LifecycleSpec
=============================================================================
