----------------------------- MODULE ThreadPool -----------------------------
(***************************************************************************)
(* CThreadPool (src/src/Threads.cpp): worker threads take jobs from a list *)
(* under one mutex, sleep on m_cond, and hand finished jobs to the main    *)
(* thread through a pipe.  The main thread adds jobs, finishes the jobs it *)
(* reads from the pipe, cancels sets of jobs and at exit destroys the pool.*)
(*                                                                         *)
(* A section of code that holds m_mutex from lock to unlock or to a wait   *)
(* is one action.  The one exception is the marking loop of cancelJobs,    *)
(* which takes an action per job and keeps the workers out (main =         *)
(* "marking") until it ends.  A waiting thread that is notified, or wakes  *)
(* spuriously, is "woken" until it gets the mutex back.                    *)
(***************************************************************************)
EXTENDS Naturals, Sequences, FiniteSets

CONSTANTS Threads,    \* identities of worker threads, reused after a thread exits
          Jobs,       \* addresses of CJob objects, reused after a delete
          Endless,    \* the jobs whose runThread() returns only once wasCancelled()
          MaxIdle,    \* MAX_IDLE_THREADS
          MaxTotal,   \* MAX_TOTAL_THREADS
          NoJob

ASSUME ThreadsAssumption == IsFiniteSet(Threads) /\ Cardinality(Threads) >= MaxTotal
ASSUME JobsAssumption == Endless \subseteq Jobs /\ NoJob \notin Jobs
ASSUME LimitsAssumption == MaxIdle \in Nat \ {0} /\ MaxTotal \in Nat \ {0}

VARIABLES pc,             \* what each worker thread is doing
          work,           \* the job a worker is running
          m_eState,       \* state of each job, "none" when there is no such object
          m_jobs,         \* list of pending jobs
          pipe,           \* m_iJobPipe: pointers written and not yet read
          m_num_threads,
          m_num_idle,
          m_done,
          main,           \* what the main thread is doing
          finishing,      \* the job whose runMain() the main thread is in
          todo,           \* the jobs that the marking loop of cancelJobs has left
          wait, finished, deleteLater   \* its local sets

workers == <<pc, work, m_num_threads, m_num_idle>>
cancelVars == <<todo, wait, finished, deleteLater>>
vars == <<pc, work, m_eState, m_jobs, pipe, m_num_threads, m_num_idle, m_done,
          main, finishing, todo, wait, finished, deleteLater>>

EJobState == {"READY", "RUNNING", "DONE", "CANCELLED"}
ThreadPC == {"off", "starting", "waiting", "woken", "running"}
MainPC == {"loop", "marking", "waiting", "woken", "draining",
           "exitWaiting", "exitWoken", "dead"}

\* Thread t goes on to p.
Goto(t, p) == pc' = [pc EXCEPT ![t] = p]

In(p) == {t \in Threads : pc[t] = p}
IdleThreads == {t \in Threads : pc[t] \in {"waiting", "woken"}}
LiveThreads == {t \in Threads : pc[t] # "off"}
RemoveIndex(s, i) == SubSeq(s, 1, i - 1) \o SubSeq(s, i + 1, Len(s))

Init == /\ pc = [t \in Threads |-> "off"]
        /\ work = [t \in Threads |-> NoJob]
        /\ m_eState = [j \in Jobs |-> "none"]
        /\ m_jobs = <<>>
        /\ pipe = <<>>
        /\ m_num_threads = 0
        /\ m_num_idle = 0
        /\ m_done = FALSE
        /\ main = "loop"
        /\ finishing = NoJob
        /\ todo = {} /\ wait = {} /\ finished = {} /\ deleteLater = {}
-----------------------------------------------------------------------------
(* Worker threads *)

\* Every worker action begins by locking m_mutex.
MutexFree == main # "marking"

\* threadNeeded(), with m_num_idle = idle.
ThreadNeeded(idle) == ~(idle > MaxIdle) /\ ~m_done

\* Slip: m_exit_cond is signalled when one thread is left.
ExitNotifiedEarly(n, mn) ==
  IF n = 1 /\ m_done /\ mn = "exitWaiting" THEN "exitWoken" ELSE mn

\* The main thread, found at mn, after a thread exited that leaves n threads:
\* the last one signals m_exit_cond.
ExitNotified(n, mn) ==
  IF n = 0 /\ m_done /\ mn = "exitWaiting" THEN "exitWoken" ELSE mn

\* The body of threadFunc's loop, up to the next wait, unlock or return, for
\* thread t, which finds m_num_idle = idle, the job states st and the main
\* thread at mn.  The check after the inner loop ends the thread even when jobs
\* are pending.
Loop(t, idle, st, mn) ==
  \/ /\ ~ThreadNeeded(idle)
     /\ Goto(t, "off")
     /\ work' = [work EXCEPT ![t] = NoJob]
     /\ m_num_threads' = m_num_threads - 1
     /\ m_num_idle' = idle - 1
     /\ m_eState' = st
     /\ main' = ExitNotified(m_num_threads - 1, mn)
     /\ UNCHANGED m_jobs
  \/ /\ ThreadNeeded(idle)
     /\ m_jobs = <<>>
     /\ Goto(t, "waiting")
     /\ work' = [work EXCEPT ![t] = NoJob]
     /\ m_num_idle' = idle
     /\ m_eState' = st
     /\ main' = mn
     /\ UNCHANGED <<m_jobs, m_num_threads>>
  \/ /\ ThreadNeeded(idle)
     /\ m_jobs # <<>>
     /\ Goto(t, "running")
     /\ work' = [work EXCEPT ![t] = Head(m_jobs)]
     /\ m_jobs' = Tail(m_jobs)
     /\ m_num_idle' = idle - 1
     /\ m_eState' = [st EXCEPT ![Head(m_jobs)] = "RUNNING"]
     /\ main' = mn
     /\ UNCHANGED m_num_threads

\* Slip: a new thread is not counted as idle before it looks for a job.
ThreadStartUncounted(t) ==
  /\ pc[t] = "starting"
  /\ MutexFree
  /\ Loop(t, m_num_idle, m_eState, main)
  /\ UNCHANGED <<pipe, m_done, finishing, cancelVars>>

\* A thread spawned by addJob gets the mutex for the first time.
ThreadStart(t) ==
  /\ pc[t] = "starting"
  /\ MutexFree
  /\ Loop(t, m_num_idle + 1, m_eState, main)
  /\ UNCHANGED <<pipe, m_done, finishing, cancelVars>>

\* m_cond.wait() returns.
ThreadWake(t) ==
  /\ pc[t] = "woken"
  /\ MutexFree
  /\ Loop(t, m_num_idle, m_eState, main)
  /\ UNCHANGED <<pipe, m_done, finishing, cancelVars>>

\* wasCancelled()
WasCancelled(j) == m_eState[j] = "CANCELLED"

\* Slip: jobDone does not signal m_cancellationCond.
CancellationUnnotified(j) == main

\* The main thread after jobDone(j) signalled m_cancellationCond.
CancellationNotified(j) ==
  IF WasCancelled(j) /\ main = "waiting" THEN "woken" ELSE main

\* Slip: jobDone writes a cancelled job to the pipe as well.
JobDoneAlwaysPiped(t) ==
  LET j == work[t] IN
  /\ pc[t] = "running"
  /\ MutexFree
  /\ j \in Endless => WasCancelled(j)
  /\ pipe' = Append(pipe, j)
  /\ Loop(t, m_num_idle + 1, [m_eState EXCEPT ![j] = "DONE"], CancellationNotified(j))
  /\ UNCHANGED <<m_done, finishing, cancelVars>>

\* runThread() has returned: jobDone() and the next turn of the loop.  The
\* pointer of a job that was not cancelled is written to the pipe.
JobDone(t) ==
  LET j == work[t] IN
  /\ pc[t] = "running"
  /\ MutexFree
  /\ j \in Endless => WasCancelled(j)
  /\ pipe' = IF WasCancelled(j) THEN pipe ELSE Append(pipe, j)
  /\ Loop(t, m_num_idle + 1, [m_eState EXCEPT ![j] = "DONE"], CancellationNotified(j))
  /\ UNCHANGED <<m_done, finishing, cancelVars>>

\* m_cond.wait() may return without a notification.
SpuriousWake(t) ==
  /\ pc[t] = "waiting"
  /\ Goto(t, "woken")
  /\ UNCHANGED <<work, m_eState, m_jobs, pipe, m_num_threads, m_num_idle, m_done,
                 main, finishing, cancelVars>>

Worker(t) == ThreadStart(t) \/ ThreadWake(t) \/ JobDone(t)
-----------------------------------------------------------------------------
(* The main thread *)

\* Code outside the pool runs in the main thread from the event loop and from
\* a job's runMain().
MainRuns == main = "loop" \/ finishing # NoJob

\* m_cond.notify_one()
NotifyOne == IF In("waiting") = {} THEN UNCHANGED pc
             ELSE \E t \in In("waiting") : Goto(t, "woken")

\* m_cond.notify_all()
NotifyAll == pc' = [t \in Threads |-> IF pc[t] = "waiting" THEN "woken" ELSE pc[t]]

\* Slip: addJob notifies only when the list was empty.
StartThreadForFirst ==
  \/ m_num_idle > 0 /\ (IF m_jobs = <<>> THEN NotifyOne ELSE UNCHANGED pc)
     /\ UNCHANGED m_num_threads
  \/ m_num_idle = 0 /\ m_num_threads >= MaxTotal /\ UNCHANGED <<pc, m_num_threads>>
  \/ /\ m_num_idle = 0
     /\ m_num_threads < MaxTotal
     /\ m_num_threads' = m_num_threads + 1
     /\ \E t \in In("off") : Goto(t, "starting")

\* Slip: addJob does not count the thread it starts.
StartThreadUncounted ==
  \/ m_num_idle > 0 /\ NotifyOne /\ UNCHANGED m_num_threads
  \/ /\ m_num_idle = 0
     /\ \E t \in In("off") : Goto(t, "starting")
     /\ UNCHANGED m_num_threads

\* Slip: addJob relies on an idle thread without waking it.
StartThreadUnnotified ==
  \/ m_num_idle > 0 /\ UNCHANGED <<pc, m_num_threads>>
  \/ m_num_idle = 0 /\ m_num_threads >= MaxTotal /\ UNCHANGED <<pc, m_num_threads>>
  \/ /\ m_num_idle = 0
     /\ m_num_threads < MaxTotal
     /\ m_num_threads' = m_num_threads + 1
     /\ \E t \in In("off") : Goto(t, "starting")

\* addJob(j): the three outcomes once the job is in the list.
StartThreadFor ==
  \/ m_num_idle > 0 /\ NotifyOne /\ UNCHANGED m_num_threads
  \/ m_num_idle = 0 /\ m_num_threads >= MaxTotal /\ UNCHANGED <<pc, m_num_threads>>
  \/ /\ m_num_idle = 0
     /\ m_num_threads < MaxTotal
     /\ m_num_threads' = m_num_threads + 1
     /\ \E t \in In("off") : Goto(t, "starting")

AddJob(j) ==
  /\ MainRuns
  /\ m_eState[j] = "none"
  /\ m_eState' = [m_eState EXCEPT ![j] = "READY"]
  /\ m_jobs' = Append(m_jobs, j)
  /\ StartThreadFor
  /\ UNCHANGED <<work, pipe, m_num_idle, m_done, main, finishing, cancelVars>>

\* handlePipeReadable(), and the read of cancelJobs' last loop when the job is
\* not one it waits for: getJobFromPipe, then finishJob up to runMain().
ReadPipe ==
  /\ finishing = NoJob
  /\ pipe # <<>>
  /\ main = "loop" \/ (main = "draining" /\ finished # {} /\ Head(pipe) \notin finished)
  /\ pipe' = Tail(pipe)
  /\ finishing' = Head(pipe)
  /\ UNCHANGED <<workers, m_eState, m_jobs, m_done, main, cancelVars>>

\* finishJob: runMain() has returned, the job is deleted.
FinishJob ==
  /\ finishing # NoJob
  /\ m_eState' = [m_eState EXCEPT ![finishing] = "none"]
  /\ finishing' = NoJob
  /\ UNCHANGED <<workers, m_jobs, pipe, m_done, main, cancelVars>>

\* cancelJobs(jobs) is called and takes the mutex.
CancelJobs(jobs) ==
  /\ main = "loop" /\ finishing = NoJob
  /\ jobs # {} /\ \A j \in jobs : m_eState[j] # "none"
  /\ main' = "marking"
  /\ todo' = jobs
  /\ UNCHANGED <<workers, m_eState, m_jobs, pipe, m_done, finishing,
                 wait, finished, deleteLater>>

MarkReady(j) ==
  /\ m_eState[j] = "READY"
  /\ \E i \in DOMAIN m_jobs : m_jobs[i] = j /\ m_jobs' = RemoveIndex(m_jobs, i)
  /\ deleteLater' = deleteLater \cup {j}
  /\ UNCHANGED <<wait, finished>>

MarkRunning(j) ==
  /\ m_eState[j] = "RUNNING"
  /\ wait' = wait \cup {j}
  /\ UNCHANGED <<m_jobs, finished, deleteLater>>

\* Slip: a job that is already done is not looked for in the pipe.
MarkDoneForgotten(j) ==
  /\ m_eState[j] = "DONE"
  /\ UNCHANGED <<m_jobs, wait, finished, deleteLater>>

MarkDone(j) ==
  /\ m_eState[j] = "DONE"
  /\ finished' = finished \cup {j}
  /\ UNCHANGED <<m_jobs, wait, deleteLater>>

\* One turn of the marking loop.
MarkJob(j) ==
  /\ main = "marking" /\ j \in todo
  /\ todo' = todo \ {j}
  /\ MarkReady(j) \/ MarkRunning(j) \/ MarkDone(j)
  /\ m_eState' = [m_eState EXCEPT ![j] = "CANCELLED"]
  /\ UNCHANGED <<workers, pipe, m_done, main, finishing>>

\* Slip: one wakeup is taken for the end of all the jobs waited for.
CollectOnce ==
  /\ (main = "marking" /\ todo = {}) \/ main = "woken"
  /\ m_eState' = [j \in Jobs |-> IF j \in wait THEN "CANCELLED" ELSE m_eState[j]]
  /\ deleteLater' = IF main = "woken" THEN deleteLater \cup wait ELSE deleteLater
  /\ wait' = IF main = "woken" THEN {} ELSE wait
  /\ main' = IF wait = {} \/ main = "woken" THEN "draining" ELSE "waiting"
  /\ UNCHANGED <<workers, m_jobs, pipe, m_done, finishing, todo, finished>>

\* One pass over the jobs waited for, with the mutex: those that are DONE are
\* put back to CANCELLED and will be deleted; the thread waits for the others
\* on m_cancellationCond.
Collect ==
  LET ended == {j \in wait : m_eState[j] # "CANCELLED"} IN
  /\ (main = "marking" /\ todo = {}) \/ main = "woken"
  /\ m_eState' = [j \in Jobs |-> IF j \in ended THEN "CANCELLED" ELSE m_eState[j]]
  /\ deleteLater' = deleteLater \cup ended
  /\ wait' = wait \ ended
  /\ main' = IF wait \ ended = {} THEN "draining" ELSE "waiting"
  /\ UNCHANGED <<workers, m_jobs, pipe, m_done, finishing, todo, finished>>

\* Without the mutex: the read of a job that finished before it was cancelled.
DrainCancelled ==
  /\ main = "draining" /\ finishing = NoJob
  /\ pipe # <<>> /\ Head(pipe) \in finished
  /\ pipe' = Tail(pipe)
  /\ finished' = finished \ {Head(pipe)}
  /\ m_eState' = [m_eState EXCEPT ![Head(pipe)] = "none"]
  /\ UNCHANGED <<workers, m_jobs, m_done, main, finishing, todo, wait, deleteLater>>

\* The last loop of cancelJobs, and its return.
DeleteLater ==
  /\ main = "draining" /\ finishing = NoJob /\ finished = {}
  /\ m_eState' = [j \in Jobs |-> IF j \in deleteLater THEN "none" ELSE m_eState[j]]
  /\ deleteLater' = {}
  /\ main' = "loop"
  /\ UNCHANGED <<workers, m_jobs, pipe, m_done, finishing, todo, wait, finished>>

\* The test of the destructor's loop: all threads are woken while there are any.
ExitLoop == \/ m_num_threads > 0 /\ NotifyAll /\ main' = "exitWaiting"
            \/ m_num_threads = 0 /\ main' = "dead" /\ UNCHANGED pc

\* ~CThreadPool(), at exit: the modules are unloaded by then, and ~CModule has
\* cancelled their jobs.
DestroyPool ==
  /\ main = "loop" /\ finishing = NoJob
  /\ \A j \in Endless : m_eState[j] = "none"
  /\ m_done' = TRUE
  /\ ExitLoop
  /\ UNCHANGED <<work, m_num_threads, m_num_idle, m_eState, m_jobs, pipe,
                 finishing, cancelVars>>

\* m_exit_cond.wait() returns in the destructor.
ExitWake ==
  /\ main = "exitWoken"
  /\ ExitLoop
  /\ UNCHANGED <<work, m_num_threads, m_num_idle, m_eState, m_jobs, pipe, m_done,
                 finishing, cancelVars>>

\* m_cancellationCond.wait() and m_exit_cond.wait() may return by themselves.
SpuriousMainWake ==
  /\ \/ main = "waiting" /\ main' = "woken"
     \/ main = "exitWaiting" /\ main' = "exitWoken"
  /\ UNCHANGED <<workers, m_eState, m_jobs, pipe, m_done, finishing, cancelVars>>

\* The process has ended.
Terminated == main = "dead" /\ UNCHANGED vars

Next == \/ \E t \in Threads : Worker(t) \/ SpuriousWake(t)
        \/ \E j \in Jobs : AddJob(j) \/ MarkJob(j)
        \/ \E jobs \in SUBSET Jobs : CancelJobs(jobs)
        \/ ReadPipe \/ FinishJob \/ Collect \/ DrainCancelled \/ DeleteLater
        \/ DestroyPool \/ ExitWake \/ SpuriousMainWake
        \/ Terminated

Spec == Init /\ [][Next]_vars

\* A thread that asks for the mutex again and again in the end gets it, and
\* runThread() returns; the event loop looks at the pipe in every iteration;
\* the main thread does not stop inside the pool's functions or in runMain().
MainStep == \/ FinishJob \/ (\E j \in Jobs : MarkJob(j)) \/ Collect
            \/ DrainCancelled \/ DeleteLater \/ ExitWake

Fairness == /\ \A t \in Threads : SF_vars(Worker(t))
            /\ SF_vars(ReadPipe)
            /\ WF_vars(MainStep)

FairSpec == Spec /\ Fairness
-----------------------------------------------------------------------------
(* Properties *)

\* Type of the state.  In particular m_num_threads and m_num_idle, decremented in
\* several places, stay natural numbers: the size_t of the code does not wrap.
TypeOK == /\ pc \in [Threads -> ThreadPC]
          /\ work \in [Threads -> Jobs \cup {NoJob}]
          /\ m_eState \in [Jobs -> EJobState \cup {"none"}]
          /\ m_jobs \in Seq(Jobs)
          /\ pipe \in Seq(Jobs)
          /\ m_num_threads \in Nat
          /\ m_num_idle \in Nat
          /\ m_done \in BOOLEAN
          /\ main \in MainPC
          /\ finishing \in Jobs \cup {NoJob}
          /\ todo \in SUBSET Jobs /\ wait \in SUBSET Jobs
          /\ finished \in SUBSET Jobs /\ deleteLater \in SUBSET Jobs

\* The two counters that addJob, threadNeeded and the destructor decide by
\* count the threads they are named for, and stay within the limits: the
\* assertion at the end of threadFunc holds and size_t never wraps.
CountersExact == /\ TypeOK
                 /\ m_num_threads = Cardinality(LiveThreads)
                 /\ m_num_idle = Cardinality(IdleThreads)
                 /\ m_num_threads <= MaxTotal
                 /\ m_num_idle <= MaxIdle

\* A pending job never waits for a wakeup that will not come: while threads
\* sleep on m_cond there are as many woken threads as pending jobs, and until
\* the pool is destroyed some thread will come to the head of threadFunc's loop
\* by itself.  addJob notifies one thread at most, the notification may find no
\* sleeper, and a thread may exit with jobs pending.
NoLostWakeup ==
  /\ In("waiting") # {} => Len(m_jobs) <= Cardinality(In("woken"))
  /\ m_jobs # <<>> /\ ~m_done
       => \E t \in Threads : pc[t] \in {"starting", "woken", "running"}

Injective(s) == \A a, b \in DOMAIN s : s[a] = s[b] => a = b
Occurs(j, s) == \E a \in DOMAIN s : s[a] = j
RunBy(j) == \E t \in Threads : work[t] = j

\* The state of a job tells exactly who holds its address: the queue, one
\* thread, the pipe, a finishJob in progress or cancelJobs.  A deleted job is
\* held by nobody.  So no job is run, finished or deleted twice, no dangling
\* pointer is read from the pipe, and the assertions of cancelJobs hold.
OneHolder ==
  /\ Injective(m_jobs) /\ Injective(pipe)
  /\ \A s, t \in Threads : work[s] = work[t] /\ work[s] # NoJob => s = t
  /\ \A t \in Threads : pc[t] = "running" <=> work[t] # NoJob
  /\ \A j \in Jobs :
       /\ Occurs(j, m_jobs) <=> m_eState[j] = "READY"
       /\ RunBy(j) <=> m_eState[j] = "RUNNING" \/ (m_eState[j] = "CANCELLED" /\ j \in wait)
       /\ Occurs(j, pipe) <=> \/ m_eState[j] = "DONE" /\ j \notin wait /\ j # finishing
                              \/ j \in finished
       /\ m_eState[j] = "CANCELLED" => j \in wait \cup finished \cup deleteLater
       /\ j \in finished \cup deleteLater => m_eState[j] = "CANCELLED"
       /\ j \in wait => m_eState[j] \in {"CANCELLED", "DONE"}
       /\ j \in todo => m_eState[j] \in {"READY", "RUNNING", "DONE"} /\ j \notin wait
       /\ j = finishing => m_eState[j] = "DONE" /\ j \notin wait
  /\ wait \cap finished = {} /\ wait \cap deleteLater = {} /\ finished \cap deleteLater = {}

\* The life of a job as JobLifecycle describes it.
StatePhase == [none |-> "none", READY |-> "queued", RUNNING |-> "running",
               DONE |-> "done", CANCELLED |-> "cancelled"]

PhaseOf(j) ==
  IF j = finishing THEN "inMain"
  ELSE IF j \in wait THEN IF m_eState[j] = "CANCELLED" THEN "stopping" ELSE "cancelled"
  ELSE StatePhase[m_eState[j]]

phase == [j \in Jobs |-> PhaseOf(j)]

Lifecycle == INSTANCE JobLifecycle WITH Jobs <- Jobs, phase <- phase

\* The pool implements JobLifecycle: in particular a job passed to cancelJobs
\* is not run in the main thread, and is not deleted while a thread runs it.
LifecycleSpec == Lifecycle!Spec

\* "cancelJob() should only return after successful cancellation"
\* (test/ThreadTest.cpp): outside cancelJobs no cancelled job is left.
CancelledJobsDeleted ==
  main \notin {"marking", "waiting", "woken", "draining"}
    => /\ \A j \in Jobs : m_eState[j] # "CANCELLED"
       /\ todo = {} /\ wait = {} /\ finished = {} /\ deleteLater = {}

\* A job that was added is in the end deleted, unless the process ends first or
\* a job that runs until it is cancelled keeps a thread.
JobsEnd == \A j \in Jobs :
  m_eState[j] # "none" ~> \/ m_eState[j] = "none" \/ m_done
                          \/ \E e \in Endless : m_eState[e] # "none"

\* cancelJobs returns, also when it waits for a job that runs until cancelled.
CancelReturns == main \in {"marking", "waiting", "woken", "draining"} ~> main = "loop"

\* The destructor of the pool ends: every thread sees m_done and exits.
DestructorReturns == m_done ~> main = "dead"

\* Refuted (see README): a job waits behind a running job only when no thread
\* can be started for it, as the comments in addJob say.
QueuedOnlyAtLimit ==
  m_jobs # <<>> /\ ~m_done /\ In("starting") \cup In("woken") = {}
    => m_num_threads >= MaxTotal
=============================================================================
