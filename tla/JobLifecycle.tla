---------------------------- MODULE JobLifecycle ----------------------------
(***************************************************************************)
(* What CThreadPool promises about each job (the comments on CJob, addJob, *)
(* cancelJobs in src/include/znc/Threads.h), with no threads, queue, pipe  *)
(* or mutex: a job that was added runs once in a thread and then once in   *)
(* the main thread and is deleted; a cancelled job is deleted, never       *)
(* before the thread that runs it has left it, and the main thread does    *)
(* not run it.  The main thread runs one job at a time.                    *)
(***************************************************************************)
CONSTANT Jobs
VARIABLE phase

Phases == {"none", "queued", "running", "done", "inMain", "stopping", "cancelled"}

Edges == {<<"none", "queued">>, <<"queued", "running">>, <<"running", "done">>,
          <<"done", "inMain">>, <<"inMain", "none">>,
          <<"queued", "cancelled">>, <<"running", "stopping">>, <<"done", "cancelled">>,
          <<"stopping", "cancelled">>, <<"cancelled", "none">>}

OneInMain == \A i, j \in Jobs : phase[i] = "inMain" /\ phase[j] = "inMain" => i = j

Init == phase = [j \in Jobs |-> "none"]

\* One critical section may end a job and start the next one.
Next == /\ phase' \in [Jobs -> Phases]
        /\ \A j \in Jobs : phase'[j] # phase[j] => <<phase[j], phase'[j]>> \in Edges
        /\ OneInMain'

Spec == Init /\ [][Next]_phase
=============================================================================
