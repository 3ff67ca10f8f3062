------------------------------- MODULE JobQueue -------------------------------
(***************************************************************************)
(* The background jobs: SchedulerService adds one repeatable job per sweep *)
(* to the one queue 'jobs', on which every processor class starts a worker *)
(* of its own.  A worker takes whatever job is next; process() returns at  *)
(* once when the name is not its own, which completes the job.             *)
(*                                                                         *)
(* The queue itself is BullMQ on Redis (external): a waiting list, at most *)
(* one waiting occurrence of a repeatable job, and a job that was being    *)
(* processed when the process died is put back.                            *)
(***************************************************************************)
EXTENDS Sequences, Naturals, SequencesExt

CONSTANTS
    Jobs,        \* job names; the processor of a job has the same name
    NULL,
    MaxCrashes   \* bound: restarts of the process

ASSUME JobQueueAssumption == NULL \notin Jobs /\ MaxCrashes \in Nat

VARIABLES
    waiting,   \* the queue, oldest first
    busy,      \* per worker, the job it is processing or NULL
    overdue,   \* jobs that have been due since their sweep last ran to its end
    crashes

vars == <<waiting, busy, overdue, crashes>>

Processing == {busy[w] : w \in Jobs} \ {NULL}
Pending(j) == j \in ToSet(waiting) \cup Processing

Init ==
    /\ waiting = << >>
    /\ busy = [w \in Jobs |-> NULL]
    /\ overdue = {}
    /\ crashes = 0

\* The cron pattern of a job comes round.
Due(j) ==
    /\ ~Pending(j)
    /\ waiting' = Append(waiting, j)
    /\ overdue' = overdue \cup {j}
    /\ UNCHANGED <<busy, crashes>>

\* An idle worker takes the next job, whatever its name.
Take(w) ==
    /\ busy[w] = NULL
    /\ waiting # << >>
    /\ busy' = [busy EXCEPT ![w] = Head(waiting)]
    /\ waiting' = Tail(waiting)
    /\ UNCHANGED <<overdue, crashes>>

\* Fault: a job of another worker is put back.
ProcessOrPutBack(w) ==
    /\ busy[w] # NULL
    /\ overdue' = IF busy[w] = w THEN overdue \ {w} ELSE overdue
    /\ waiting' = IF busy[w] = w THEN waiting ELSE Append(waiting, busy[w])
    /\ busy' = [busy EXCEPT ![w] = NULL]
    /\ UNCHANGED crashes

\* process(): the sweep if the job is the worker's own, nothing otherwise; the
\* job is completed in both cases.
Process(w) ==
    /\ busy[w] # NULL
    /\ overdue' = IF busy[w] = w THEN overdue \ {w} ELSE overdue
    /\ busy' = [busy EXCEPT ![w] = NULL]
    /\ UNCHANGED <<waiting, crashes>>

\* The process dies: the jobs in progress are found stalled and wait again.
Crash ==
    /\ crashes < MaxCrashes
    /\ crashes' = crashes + 1
    /\ waiting' = SetToSeq(Processing) \o waiting
    /\ busy' = [w \in Jobs |-> NULL]
    /\ UNCHANGED overdue

Next == Crash \/ \E j \in Jobs : Due(j) \/ Take(j) \/ Process(j)

Spec == Init /\ [][Next]_vars

\* Cron comes round, every waiting job is taken by some worker, and every
\* worker ends what it has begun.
FairSpec ==
    /\ Spec
    /\ \A j \in Jobs : WF_waiting(Due(j)) /\ WF_busy(Process(j))
    /\ WF_waiting(\E w \in Jobs : Take(w))
-------------------------------------------------------------------------------
(* Properties.                                                              *)

\* The queue drains: a job that is due is completed, by whichever worker.
QueueDrains == \A j \in Jobs : Pending(j) ~> ~Pending(j)

\* "Nightly - recomputes every policy's status": a sweep that is due runs.
SweepsRun == \A j \in Jobs : j \in overdue ~> j \notin overdue
===============================================================================
