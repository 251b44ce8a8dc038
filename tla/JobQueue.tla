------------------------------ MODULE JobQueue ------------------------------
(***************************************************************************)
(* What a worker pool promises its users (Source/cmWorkerPool.h): jobs are *)
(* taken from the queue in the order they were pushed, each by one worker; *)
(* a fence job is processed alone, after every job pushed before it and    *)
(* before every job pushed after it; Abort() empties the queue for good.   *)
(*                                                                         *)
(* Jobs are numbered from 1 in the order in which they are pushed.         *)
(***************************************************************************)
EXTENDS Naturals, Sequences

CONSTANTS Workers, MaxJobs

VARIABLES
  waiting, \* the jobs that no worker processes yet, oldest first
  doing,   \* the job each worker processes, 0 for none
  pushed,  \* how many jobs were pushed
  fences,  \* the fence jobs among them
  closed   \* Abort() was called

vars == <<waiting, doing, pushed, fences, closed>>

Init ==
  /\ waiting = <<>>
  /\ doing = [w \in Workers |-> 0]
  /\ pushed = 0
  /\ fences = {}
  /\ closed = FALSE

\* PushJob, before Process() or from inside a job.
Push ==
  /\ ~closed
  /\ pushed < MaxJobs
  /\ pushed' = pushed + 1
  /\ waiting' = Append(waiting, pushed')
  /\ fences' \in {fences, fences \cup {pushed'}}
  /\ UNCHANGED <<doing, closed>>

\* With the workers doing `d`, worker w takes up the oldest job.
Take(d, w) ==
  /\ waiting # <<>>
  /\ d[w] = 0
  /\ \A v \in Workers : d[v] \notin fences
  /\ Head(waiting) \in fences => \A v \in Workers : d[v] = 0
  /\ doing' = [d EXCEPT ![w] = Head(waiting)]
  /\ waiting' = Tail(waiting)

Begin(w) ==
  /\ Take(doing, w)
  /\ UNCHANGED <<pushed, fences, closed>>

\* A worker that is done with a job may take up the next one at once.
End(w) ==
  /\ doing[w] # 0
  /\ LET d == [doing EXCEPT ![w] = 0]
     IN  \/ doing' = d /\ UNCHANGED waiting
         \/ Take(d, w)
  /\ UNCHANGED <<pushed, fences, closed>>

Close ==
  /\ ~closed
  /\ closed' = TRUE
  /\ waiting' = <<>>
  /\ UNCHANGED <<doing, pushed, fences>>

Next ==
  \/ Push
  \/ Close
  \/ \E w \in Workers : Begin(w) \/ End(w)

Spec == Init /\ [][Next]_vars

\* No job is stranded: the oldest one is taken up in the end, or dropped by
\* Abort().
Oldest(n) == waiting # <<>> /\ Head(waiting) = n

NoJobStranded == \A n \in 1 .. MaxJobs : Oldest(n) ~> ~Oldest(n)
=============================================================================
