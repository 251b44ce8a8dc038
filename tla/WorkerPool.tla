----------------------------- MODULE WorkerPool -----------------------------
(***************************************************************************)
(* The thread pool that AUTOMOC and AUTOUIC run their jobs on              *)
(* (Source/cmWorkerPool.cxx): worker threads around a queue with fences,   *)
(* and a libuv loop thread that starts them, runs child processes for them *)
(* and joins them.                                                         *)
(*                                                                         *)
(* The members of cmWorkerPoolInternal that `Mutex` guards are one record  *)
(* `pool`.  Everything a thread does from one lock of the mutex to the     *)
(* next unlock or wait is one action.  A thread in a wait is in `asleep`   *)
(* until a notification, or a spurious wakeup, takes it out; it goes on    *)
(* in an action of its own, when it has the mutex again.                   *)
(***************************************************************************)
EXTENDS Naturals, Sequences, FiniteSets

CONSTANTS
  ThreadCount,  \* worker threads; SetThreadCount makes it at least 1
  MaxJobs,      \* bound: jobs pushed
  MaxProcesses  \* bound: child processes run

ASSUME PoolAssumption ==
  /\ ThreadCount \in Nat \ {0}
  /\ MaxJobs \in Nat
  /\ MaxProcesses \in Nat

Workers == 1 .. ThreadCount

VARIABLES
  loop,       \* what the thread that called Process() is doing
  endRequest, \* UVRequestEnd was sent and is not handled yet
  pool,       \* see Pool
  at,         \* where each worker thread is: see Places
  asleep,     \* the workers in a condition variable's wait
  job,        \* each worker's jobHandle
  pushed,     \* how many jobs were pushed: they are numbered in that order
  fences,     \* the fence jobs among them
  request,    \* the workers whose Proc_.Request was sent and not handled
  rop,        \* each worker's Proc_.ROP
  open,       \* the libuv handles of each worker's child process
  processes   \* how many child processes were asked for

queueVars == <<loop, endRequest, pool, job, pushed, fences>>
procVars == <<request, rop, open, processes>>
vars == <<queueVars, at, asleep, procVars>>

Pool == [Aborting: BOOLEAN, FenceProcessing: BOOLEAN, WorkersRunning: Nat,
         WorkersIdle: Nat, JobsProcessing: Nat, Queue: Seq(1 .. MaxJobs)]

Loops == {"setup",    \* Process() is not called yet
          "begin",    \* UVSlotBegin starts the threads
          "run",      \* the loop waits for events
          "join",     \* UVSlotEnd waits for the threads
          "returned"} \* Process() is over

Processing == {"work",   \* inside the job's Process()
               "send",   \* inside RunProcess, before Request.send()
               "await"}  \* inside RunProcess, until ROP is gone

Places == {"unborn",  \* the thread does not exist yet
           "born",    \* it did not lock the mutex yet
           "idle",    \* in Condition.wait, counted by WorkersIdle
           "blocked", \* in Condition.wait, because of a fence
           "fence",   \* in ConditionFence.wait, with a fence job in hand
           "done"}    \* the thread ended
          \cup Processing

Handles == {"process", "stdout", "stderr"}

Init ==
  /\ loop = "setup"
  /\ endRequest = FALSE
  /\ pool = [Aborting |-> FALSE, FenceProcessing |-> FALSE,
             WorkersRunning |-> 0, WorkersIdle |-> 0, JobsProcessing |-> 0,
             Queue |-> <<>>]
  /\ at = [w \in Workers |-> "unborn"]
  /\ asleep = {}
  /\ job = [w \in Workers |-> 0]
  /\ pushed = 0
  /\ fences = {}
  /\ request = {}
  /\ rop = [w \in Workers |-> "none"]
  /\ open = [w \in Workers |-> {}]
  /\ processes = 0

-----------------------------------------------------------------------------
(* The condition variables.                                                *)

OnCondition == {v \in asleep : at[v] \in {"idle", "blocked"}}

OnConditionFence == {v \in asleep : at[v] = "fence"}

\* The sets of sleepers that notify_one may leave.
AfterNotifyOne ==
  IF OnCondition = {} THEN {asleep}
  ELSE {asleep \ {v} : v \in OnCondition}

SpuriousWakeup(w) ==
  /\ w \in asleep
  /\ asleep' = asleep \ {w}
  /\ UNCHANGED <<queueVars, at, procVars>>

-----------------------------------------------------------------------------
(* PushJob and Abort, called by a job or before Process().                 *)

\* A job that comes after Abort() is refused.
PushJob ==
  /\ ~pool.Aborting
  /\ pushed < MaxJobs
  /\ pushed' = pushed + 1
  /\ fences' \in {fences, fences \cup {pushed'}}
  /\ pool' = [pool EXCEPT !.Queue = Append(@, pushed')]
  /\ IF pool.WorkersIdle # 0 THEN asleep' \in AfterNotifyOne
     ELSE UNCHANGED asleep
  /\ UNCHANGED <<loop, endRequest, at, job, procVars>>

\* Mutant: the idle workers are not told.
Abort_Silent ==
  /\ ~pool.Aborting
  /\ pool' = [pool EXCEPT !.Aborting = TRUE, !.Queue = <<>>]
  /\ UNCHANGED asleep
  /\ UNCHANGED <<loop, endRequest, at, job, pushed, fences, procVars>>

Abort ==
  /\ ~pool.Aborting
  /\ pool' = [pool EXCEPT !.Aborting = TRUE, !.Queue = <<>>]
  /\ asleep' = asleep \ OnCondition
  /\ UNCHANGED <<loop, endRequest, at, job, pushed, fences, procVars>>

UserPushes == loop = "setup" /\ PushJob

JobPushes(w) == at[w] = "work" /\ PushJob

JobAborts(w) == at[w] = "work" /\ Abort

-----------------------------------------------------------------------------
(* The main loop of a worker thread, from the moment the thread has the    *)
(* mutex, with the members `p` and the sleepers `z`.                       *)

\* Mutant: every worker that ends asks the loop to join.
Leave_NotLast(w, p, z) ==
  /\ pool' = [p EXCEPT !.WorkersRunning = @ - 1]
  /\ endRequest' = TRUE
  /\ at' = [at EXCEPT ![w] = "done"]
  /\ asleep' = z
  /\ job' = [job EXCEPT ![w] = 0]

Leave(w, p, z) ==
  /\ pool' = [p EXCEPT !.WorkersRunning = @ - 1]
  /\ endRequest' = (endRequest \/ p.WorkersRunning = 1)
  /\ at' = [at EXCEPT ![w] = "done"]
  /\ asleep' = z
  /\ job' = [job EXCEPT ![w] = 0]

WaitIdle(w, p, z) ==
  /\ pool' = [p EXCEPT !.WorkersIdle = @ + 1]
  /\ at' = [at EXCEPT ![w] = "idle"]
  /\ asleep' = z \cup {w}
  /\ job' = [job EXCEPT ![w] = 0]
  /\ UNCHANGED endRequest

WaitForFence(w, p, z) ==
  /\ pool' = p
  /\ at' = [at EXCEPT ![w] = "blocked"]
  /\ asleep' = z \cup {w}
  /\ job' = [job EXCEPT ![w] = 0]
  /\ UNCHANGED endRequest

\* Mutant: the fence job does not wait for the jobs before it.
PopJob_NoWait(w, p, z) ==
  LET j == Head(p.Queue)
  IN  /\ job' = [job EXCEPT ![w] = j]
      /\ pool' = [p EXCEPT !.Queue = Tail(@), !.FenceProcessing = j \in fences,
                           !.JobsProcessing = @ + 1]
      /\ at' = [at EXCEPT ![w] = "work"]
      /\ asleep' = z
      /\ UNCHANGED endRequest

PopJob(w, p, z) ==
  LET j == Head(p.Queue)
      q == [p EXCEPT !.Queue = Tail(@), !.FenceProcessing = j \in fences]
      mustWait == j \in fences /\ p.JobsProcessing # 0
  IN  /\ job' = [job EXCEPT ![w] = j]
      /\ pool' = IF mustWait THEN q ELSE [q EXCEPT !.JobsProcessing = @ + 1]
      /\ at' = [at EXCEPT ![w] = IF mustWait THEN "fence" ELSE "work"]
      /\ asleep' = IF mustWait THEN z \cup {w} ELSE z
      /\ UNCHANGED endRequest

Turn(w, p, z) ==
  /\ \/ p.Aborting /\ Leave(w, p, z)
     \/ ~p.Aborting /\ p.Queue = <<>> /\ WaitIdle(w, p, z)
     \/ ~p.Aborting /\ p.Queue # <<>> /\ p.FenceProcessing
        /\ WaitForFence(w, p, z)
     \/ ~p.Aborting /\ p.Queue # <<>> /\ ~p.FenceProcessing
        /\ PopJob(w, p, z)
  /\ UNCHANGED <<loop, pushed, fences, procVars>>

WorkerStarts(w) ==
  /\ at[w] = "born"
  /\ Turn(w, [pool EXCEPT !.WorkersRunning = @ + 1], asleep)

WorkerWakes(w) ==
  /\ at[w] = "idle" /\ w \notin asleep
  /\ Turn(w, [pool EXCEPT !.WorkersIdle = @ - 1], asleep)

BlockedWakes(w) ==
  /\ at[w] = "blocked" /\ w \notin asleep
  /\ Turn(w, pool, asleep)

\* Back from ConditionFence.wait, with the fence job in hand.
FenceWakes(w) ==
  /\ at[w] = "fence" /\ w \notin asleep
  /\ \/ /\ pool.Aborting
        /\ Leave(w, [pool EXCEPT !.FenceProcessing = FALSE],
                 asleep \ OnCondition)
     \/ /\ ~pool.Aborting
        /\ pool.JobsProcessing # 0
        /\ asleep' = asleep \cup {w}
        /\ UNCHANGED <<pool, endRequest, at, job>>
     \/ /\ ~pool.Aborting
        /\ pool.JobsProcessing = 0
        /\ pool' = [pool EXCEPT !.JobsProcessing = @ + 1]
        /\ at' = [at EXCEPT ![w] = "work"]
        /\ UNCHANGED <<endRequest, asleep, job>>
  /\ UNCHANGED <<loop, pushed, fences, procVars>>

\* The members after the job of w.
AfterJob(w) ==
  [pool EXCEPT !.JobsProcessing = @ - 1,
               !.FenceProcessing = @ /\ job[w] \notin fences]

\* Mutants: the worker that holds a fence job, or the ones that wait behind
\* a fence, are not told.
SleepersAfterJob_FenceStays(w) ==
  asleep \ (IF job[w] \in fences THEN OnCondition ELSE {})
SleepersAfterJob_Silent(w) ==
  LET p == AfterJob(w)
  IN  asleep \ (IF p.FenceProcessing /\ p.JobsProcessing = 0
                THEN OnConditionFence ELSE {})

\* Who sleeps on after the notifications that follow the job of w.
SleepersAfterJob(w) ==
  LET p == AfterJob(w)
  IN  asleep \ ((IF job[w] \in fences THEN OnCondition ELSE {}) \cup
                (IF p.FenceProcessing /\ p.JobsProcessing = 0
                 THEN OnConditionFence ELSE {}))

JobEnds(w) ==
  /\ at[w] = "work"
  /\ Turn(w, AfterJob(w), SleepersAfterJob(w))

-----------------------------------------------------------------------------
(* Child processes: RunProcess on the worker's thread, the callbacks on    *)
(* the loop's.                                                             *)

\* RunProcess: the process object is created under Proc_.Mutex,
JobRunsProcess(w) ==
  /\ at[w] = "work"
  /\ processes < MaxProcesses
  /\ processes' = processes + 1
  /\ rop' = [rop EXCEPT ![w] = "new"]
  /\ at' = [at EXCEPT ![w] = "send"]
  /\ UNCHANGED <<queueVars, asleep, request, open>>

\* then the loop is asked to start it,
SendRequest(w) ==
  /\ at[w] = "send"
  /\ request' = request \cup {w}
  /\ at' = [at EXCEPT ![w] = "await"]
  /\ UNCHANGED <<queueVars, asleep, rop, open, processes>>

\* and the worker waits on Proc_.Condition until the object is gone.
AwaitProcess(w) ==
  /\ at[w] = "await" /\ w \notin asleep
  /\ IF rop[w] # "none"
     THEN asleep' = asleep \cup {w} /\ UNCHANGED at
     ELSE at' = [at EXCEPT ![w] = "work"] /\ UNCHANGED asleep
  /\ UNCHANGED <<queueVars, procVars>>

\* UVProcessFinished: ROP is destroyed and the worker notified.
Finished(w) ==
  /\ rop' = [rop EXCEPT ![w] = "none"]
  /\ asleep' = IF at[w] = "await" THEN asleep \ {w} ELSE asleep

\* start() succeeds, or closes what it opened and gives up.
UVProcessStart(w) ==
  /\ loop = "run"
  /\ w \in request
  /\ request' = request \ {w}
  /\ IF rop[w] = "new"
     THEN \/ /\ rop' = [rop EXCEPT ![w] = "started"]
             /\ open' = [open EXCEPT ![w] = Handles]
             /\ UNCHANGED asleep
          \/ Finished(w) /\ UNCHANGED open
     ELSE UNCHANGED <<rop, open, asleep>>
  /\ UNCHANGED <<queueVars, at, processes>>

\* Mutant: the stderr pipe is not asked about.
AllClosed_NoStderr(handles) == handles \subseteq {"stderr"}

\* UVTryFinish asks whether the process ended and both pipes are closed.
AllClosed(handles) == handles = {}

\* UVExit, UVPipeOutEnd or UVPipeErrEnd: in any order.
HandleCloses(w, h) ==
  /\ loop = "run"
  /\ h \in open[w]
  /\ open' = [open EXCEPT ![w] = @ \ {h}]
  /\ IF AllClosed(open[w] \ {h}) THEN Finished(w) ELSE UNCHANGED <<rop, asleep>>
  /\ UNCHANGED <<queueVars, at, request, processes>>

-----------------------------------------------------------------------------
(* The loop thread.                                                        *)

Process ==
  /\ loop = "setup"
  /\ loop' = "begin"
  /\ pool' = [pool EXCEPT !.Aborting = FALSE]
  /\ UNCHANGED <<endRequest, at, asleep, job, pushed, fences, procVars>>

\* UVSlotBegin starts the threads one after the other; the first ones may be
\* at work, or even done, before the last one exists.
StartThread(w) ==
  /\ loop = "begin"
  /\ at[w] = "unborn"
  /\ \A v \in Workers : v < w => at[v] # "unborn"
  /\ at' = [at EXCEPT ![w] = "born"]
  /\ loop' = IF w = ThreadCount THEN "run" ELSE "begin"
  /\ UNCHANGED <<endRequest, pool, asleep, job, pushed, fences, procVars>>

\* UVSlotEnd blocks the loop thread until every worker thread has ended.
UVSlotEnd ==
  /\ loop = "run"
  /\ endRequest
  /\ endRequest' = FALSE
  /\ loop' = "join"
  /\ UNCHANGED <<pool, at, asleep, job, pushed, fences, procVars>>

ProcessReturns ==
  /\ loop = "join"
  /\ \A w \in Workers : at[w] = "done"
  /\ loop' = "returned"
  /\ endRequest' = FALSE
  /\ pool' = [pool EXCEPT !.Aborting = FALSE]
  /\ UNCHANGED <<at, asleep, job, pushed, fences, procVars>>

-----------------------------------------------------------------------------

WorkerStep(w) ==
  \/ WorkerStarts(w)
  \/ WorkerWakes(w)
  \/ BlockedWakes(w)
  \/ FenceWakes(w)
  \/ JobEnds(w)
  \/ SendRequest(w)
  \/ AwaitProcess(w)

LoopStep(w) ==
  \/ StartThread(w)
  \/ UVProcessStart(w)
  \/ \E h \in Handles : HandleCloses(w, h)

JobStep(w) ==
  \/ JobPushes(w)
  \/ JobAborts(w)
  \/ JobRunsProcess(w)

Next ==
  \/ UserPushes
  \/ Process
  \/ UVSlotEnd
  \/ ProcessReturns
  \/ \E w \in Workers :
       \/ WorkerStep(w)
       \/ LoopStep(w)
       \/ JobStep(w)
       \/ SpuriousWakeup(w)

Spec == Init /\ [][Next]_vars

\* Every thread that can run runs, every job comes to its end and every
\* child process exits.  No job has to push, to abort or to run a process,
\* and no thread can count on a spurious wakeup.
FairSpec ==
  /\ Spec
  /\ WF_vars(Process)
  /\ WF_vars(UVSlotEnd)
  /\ WF_vars(ProcessReturns)
  /\ \A w \in Workers : WF_vars(WorkerStep(w)) /\ WF_vars(LoopStep(w))
-----------------------------------------------------------------------------
(* The pool implements JobQueue.                                           *)

\* The fence job that a worker has popped and keeps until it may process it.
Held ==
  IF \E w \in Workers : at[w] = "fence"
  THEN <<job[CHOOSE w \in Workers : at[w] = "fence"]>>
  ELSE <<>>

Closed == pool.Aborting \/ loop = "returned"

Abstract == INSTANCE JobQueue WITH
  waiting <- IF Closed THEN <<>> ELSE Held \o pool.Queue,
  doing <- [w \in Workers |-> IF at[w] \in Processing THEN job[w] ELSE 0],
  closed <- Closed

-----------------------------------------------------------------------------
(* Properties.                                                             *)

\* The members of the pool, the places of the threads and the process
\* objects have their types.
TypeOK ==
  /\ loop \in Loops
  /\ endRequest \in BOOLEAN
  /\ pool \in Pool
  /\ at \in [Workers -> Places]
  /\ asleep \subseteq Workers
  /\ job \in [Workers -> 0 .. MaxJobs]
  /\ pushed \in 0 .. MaxJobs
  /\ fences \subseteq 1 .. pushed
  /\ request \subseteq Workers
  /\ rop \in [Workers -> {"none", "new", "started"}]
  /\ open \in [Workers -> SUBSET Handles]
  /\ processes \in 0 .. MaxProcesses

\* The comment on IsFence(): jobs are processed in the order of the queue,
\* each once and by one worker, and a fence job is processed alone, after
\* the jobs before it and before the jobs after it; Abort() drops the rest.
IsJobQueue == Abstract!Spec

\* A job at the front of the queue, or a fence job that a
\* worker has popped, is processed in the end or dropped by Abort().
NoJobStranded == Abstract!NoJobStranded

\* No lost wakeup: while a worker sleeps on Condition and no fence is in the
\* way, there are at least as many workers on their way to the queue as there
\* are jobs in it, although the notify_one of PushJob may go to a worker that
\* has to sleep again and WorkersIdle counts workers that are awake already.
NoWorkerForgotten ==
  (~pool.Aborting /\ ~pool.FenceProcessing /\ OnCondition # {}) =>
    Len(pool.Queue) <=
      Cardinality({v \in Workers \ asleep :
                     at[v] \in {"born", "idle", "blocked"}})

\* When the loop thread joins the workers, which keeps it from serving
\* UVProcessStart and the callbacks of child processes, no worker is inside
\* a job that could wait for them, and none will take up one.
JoinIsSafe ==
  loop \in {"join", "returned"} =>
    /\ \A w \in Workers : at[w] \in {"born", "done"} /\ open[w] = {}
    /\ pool.Queue = <<>>
    /\ loop = "join" => pool.Aborting

\* A libuv callback of a child process finds its cmUVReadOnlyProcess: the
\* object lives as long as one of its handles is open, and RunProcess, whose
\* caller owns the result it writes to, does not return before.
ObjectOutlivesHandles ==
  \A w \in Workers :
    /\ open[w] # {} => rop[w] = "started"
    /\ rop[w] # "none" => at[w] \in {"send", "await"}

\* Process() returns once a job has called Abort(), whatever fence, idle
\* worker or child process was being waited for.
Returns == pool.Aborting ~> loop = "returned"
=============================================================================
