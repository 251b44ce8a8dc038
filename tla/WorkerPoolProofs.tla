-------------------------- MODULE WorkerPoolProofs --------------------------
(***************************************************************************)
(* The worker pool implements the fence queue that its header promises,    *)
(* for every number of threads, jobs and child processes.                  *)
(*                                                                         *)
(* Most steps of a worker consist of something done with the mutex in hand *)
(* (a thread counts itself, a job is over) and one turn of the main loop.  *)
(* The invariant is therefore stated of a place for each worker that may   *)
(* also be "head", the head of the main loop: the first part of the step   *)
(* leads to such a state, and the turn leads out of it.                    *)
(***************************************************************************)
EXTENDS WorkerPool, FiniteSetTheorems, SequenceTheorems, TLAPS

\* The provers tried on a step that names none.
USE ZenonT(60), SMTT(30)

Running == {"head", "idle", "blocked", "fence"} \cup Processing

Idle == {"idle"}

\* All workers but w stay where they are.
OthersStay(a, b, w) == \A v \in Workers : v # w => b[v] = a[v]

Count(a, P) == Cardinality({v \in Workers : a[v] \in P})

\* The three counters count.
Counted(p, a) ==
  /\ p.JobsProcessing = Count(a, Processing)
  /\ p.WorkersIdle = Count(a, Idle)
  /\ p.WorkersRunning = Count(a, Running)

\* At most one worker has a fence job, FenceProcessing is set as long as one
\* has, and a fence job that is processed is processed alone.
Fenced(p, a, jb, fs) ==
  /\ \A v \in Workers : jb[v] # 0 <=> a[v] \in Processing \cup {"fence"}
  /\ \A v \in Workers : a[v] = "fence" => jb[v] \in fs
  /\ \A v \in Workers : jb[v] \in fs => p.FenceProcessing
  /\ \A u, v \in Workers : jb[u] \in fs /\ jb[v] \in fs => u = v
  /\ \A u, v \in Workers :
       jb[u] \in fs /\ a[u] \in Processing /\ a[v] \in Processing => u = v

\* The loop thread joins the workers only when all of them have ended or are
\* about to.
Closing(p, a, lp, er) ==
  /\ p.Aborting => p.Queue = <<>>
  /\ er \/ lp \in {"join", "returned"} =>
       \A v \in Workers : a[v] \in {"unborn", "born", "head", "done"}
  /\ er \/ lp = "join" => p.Aborting
  /\ lp = "setup" => ~p.Aborting /\ \A v \in Workers : a[v] = "unborn"
  /\ lp \notin {"setup", "begin"} => \A v \in Workers : a[v] # "unborn"
  /\ lp = "returned" => p.Queue = <<>> /\ \A v \in Workers : a[v] = "done"

Good(p, a, jb, lp, er, n, fs) ==
  /\ p \in Pool
  /\ p.Queue \in Seq(1 .. n)
  /\ a \in [Workers -> Places \cup {"head"}]
  /\ jb \in [Workers -> 0 .. n]
  /\ lp \in Loops
  /\ er \in BOOLEAN
  /\ n \in 0 .. MaxJobs
  /\ fs \subseteq 1 .. n
  /\ Counted(p, a)
  /\ Fenced(p, a, jb, fs)
  /\ Closing(p, a, lp, er)

ProcTypes ==
  /\ asleep \subseteq Workers
  /\ request \subseteq Workers
  /\ rop \in [Workers -> {"none", "new", "started"}]
  /\ open \in [Workers -> SUBSET Handles]
  /\ processes \in 0 .. MaxProcesses

\* The inductive invariant.
IInv ==
  /\ Good(pool, at, job, loop, endRequest, pushed, fences)
  /\ at \in [Workers -> Places]
  /\ ProcTypes
  /\ ObjectOutlivesHandles

-----------------------------------------------------------------------------
(* Counting.                                                               *)

\* The workers are a finite set.
LEMMA WorkersFinite == IsFiniteSet(Workers)
BY PoolAssumption, FS_Interval, SMTT(30) DEF Workers

\* How a count changes when only worker w moves.
LEMMA CountMoves ==
  ASSUME NEW a, NEW b, NEW w \in Workers, NEW P,
         OthersStay(a, b, w)
  PROVE  /\ Count(a, P) \in Nat
         /\ b[w] \in P /\ a[w] \notin P => Count(b, P) = Count(a, P) + 1
         /\ b[w] \notin P /\ a[w] \in P => /\ Count(a, P) > 0
                                           /\ Count(b, P) = Count(a, P) - 1
         /\ (b[w] \in P <=> a[w] \in P) => Count(b, P) = Count(a, P)
<1> DEFINE A == {v \in Workers : a[v] \in P}
           B == {v \in Workers : b[v] \in P}
<1>1. IsFiniteSet(A) /\ IsFiniteSet(B)
  BY WorkersFinite, FS_Subset
<1>2. Cardinality(A) \in Nat /\ Cardinality(B) \in Nat
  BY <1>1, FS_CardinalityType
<1>3. CASE b[w] \in P /\ a[w] \notin P
  <2>1. B = A \cup {w} /\ w \notin A
    BY <1>3 DEF OthersStay
  <2>2. Cardinality(B) = Cardinality(A) + 1
    BY <2>1, <1>1, FS_AddElement
  <2> QED BY <2>2, <1>3, <1>2 DEF Count
<1>4. CASE b[w] \notin P /\ a[w] \in P
  <2>1. B = A \ {w} /\ w \in A
    BY <1>4 DEF OthersStay
  <2>2. Cardinality(B) = Cardinality(A) - 1
    BY <2>1, <1>1, FS_RemoveElement
  <2> QED BY <2>2, <1>4, <1>2, SMTT(30) DEF Count
<1>5. CASE b[w] \in P <=> a[w] \in P
  <2>1. B = A
    BY <1>5 DEF OthersStay
  <2> QED BY <2>1, <1>5, <1>2 DEF Count
<1> QED BY <1>3, <1>4, <1>5

\* Which places each counter counts.
LEMMA Kinds ==
  /\ \A x \in {"head", "blocked", "fence"} :
       x \in Running /\ x \notin Idle /\ x \notin Processing
  /\ "idle" \in Running /\ "idle" \in Idle /\ "idle" \notin Processing
  /\ \A x \in Processing : x \in Running /\ x \notin Idle
  /\ \A x \in {"unborn", "born", "done"} :
       x \notin Running /\ x \notin Idle /\ x \notin Processing
  /\ "work" \in Processing /\ "send" \in Processing /\ "await" \in Processing
BY DEF Running, Idle, Processing

\* What a count of zero or one says.
LEMMA CountFew ==
  ASSUME NEW a, NEW P, NEW w \in Workers
  PROVE  /\ Count(a, P) = 0 => a[w] \notin P
         /\ a[w] \in P /\ Count(a, P) = 1 =>
              \A v \in Workers : a[v] \in P => v = w
<1> DEFINE A == {v \in Workers : a[v] \in P}
<1>1. IsFiniteSet(A)
  BY WorkersFinite, FS_Subset
<1>2. Cardinality(A) = 0 => A = {}
  BY <1>1, FS_EmptySet
<1>3. a[w] \in P /\ Cardinality(A) = 1 => A \ {w} = {}
  <2> SUFFICES ASSUME a[w] \in P, Cardinality(A) = 1
               PROVE  A \ {w} = {}
    OBVIOUS
  <2>1. IsFiniteSet(A \ {w}) /\ Cardinality(A \ {w}) = Cardinality(A) - 1
    BY <1>1, FS_RemoveElement
  <2>2. Cardinality(A \ {w}) = 0
    BY <2>1, SMTT(30)
  <2> QED BY <2>1, <2>2, FS_EmptySet
<1> QED BY <1>2, <1>3 DEF Count

-----------------------------------------------------------------------------
(* One turn of the main loop.                                              *)

\* Leaving the loop keeps the invariant: the last worker to leave asks the
\* loop thread to join.
LEMMA LeaveKeeps ==
  ASSUME NEW p, NEW a, NEW jb, NEW lp, NEW er, NEW n, NEW fs,
         NEW w \in Workers, Good(p, a, jb, lp, er, n, fs),
         a[w] = "head", p.Aborting
  PROVE  Good([p EXCEPT !.WorkersRunning = @ - 1], [a EXCEPT ![w] = "done"],
              jb, lp, er \/ p.WorkersRunning = 1, n, fs)
<1> DEFINE q == [p EXCEPT !.WorkersRunning = @ - 1]
           b == [a EXCEPT ![w] = "done"]
           e == er \/ p.WorkersRunning = 1
<1>1. /\ p \in Pool /\ a \in [Workers -> Places \cup {"head"}]
      /\ Counted(p, a) /\ Fenced(p, a, jb, fs) /\ Closing(p, a, lp, er)
  BY DEF Good
<1>0. b[w] = "done" /\ OthersStay(a, b, w)
  BY <1>1 DEF OthersStay
<1>2. /\ Count(b, Processing) = Count(a, Processing)
      /\ Count(b, Idle) = Count(a, Idle)
      /\ Count(a, Running) \in Nat /\ Count(a, Running) > 0
      /\ Count(b, Running) = Count(a, Running) - 1
  <2> HIDE DEF b
  <2> QED BY <1>0, CountMoves, Kinds, SMTT(30)
<1>3. /\ q \in Pool /\ q.Queue = p.Queue /\ q.Aborting = p.Aborting
      /\ q.FenceProcessing = p.FenceProcessing
      /\ q.JobsProcessing = p.JobsProcessing /\ q.WorkersIdle = p.WorkersIdle
      /\ q.WorkersRunning = p.WorkersRunning - 1
  <2> DEFINE k == p.WorkersRunning - 1
  <2>1. k \in Nat
    BY <1>1, <1>2, SMTT(30) DEF Counted
  <2> HIDE DEF k
  <2>2. LET g == [p EXCEPT !.WorkersRunning = k]
        IN  /\ g \in Pool /\ g.Queue = p.Queue /\ g.Aborting = p.Aborting
            /\ g.FenceProcessing = p.FenceProcessing
            /\ g.JobsProcessing = p.JobsProcessing
            /\ g.WorkersIdle = p.WorkersIdle /\ g.WorkersRunning = k
    BY <1>1, <2>1 DEF Pool
  <2> QED BY <2>2 DEF k
<1>4. Counted(q, b)
  BY <1>1, <1>2, <1>3 DEF Counted
<1>5. /\ b \in [Workers -> Places \cup {"head"}] /\ b[w] = "done"
      /\ \A v \in Workers : v # w => b[v] = a[v]
  BY <1>1 DEF Places
<1>6. Fenced(q, b, jb, fs)
  BY <1>1, <1>3, <1>5 DEF Fenced, Processing
<1>7. p.WorkersRunning = 1 => \A v \in Workers : a[v] \in Running => v = w
  BY <1>1, CountFew DEF Counted, Running
<1>8. p.WorkersRunning = 1 =>
        \A v \in Workers : b[v] \in {"unborn", "born", "head", "done"}
  BY <1>1, <1>5, <1>7 DEF Running, Places
<1>9. Closing(q, b, lp, e)
  BY <1>1, <1>3, <1>5, <1>8 DEF Closing
<1>10. e \in BOOLEAN
  OBVIOUS
<1> HIDE DEF q, b, e
<1>11. Good(q, b, jb, lp, e, n, fs)
  BY <1>3, <1>4, <1>5, <1>6, <1>9, <1>10 DEF Good
<1> QED BY <1>11 DEF q, b, e

\* Waiting for a job, or for the end of a fence, keeps the invariant.
LEMMA WaitsKeep ==
  ASSUME NEW p, NEW a, NEW jb, NEW lp, NEW er, NEW n, NEW fs,
         NEW w \in Workers, Good(p, a, jb, lp, er, n, fs),
         a[w] = "head", ~p.Aborting
  PROVE  /\ Good([p EXCEPT !.WorkersIdle = @ + 1], [a EXCEPT ![w] = "idle"],
                 jb, lp, er, n, fs)
         /\ Good(p, [a EXCEPT ![w] = "blocked"], jb, lp, er, n, fs)
<1> DEFINE q == [p EXCEPT !.WorkersIdle = @ + 1]
           b == [a EXCEPT ![w] = "idle"]
           c == [a EXCEPT ![w] = "blocked"]
<1>1. /\ p \in Pool /\ a \in [Workers -> Places \cup {"head"}]
      /\ Counted(p, a) /\ Fenced(p, a, jb, fs) /\ Closing(p, a, lp, er)
  BY DEF Good
<1>0. /\ b[w] = "idle" /\ c[w] = "blocked"
      /\ OthersStay(a, b, w) /\ OthersStay(a, c, w)
  BY <1>1 DEF OthersStay
<1>2. /\ Count(b, Processing) = Count(a, Processing)
      /\ Count(a, Idle) \in Nat
      /\ Count(b, Idle) = Count(a, Idle) + 1
      /\ Count(b, Running) = Count(a, Running)
  <2> HIDE DEF b, c
  <2> QED BY <1>0, CountMoves, Kinds, SMTT(30)
<1>3. /\ Count(c, Processing) = Count(a, Processing)
      /\ Count(c, Idle) = Count(a, Idle)
      /\ Count(c, Running) = Count(a, Running)
  <2> HIDE DEF b, c
  <2> QED BY <1>0, CountMoves, Kinds, SMTT(30)
<1>4. /\ q \in Pool /\ q.Queue = p.Queue /\ q.Aborting = p.Aborting
      /\ q.FenceProcessing = p.FenceProcessing
      /\ q.JobsProcessing = p.JobsProcessing
      /\ q.WorkersIdle = p.WorkersIdle + 1
      /\ q.WorkersRunning = p.WorkersRunning
  BY <1>1, <1>2, SMTT(30) DEF Pool, Counted
<1>5. Counted(q, b) /\ Counted(p, c)
  BY <1>1, <1>2, <1>3, <1>4 DEF Counted
<1>6. /\ b \in [Workers -> Places \cup {"head"}] /\ b[w] = "idle"
      /\ c \in [Workers -> Places \cup {"head"}] /\ c[w] = "blocked"
      /\ \A v \in Workers : v # w => b[v] = a[v] /\ c[v] = a[v]
  BY <1>1 DEF Places
<1>7. Fenced(q, b, jb, fs) /\ Fenced(p, c, jb, fs)
  BY <1>1, <1>4, <1>6 DEF Fenced, Processing
<1>8. ~er /\ lp \notin {"setup", "join", "returned"}
  BY <1>1 DEF Closing
<1>9. Closing(q, b, lp, er) /\ Closing(p, c, lp, er)
  BY <1>1, <1>4, <1>6, <1>8 DEF Closing
<1> HIDE DEF q, b, c
<1>10. Good(q, b, jb, lp, er, n, fs) /\ Good(p, c, jb, lp, er, n, fs)
  BY <1>4, <1>5, <1>6, <1>7, <1>9 DEF Good
<1> QED BY <1>10 DEF q, b, c

\* Taking a job from the queue keeps the invariant: a fence job is taken up
\* at once only if no other job is processed.
LEMMA PopKeeps ==
  ASSUME NEW p, NEW a, NEW jb, NEW lp, NEW er, NEW n, NEW fs,
         NEW w \in Workers, Good(p, a, jb, lp, er, n, fs),
         a[w] = "head", ~p.Aborting, p.Queue # <<>>, ~p.FenceProcessing
  PROVE  LET j == Head(p.Queue)
             q == [p EXCEPT !.Queue = Tail(@), !.FenceProcessing = j \in fs]
         IN  /\ j \in fs => Good(q, [a EXCEPT ![w] = "fence"],
                                 [jb EXCEPT ![w] = j], lp, er, n, fs)
             /\ (j \in fs => p.JobsProcessing = 0) =>
                  Good([q EXCEPT !.JobsProcessing = @ + 1],
                       [a EXCEPT ![w] = "work"],
                       [jb EXCEPT ![w] = j], lp, er, n, fs)
<1> DEFINE j == Head(p.Queue)
           q == [p EXCEPT !.Queue = Tail(@), !.FenceProcessing = j \in fs]
           r == [q EXCEPT !.JobsProcessing = @ + 1]
           b == [a EXCEPT ![w] = "fence"]
           c == [a EXCEPT ![w] = "work"]
           jj == [jb EXCEPT ![w] = j]
<1>1. /\ p \in Pool /\ a \in [Workers -> Places \cup {"head"}]
      /\ p.Queue \in Seq(1 .. n) /\ n \in 0 .. MaxJobs /\ MaxJobs \in Nat
      /\ jb \in [Workers -> 0 .. n]
      /\ Counted(p, a) /\ Fenced(p, a, jb, fs) /\ Closing(p, a, lp, er)
  BY PoolAssumption DEF Good
<1>2. j \in 1 .. n /\ Tail(p.Queue) \in Seq(1 .. n)
  BY <1>1, HeadTailProperties
<1>3. Tail(p.Queue) \in Seq(1 .. MaxJobs)
  BY <1>1, HeadTailProperties DEF Pool
<1>0. /\ b[w] = "fence" /\ c[w] = "work"
      /\ OthersStay(a, b, w) /\ OthersStay(a, c, w)
  BY <1>1 DEF OthersStay
<1>4. /\ Count(b, Processing) = Count(a, Processing)
      /\ Count(b, Idle) = Count(a, Idle)
      /\ Count(b, Running) = Count(a, Running)
  <2> HIDE DEF b, c
  <2> QED BY <1>0, CountMoves, Kinds, SMTT(30)
<1>5. /\ Count(a, Processing) \in Nat
      /\ Count(c, Processing) = Count(a, Processing) + 1
      /\ Count(c, Idle) = Count(a, Idle)
      /\ Count(c, Running) = Count(a, Running)
  <2> HIDE DEF b, c
  <2> QED BY <1>0, CountMoves, Kinds, SMTT(30)
<1>6. /\ q \in Pool /\ q.Queue = Tail(p.Queue) /\ q.Aborting = p.Aborting
      /\ q.FenceProcessing = (j \in fs)
      /\ q.JobsProcessing = p.JobsProcessing
      /\ q.WorkersIdle = p.WorkersIdle
      /\ q.WorkersRunning = p.WorkersRunning
  <2> DEFINE f == j \in fs
  <2>1. f \in BOOLEAN
    BY SMTT(30)
  <2> HIDE DEF j, f
  <2>2. LET g == [p EXCEPT !.Queue = Tail(@), !.FenceProcessing = f]
        IN  /\ g \in Pool /\ g.Queue = Tail(p.Queue)
            /\ g.Aborting = p.Aborting /\ g.FenceProcessing = f
            /\ g.JobsProcessing = p.JobsProcessing
            /\ g.WorkersIdle = p.WorkersIdle
            /\ g.WorkersRunning = p.WorkersRunning
    BY <1>1, <1>3, <2>1 DEF Pool
  <2> QED BY <2>2 DEF f
<1> HIDE DEF q
<1>7. /\ r \in Pool /\ r.Queue = Tail(p.Queue) /\ r.Aborting = p.Aborting
      /\ r.FenceProcessing = (j \in fs)
      /\ r.JobsProcessing = p.JobsProcessing + 1
      /\ r.WorkersIdle = p.WorkersIdle
      /\ r.WorkersRunning = p.WorkersRunning
  BY <1>6, SMTT(30) DEF Pool
<1>8. Counted(q, b) /\ Counted(r, c)
  BY <1>1, <1>4, <1>5, <1>6, <1>7 DEF Counted
<1>9. /\ b \in [Workers -> Places \cup {"head"}] /\ b[w] = "fence"
      /\ c \in [Workers -> Places \cup {"head"}] /\ c[w] = "work"
      /\ \A v \in Workers : v # w => b[v] = a[v] /\ c[v] = a[v]
  BY <1>1 DEF Places, Processing
<1>10. /\ jj \in [Workers -> 0 .. n] /\ jj[w] = j /\ j # 0
       /\ \A v \in Workers : v # w => jj[v] = jb[v]
  BY <1>1, <1>2, SMTT(30)
<1>11. \A v \in Workers : jb[v] \notin fs
  BY <1>1 DEF Fenced
<1>12. p.JobsProcessing = 0 => \A v \in Workers : a[v] \notin Processing
  BY <1>1, CountFew DEF Counted
<1>13. ~er /\ lp \notin {"setup", "join", "returned"}
  BY <1>1 DEF Closing
<1>14. Closing(q, b, lp, er) /\ Closing(r, c, lp, er)
  BY <1>1, <1>6, <1>7, <1>9, <1>13 DEF Closing
<1> HIDE DEF r, b, c, j, jj
<1>15. /\ j \in fs => q.FenceProcessing /\ r.FenceProcessing
       /\ \A v \in Workers : a[v] # "fence"
       /\ \A v \in Workers : jb[v] # 0 <=> a[v] \in Processing \cup {"fence"}
  BY <1>1, <1>6, <1>7, <1>11 DEF Fenced
<1>16. /\ \A v \in Workers : jj[v] \in fs => v = w /\ j \in fs
       /\ j \in fs => Fenced(q, b, jj, fs)
       /\ (j \in fs => p.JobsProcessing = 0) => Fenced(r, c, jj, fs)
  <2>1. \A v \in Workers : jj[v] \in fs => v = w /\ j \in fs
    BY <1>10, <1>11
  <2>2. /\ \A v \in Workers : jj[v] # 0 <=> b[v] \in Processing \cup {"fence"}
        /\ \A v \in Workers : jj[v] # 0 <=> c[v] \in Processing \cup {"fence"}
    BY <1>9, <1>10, <1>15 DEF Processing
  <2>3. /\ \A v \in Workers : b[v] = "fence" => v = w
        /\ \A v \in Workers : c[v] # "fence"
    BY <1>9, <1>15
  <2>4. b[w] \notin Processing
    BY <1>9 DEF Processing
  <2>5. j \in fs => Fenced(q, b, jj, fs)
    BY <1>10, <1>15, <2>1, <2>2, <2>3, <2>4 DEF Fenced
  <2>6. p.JobsProcessing = 0 => \A v \in Workers : c[v] \in Processing => v = w
    BY <1>9, <1>12
  <2>7. (j \in fs => p.JobsProcessing = 0) => Fenced(r, c, jj, fs)
    BY <1>10, <1>15, <2>1, <2>2, <2>3, <2>6 DEF Fenced
  <2> QED BY <2>1, <2>5, <2>7
<1>17. /\ lp \in Loops /\ er \in BOOLEAN /\ n \in 0 .. MaxJobs
       /\ fs \subseteq 1 .. n
  BY DEF Good
<1>18. j \in fs => Good(q, b, jj, lp, er, n, fs)
  BY <1>2, <1>6, <1>8, <1>9, <1>10, <1>14, <1>16, <1>17 DEF Good
<1>19. (j \in fs => p.JobsProcessing = 0) => Good(r, c, jj, lp, er, n, fs)
  BY <1>2, <1>7, <1>8, <1>9, <1>10, <1>14, <1>16, <1>17 DEF Good
<1> QED BY <1>18, <1>19 DEF q, r, b, c, j, jj

-----------------------------------------------------------------------------
(* The way to the head of the main loop.                                   *)

\* A worker that comes to the head of the loop without a job keeps the
\* invariant, if the counters follow and FenceProcessing is left alone unless
\* the worker had the fence job.
LEMMA HeadKeeps ==
  ASSUME NEW p, NEW q, NEW a, NEW jb, NEW lp, NEW er, NEW n, NEW fs,
         NEW w \in Workers, Good(p, a, jb, lp, er, n, fs),
         a[w] \notin {"unborn", "done"},
         q \in Pool, q.Queue = p.Queue, q.Aborting = p.Aborting,
         jb[w] \notin fs => q.FenceProcessing = p.FenceProcessing,
         Counted(q, [a EXCEPT ![w] = "head"])
  PROVE  Good(q, [a EXCEPT ![w] = "head"], [jb EXCEPT ![w] = 0], lp, er, n, fs)
<1> DEFINE b == [a EXCEPT ![w] = "head"]
           jj == [jb EXCEPT ![w] = 0]
<1>1. /\ p \in Pool /\ a \in [Workers -> Places \cup {"head"}]
      /\ p.Queue \in Seq(1 .. n) /\ n \in 0 .. MaxJobs /\ MaxJobs \in Nat
      /\ jb \in [Workers -> 0 .. n] /\ fs \subseteq 1 .. n
      /\ lp \in Loops /\ er \in BOOLEAN
      /\ Fenced(p, a, jb, fs) /\ Closing(p, a, lp, er)
  BY PoolAssumption DEF Good
<1>2. /\ b \in [Workers -> Places \cup {"head"}] /\ b[w] = "head"
      /\ \A v \in Workers : v # w => b[v] = a[v]
  BY <1>1
<1>3. /\ jj \in [Workers -> 0 .. n] /\ jj[w] = 0 /\ 0 \notin fs
      /\ \A v \in Workers : v # w => jj[v] = jb[v]
  BY <1>1, SMTT(30)
<1>4. "head" \notin Processing \cup {"fence"}
  BY DEF Processing
<1>5. Counted(q, b)
  OBVIOUS
<1> HIDE DEF b, jj
<1>6. \A v \in Workers : jj[v] \in fs => v # w /\ jb[v] \in fs
  BY <1>3
<1>7. \A v \in Workers : jj[v] \in fs => q.FenceProcessing
  BY <1>1, <1>6 DEF Fenced
<1>8. Fenced(q, b, jj, fs)
  BY <1>1, <1>2, <1>3, <1>4, <1>6, <1>7, SMTT(30) DEF Fenced
<1>9. Closing(q, b, lp, er)
  BY <1>1, <1>2 DEF Closing
<1>10. Good(q, b, jj, lp, er, n, fs)
  BY <1>1, <1>2, <1>3, <1>5, <1>8, <1>9 DEF Good
<1> QED BY <1>10 DEF b, jj

\* A new thread, a thread back from a wait, and a thread whose job is over
\* come to the head of the loop.
LEMMA ComesToHead ==
  ASSUME NEW p, NEW a, NEW jb, NEW lp, NEW er, NEW n, NEW fs,
         NEW w \in Workers, Good(p, a, jb, lp, er, n, fs)
  PROVE  LET b == [a EXCEPT ![w] = "head"]
             jj == [jb EXCEPT ![w] = 0]
         IN  /\ a[w] = "born" =>
                  Good([p EXCEPT !.WorkersRunning = @ + 1],
                       b, jj, lp, er, n, fs)
             /\ a[w] = "idle" =>
                  Good([p EXCEPT !.WorkersIdle = @ - 1], b, jj, lp, er, n, fs)
             /\ a[w] = "blocked" => Good(p, b, jj, lp, er, n, fs)
             /\ a[w] = "fence" =>
                  Good([p EXCEPT !.FenceProcessing = FALSE],
                       b, jj, lp, er, n, fs)
             /\ a[w] = "work" =>
                  Good([p EXCEPT !.JobsProcessing = @ - 1,
                                 !.FenceProcessing = @ /\ jb[w] \notin fs],
                       b, jj, lp, er, n, fs)
<1> DEFINE b == [a EXCEPT ![w] = "head"]
           jj == [jb EXCEPT ![w] = 0]
<1>1. /\ p \in Pool /\ a \in [Workers -> Places \cup {"head"}]
      /\ Counted(p, a) /\ Fenced(p, a, jb, fs)
  BY DEF Good
<1>2. b[w] = "head" /\ OthersStay(a, b, w)
  BY <1>1 DEF OthersStay
<1>3. a[w] = "born" => Good([p EXCEPT !.WorkersRunning = @ + 1],
                            b, jj, lp, er, n, fs)
  <2> SUFFICES ASSUME a[w] = "born"
               PROVE  Good([p EXCEPT !.WorkersRunning = @ + 1],
                           b, jj, lp, er, n, fs)
    OBVIOUS
  <2> DEFINE k == p.WorkersRunning + 1
  <2>1. /\ Count(b, Processing) = Count(a, Processing)
        /\ Count(b, Idle) = Count(a, Idle)
        /\ Count(a, Running) \in Nat /\ Count(b, Running) = Count(a, Running) + 1
    <3> HIDE DEF b
    <3> QED BY <1>2, CountMoves, Kinds, SMTT(30)
  <2>2. k \in Nat /\ k = Count(b, Running)
    BY <1>1, <2>1, SMTT(30) DEF Counted
  <2> HIDE DEF k, b
  <2> DEFINE q == [p EXCEPT !.WorkersRunning = k]
  <2>3. /\ q \in Pool /\ q.Queue = p.Queue /\ q.Aborting = p.Aborting
        /\ q.FenceProcessing = p.FenceProcessing
        /\ q.JobsProcessing = p.JobsProcessing
        /\ q.WorkersIdle = p.WorkersIdle /\ q.WorkersRunning = k
    BY <1>1, <2>2 DEF Pool
  <2> HIDE DEF q
  <2>4. Counted(q, b)
    BY <1>1, <2>1, <2>2, <2>3 DEF Counted
  <2>5. Good(q, b, jj, lp, er, n, fs)
    BY <2>3, <2>4, HeadKeeps DEF b
  <2> QED BY <2>5 DEF q, k
<1>4. a[w] = "idle" => Good([p EXCEPT !.WorkersIdle = @ - 1],
                            b, jj, lp, er, n, fs)
  <2> SUFFICES ASSUME a[w] = "idle"
               PROVE  Good([p EXCEPT !.WorkersIdle = @ - 1],
                           b, jj, lp, er, n, fs)
    OBVIOUS
  <2> DEFINE k == p.WorkersIdle - 1
  <2>1. /\ Count(b, Processing) = Count(a, Processing)
        /\ Count(a, Idle) \in Nat /\ Count(a, Idle) > 0
        /\ Count(b, Idle) = Count(a, Idle) - 1
        /\ Count(b, Running) = Count(a, Running)
    <3> HIDE DEF b
    <3> QED BY <1>2, CountMoves, Kinds, SMTT(30)
  <2>2. k \in Nat /\ k = Count(b, Idle)
    BY <1>1, <2>1, SMTT(30) DEF Counted
  <2> HIDE DEF k, b
  <2> DEFINE q == [p EXCEPT !.WorkersIdle = k]
  <2>3. /\ q \in Pool /\ q.Queue = p.Queue /\ q.Aborting = p.Aborting
        /\ q.FenceProcessing = p.FenceProcessing
        /\ q.JobsProcessing = p.JobsProcessing
        /\ q.WorkersIdle = k /\ q.WorkersRunning = p.WorkersRunning
    BY <1>1, <2>2 DEF Pool
  <2> HIDE DEF q
  <2>4. Counted(q, b)
    BY <1>1, <2>1, <2>2, <2>3 DEF Counted
  <2>5. Good(q, b, jj, lp, er, n, fs)
    BY <2>3, <2>4, HeadKeeps DEF b
  <2> QED BY <2>5 DEF q, k
<1>5. a[w] \in {"blocked", "fence"} => Counted(p, b)
  <2> HIDE DEF b
  <2> SUFFICES ASSUME a[w] \in {"blocked", "fence"}
               PROVE  Counted(p, b)
    OBVIOUS
  <2>1. /\ Count(b, Processing) = Count(a, Processing)
        /\ Count(b, Idle) = Count(a, Idle)
        /\ Count(b, Running) = Count(a, Running)
    BY <1>2, CountMoves, Kinds, SMTT(30)
  <2> QED BY <1>1, <2>1 DEF Counted
<1>6. a[w] = "blocked" => Good(p, b, jj, lp, er, n, fs)
  BY <1>1, <1>5, HeadKeeps
<1>7. a[w] = "fence" => Good([p EXCEPT !.FenceProcessing = FALSE],
                             b, jj, lp, er, n, fs)
  <2> SUFFICES ASSUME a[w] = "fence"
               PROVE  Good([p EXCEPT !.FenceProcessing = FALSE],
                           b, jj, lp, er, n, fs)
    OBVIOUS
  <2> DEFINE q == [p EXCEPT !.FenceProcessing = FALSE]
  <2>1. jb[w] \in fs
    BY <1>1 DEF Fenced
  <2>2. /\ q \in Pool /\ q.Queue = p.Queue /\ q.Aborting = p.Aborting
        /\ q.JobsProcessing = p.JobsProcessing
        /\ q.WorkersIdle = p.WorkersIdle
        /\ q.WorkersRunning = p.WorkersRunning
    BY <1>1 DEF Pool
  <2> HIDE DEF q
  <2>3. Counted(q, b)
    BY <1>5, <2>2 DEF Counted
  <2>4. Good(q, b, jj, lp, er, n, fs)
    BY <2>1, <2>2, <2>3, HeadKeeps
  <2> QED BY <2>4 DEF q
<1>8. a[w] = "work" =>
        Good([p EXCEPT !.JobsProcessing = @ - 1,
                       !.FenceProcessing = @ /\ jb[w] \notin fs],
             b, jj, lp, er, n, fs)
  <2> DEFINE k == p.JobsProcessing - 1
             f == p.FenceProcessing /\ jb[w] \notin fs
             q == [p EXCEPT !.JobsProcessing = k, !.FenceProcessing = f]
  <2> SUFFICES ASSUME a[w] = "work"
               PROVE  Good(q, b, jj, lp, er, n, fs)
    OBVIOUS
  <2>1. /\ Count(a, Processing) \in Nat /\ Count(a, Processing) > 0
        /\ Count(b, Processing) = Count(a, Processing) - 1
        /\ Count(b, Idle) = Count(a, Idle)
        /\ Count(b, Running) = Count(a, Running)
    <3> HIDE DEF b
    <3> QED BY <1>2, CountMoves, Kinds, SMTT(30)
  <2>2. k \in Nat /\ k = Count(b, Processing)
    BY <1>1, <2>1, SMTT(30) DEF Counted
  <2>3. f \in BOOLEAN /\ (jb[w] \notin fs => f = p.FenceProcessing)
    <3>1. p.FenceProcessing \in BOOLEAN
      BY <1>1 DEF Pool
    <3> QED BY <3>1
  <2> HIDE DEF k, f
  <2>4. /\ q \in Pool /\ q.Queue = p.Queue /\ q.Aborting = p.Aborting
        /\ q.FenceProcessing = f /\ q.JobsProcessing = k
        /\ q.WorkersIdle = p.WorkersIdle
        /\ q.WorkersRunning = p.WorkersRunning
    BY <1>1, <2>2, <2>3 DEF Pool
  <2> HIDE DEF q, b
  <2>5. Counted(q, b)
    BY <1>1, <2>1, <2>2, <2>4 DEF Counted
  <2> QED BY <2>3, <2>4, <2>5, HeadKeeps DEF b
<1> QED BY <1>3, <1>4, <1>6, <1>7, <1>8

-----------------------------------------------------------------------------
(* Every step keeps the invariant.                                         *)

\* The part of the invariant about child processes, for the steps of a worker
\* that is not inside RunProcess.
LEMMA WorkerMoves ==
  ASSUME IInv, NEW w \in Workers, at[w] \notin {"send", "await"},
         NEW x \in Places, at' = [at EXCEPT ![w] = x],
         asleep' \subseteq Workers, UNCHANGED procVars,
         Good(pool', at', job', loop', endRequest', pushed', fences')
  PROVE  IInv'
<1>1. at' \in [Workers -> Places]
  BY DEF IInv
<1>2. ProcTypes'
  BY DEF IInv, ProcTypes, procVars
<1>3. ObjectOutlivesHandles'
  <2>1. rop[w] = "none" /\ rop' = rop /\ open' = open
    BY DEF IInv, ObjectOutlivesHandles, procVars
  <2>2. \A v \in Workers : v # w => at'[v] = at[v]
    BY DEF IInv
  <2> QED BY <2>1, <2>2 DEF IInv, ObjectOutlivesHandles
<1>4. Good(pool, at, job, loop, endRequest, pushed, fences)'
  OBVIOUS
<1> QED BY <1>1, <1>2, <1>3, <1>4 DEF IInv

\* A turn of the main loop keeps the invariant.
LEMMA TurnKeeps ==
  ASSUME IInv, NEW w \in Workers, at[w] \notin {"send", "await"},
         NEW p, NEW z \in SUBSET Workers,
         Good(p, [at EXCEPT ![w] = "head"], [job EXCEPT ![w] = 0],
              loop, endRequest, pushed, fences),
         Turn(w, p, z)
  PROVE  IInv'
<1> DEFINE a == [at EXCEPT ![w] = "head"]
           jb == [job EXCEPT ![w] = 0]
<1>1. /\ at \in [Workers -> Places] /\ job \in [Workers -> 0 .. pushed]
      /\ loop' = loop /\ pushed' = pushed /\ fences' = fences
      /\ UNCHANGED procVars
  BY DEF IInv, Good, Turn
<1>2. /\ a[w] = "head"
      /\ \A x : [a EXCEPT ![w] = x] = [at EXCEPT ![w] = x]
      /\ \A x : [jb EXCEPT ![w] = x] = [job EXCEPT ![w] = x]
  BY <1>1
<1>3. /\ "done" \in Places /\ "idle" \in Places /\ "blocked" \in Places
      /\ "fence" \in Places /\ "work" \in Places
  BY DEF Places, Processing
<1>4. CASE p.Aborting /\ Leave(w, p, z)
  <2>1. Good([p EXCEPT !.WorkersRunning = @ - 1], [a EXCEPT ![w] = "done"],
             jb, loop, endRequest \/ p.WorkersRunning = 1, pushed, fences)
    BY <1>2, <1>4, LeaveKeeps
  <2>2. Good(pool', at', job', loop', endRequest', pushed', fences')
    BY <1>1, <1>2, <1>4, <2>1 DEF Leave
  <2> QED BY <1>1, <1>3, <1>4, <2>2, WorkerMoves DEF Leave
<1>5. CASE ~p.Aborting /\ p.Queue = <<>> /\ WaitIdle(w, p, z)
  <2>1. Good([p EXCEPT !.WorkersIdle = @ + 1], [a EXCEPT ![w] = "idle"],
             jb, loop, endRequest, pushed, fences)
    BY <1>2, <1>5, WaitsKeep
  <2>2. Good(pool', at', job', loop', endRequest', pushed', fences')
    BY <1>1, <1>2, <1>5, <2>1 DEF WaitIdle
  <2> QED BY <1>1, <1>3, <1>5, <2>2, WorkerMoves DEF WaitIdle
<1>6. CASE /\ ~p.Aborting /\ p.Queue # <<>> /\ p.FenceProcessing
           /\ WaitForFence(w, p, z)
  <2>1. Good(p, [a EXCEPT ![w] = "blocked"],
             jb, loop, endRequest, pushed, fences)
    BY <1>2, <1>6, WaitsKeep
  <2>2. Good(pool', at', job', loop', endRequest', pushed', fences')
    BY <1>1, <1>2, <1>6, <2>1 DEF WaitForFence
  <2> QED BY <1>1, <1>3, <1>6, <2>2, WorkerMoves DEF WaitForFence
<1>7. CASE /\ ~p.Aborting /\ p.Queue # <<>> /\ ~p.FenceProcessing
           /\ PopJob(w, p, z)
  <2> DEFINE j == Head(p.Queue)
             q == [p EXCEPT !.Queue = Tail(@),
                            !.FenceProcessing = j \in fences]
             r == [q EXCEPT !.JobsProcessing = @ + 1]
             jj == [jb EXCEPT ![w] = j]
  <2>1. /\ j \in fences => Good(q, [a EXCEPT ![w] = "fence"], jj,
                                loop, endRequest, pushed, fences)
        /\ (j \in fences => p.JobsProcessing = 0) =>
             Good(r, [a EXCEPT ![w] = "work"], jj,
                  loop, endRequest, pushed, fences)
    <3>1. Good(p, a, jb, loop, endRequest, pushed, fences)
      OBVIOUS
    <3> HIDE DEF a, jb
    <3> QED BY <1>2, <1>7, <3>1, PopKeeps
  <2>2. /\ job' = jj /\ endRequest' = endRequest
        /\ IF j \in fences /\ p.JobsProcessing # 0
           THEN /\ pool' = q /\ at' = [at EXCEPT ![w] = "fence"]
                /\ asleep' = z \cup {w}
           ELSE /\ pool' = r /\ at' = [at EXCEPT ![w] = "work"]
                /\ asleep' = z
    BY <1>2, <1>7 DEF PopJob
  <2> HIDE DEF q, r, j, jj, a, jb
  <2>3. Good(pool', at', job', loop', endRequest', pushed', fences')
    BY <1>1, <1>2, <2>1, <2>2
  <2>4. PICK x \in Places : at' = [at EXCEPT ![w] = x]
    BY <1>3, <2>2
  <2>5. asleep' \subseteq Workers
    BY <2>2
  <2> QED BY <1>1, <2>3, <2>4, <2>5, WorkerMoves
<1> QED BY <1>4, <1>5, <1>6, <1>7 DEF Turn

\* The steps that lead to the head of the loop and through it.
LEMMA WorkerTurns ==
  ASSUME IInv, NEW w \in Workers,
         WorkerStarts(w) \/ WorkerWakes(w) \/ BlockedWakes(w) \/ JobEnds(w)
  PROVE  IInv'
<1>1. /\ Good(pool, at, job, loop, endRequest, pushed, fences)
      /\ asleep \in SUBSET Workers
  BY DEF IInv, ProcTypes
<1>2. CASE WorkerStarts(w)
  BY <1>1, <1>2, ComesToHead, TurnKeeps DEF WorkerStarts
<1>3. CASE WorkerWakes(w)
  BY <1>1, <1>3, ComesToHead, TurnKeeps DEF WorkerWakes
<1>4. CASE BlockedWakes(w)
  BY <1>1, <1>4, ComesToHead, TurnKeeps DEF BlockedWakes
<1>5. CASE JobEnds(w)
  <2>1. SleepersAfterJob(w) \in SUBSET Workers
    BY <1>1 DEF SleepersAfterJob
  <2>2. Good(AfterJob(w), [at EXCEPT ![w] = "head"], [job EXCEPT ![w] = 0],
             loop, endRequest, pushed, fences)
    BY <1>1, <1>5, ComesToHead DEF JobEnds, AfterJob
  <2> QED BY <1>5, <2>1, <2>2, TurnKeeps DEF JobEnds
<1> QED BY <1>2, <1>3, <1>4, <1>5

\* Back from ConditionFence.wait: the fence job is dropped, still waits, or
\* is taken up because no other job is processed.
LEMMA FenceWakesKeeps ==
  ASSUME IInv, NEW w \in Workers, FenceWakes(w)
  PROVE  IInv'
<1>1. /\ Good(pool, at, job, loop, endRequest, pushed, fences)
      /\ asleep \in SUBSET Workers /\ at[w] = "fence"
      /\ at \in [Workers -> Places] /\ job \in [Workers -> 0 .. pushed]
      /\ pool \in Pool /\ Counted(pool, at)
      /\ Fenced(pool, at, job, fences)
      /\ Closing(pool, at, loop, endRequest)
      /\ loop' = loop /\ pushed' = pushed /\ fences' = fences
      /\ UNCHANGED procVars
  BY DEF IInv, ProcTypes, FenceWakes, Good
<1>2. CASE /\ pool.Aborting
           /\ Leave(w, [pool EXCEPT !.FenceProcessing = FALSE],
                    asleep \ OnCondition)
  <2> DEFINE p == [pool EXCEPT !.FenceProcessing = FALSE]
             a == [at EXCEPT ![w] = "head"]
             jb == [job EXCEPT ![w] = 0]
  <2>1. Good(p, a, jb, loop, endRequest, pushed, fences)
    BY <1>1, ComesToHead
  <2>2. p.Aborting /\ a[w] = "head"
    BY <1>1, <1>2 DEF Pool
  <2>3. [a EXCEPT ![w] = "done"] = [at EXCEPT ![w] = "done"]
    BY <1>1
  <2>4. /\ pool' = [p EXCEPT !.WorkersRunning = @ - 1] /\ job' = jb
        /\ at' = [at EXCEPT ![w] = "done"]
        /\ endRequest' = (endRequest \/ p.WorkersRunning = 1)
        /\ asleep' \subseteq Workers
    BY <1>1, <1>2 DEF Leave
  <2> HIDE DEF p, a, jb
  <2>5. Good(pool', at', job', loop', endRequest', pushed', fences')
    BY <1>1, <2>1, <2>2, <2>3, <2>4, LeaveKeeps, SMTT(30)
  <2>6. "done" \in Places
    BY DEF Places
  <2> QED BY <1>1, <2>4, <2>5, <2>6, WorkerMoves
<1>3. CASE /\ ~pool.Aborting /\ pool.JobsProcessing # 0
           /\ asleep' = asleep \cup {w}
           /\ UNCHANGED <<pool, endRequest, at, job>>
  <2>1. at' = [at EXCEPT ![w] = "fence"] /\ "fence" \in Places
    BY <1>1, <1>3 DEF Places
  <2>2. Good(pool', at', job', loop', endRequest', pushed', fences')
    BY <1>1, <1>3
  <2> QED BY <1>1, <1>3, <2>1, <2>2, WorkerMoves
<1>4. CASE /\ ~pool.Aborting /\ pool.JobsProcessing = 0
           /\ pool' = [pool EXCEPT !.JobsProcessing = @ + 1]
           /\ at' = [at EXCEPT ![w] = "work"]
           /\ UNCHANGED <<endRequest, asleep, job>>
  <2>1. at'[w] = "work" /\ OthersStay(at, at', w) /\ "work" \in Places
    BY <1>1, <1>4 DEF OthersStay, Places, Processing
  <2>2. /\ Count(at, Processing) \in Nat
        /\ Count(at', Processing) = Count(at, Processing) + 1
        /\ Count(at', Idle) = Count(at, Idle)
        /\ Count(at', Running) = Count(at, Running)
    BY <1>1, <2>1, CountMoves, Kinds, SMTT(30)
  <2>3. /\ pool' \in Pool /\ pool'.Queue = pool.Queue
        /\ pool'.Aborting = pool.Aborting
        /\ pool'.FenceProcessing = pool.FenceProcessing
        /\ pool'.JobsProcessing = pool.JobsProcessing + 1
        /\ pool'.WorkersIdle = pool.WorkersIdle
        /\ pool'.WorkersRunning = pool.WorkersRunning
    <3> DEFINE k == pool.JobsProcessing + 1
    <3>1. k \in Nat /\ pool' = [pool EXCEPT !.JobsProcessing = k]
      BY <1>1, <1>4, SMTT(30) DEF Pool
    <3> HIDE DEF k
    <3>2. /\ pool' \in Pool /\ pool'.Queue = pool.Queue
          /\ pool'.Aborting = pool.Aborting
          /\ pool'.FenceProcessing = pool.FenceProcessing
          /\ pool'.JobsProcessing = k
          /\ pool'.WorkersIdle = pool.WorkersIdle
          /\ pool'.WorkersRunning = pool.WorkersRunning
      BY <1>1, <3>1 DEF Pool
    <3> QED BY <3>2 DEF k
  <2>4. Counted(pool', at')
    BY <1>1, <2>2, <2>3 DEF Counted
  <2>5. \A v \in Workers : at'[v] \in Processing => v = w
    <3>1. \A v \in Workers : at[v] \notin Processing
      BY <1>1, <1>4, CountFew DEF Counted
    <3> QED BY <2>1, <3>1 DEF OthersStay
  <2>6. Fenced(pool', at', job, fences)
    <3>1. /\ \A v \in Workers : at'[v] \in Processing \cup {"fence"} <=>
                                  at[v] \in Processing \cup {"fence"}
          /\ \A v \in Workers : at'[v] = "fence" => at[v] = "fence"
      BY <1>1, <2>1 DEF OthersStay, Processing
    <3> QED BY <1>1, <2>3, <2>5, <3>1 DEF Fenced
  <2>7. Closing(pool', at', loop, endRequest)
    <3>1. ~endRequest /\ loop \notin {"setup", "join", "returned"}
      BY <1>1 DEF Closing
    <3> QED BY <1>1, <2>1, <2>3, <3>1 DEF Closing, OthersStay
  <2>8. at' \in [Workers -> Places \cup {"head"}]
    BY <1>1, <1>4, <2>1
  <2>9. Good(pool', at', job', loop', endRequest', pushed', fences')
    BY <1>1, <1>4, <2>3, <2>4, <2>6, <2>7, <2>8 DEF Good
  <2> QED BY <1>1, <1>4, <2>1, <2>9, WorkerMoves
<1> QED BY <1>2, <1>3, <1>4 DEF FenceWakes

\* The steps that move a worker in and out of RunProcess.
LEMMA ProcessStepsKeep ==
  ASSUME IInv, NEW w \in Workers,
         JobRunsProcess(w) \/ SendRequest(w) \/ AwaitProcess(w)
  PROVE  IInv'
<1>1. /\ Good(pool, at, job, loop, endRequest, pushed, fences)
      /\ at \in [Workers -> Places] /\ ProcTypes /\ ObjectOutlivesHandles
      /\ Counted(pool, at) /\ Fenced(pool, at, job, fences)
      /\ Closing(pool, at, loop, endRequest)
  BY DEF IInv, Good
<1>2. /\ pool' = pool /\ job' = job /\ loop' = loop
      /\ endRequest' = endRequest /\ pushed' = pushed /\ fences' = fences
  BY DEF JobRunsProcess, SendRequest, AwaitProcess, queueVars
<1>3. /\ at[w] \in Processing
      /\ \E x \in Processing : at' = [at EXCEPT ![w] = x]
  <2>1. CASE UNCHANGED at /\ at[w] \in Processing
    <3>1. at' = [at EXCEPT ![w] = at[w]]
      BY <1>1, <2>1
    <3> QED BY <2>1, <3>1
  <2> QED BY <2>1 DEF JobRunsProcess, SendRequest, AwaitProcess, Processing
<1>4. /\ at'[w] \in Processing /\ OthersStay(at, at', w)
      /\ at' \in [Workers -> Places] /\ at' \in [Workers -> Places \cup {"head"}]
  BY <1>1, <1>3 DEF OthersStay, Places
<1>5. Counted(pool', at')
  <2>1. /\ Count(at', Processing) = Count(at, Processing)
        /\ Count(at', Idle) = Count(at, Idle)
        /\ Count(at', Running) = Count(at, Running)
    <3>1. /\ at[w] \in Running /\ at[w] \notin Idle
          /\ at'[w] \in Running /\ at'[w] \notin Idle
          /\ at[w] \in Processing /\ at'[w] \in Processing
      BY <1>3, <1>4, Kinds
    <3>2. OthersStay(at, at', w)
      BY <1>4
    <3>3. Count(at', Processing) = Count(at, Processing)
      BY <3>1, <3>2, CountMoves, SMTT(30)
    <3>4. Count(at', Idle) = Count(at, Idle)
      BY <3>1, <3>2, CountMoves, SMTT(30)
    <3>5. Count(at', Running) = Count(at, Running)
      BY <3>1, <3>2, CountMoves, SMTT(30)
    <3> QED BY <3>3, <3>4, <3>5
  <2> QED BY <1>1, <1>2, <2>1 DEF Counted
<1>6. Fenced(pool', at', job', fences')
  <2>1. /\ \A v \in Workers : at'[v] \in Processing <=> at[v] \in Processing
        /\ \A v \in Workers : at'[v] = "fence" <=> at[v] = "fence"
    BY <1>3, <1>4 DEF OthersStay, Processing
  <2> QED BY <1>1, <1>2, <2>1 DEF Fenced
<1>7. Closing(pool', at', loop', endRequest')
  <2>1. ~endRequest /\ loop \notin {"setup", "join", "returned"}
    BY <1>1, <1>3 DEF Closing, Processing
  <2> QED BY <1>1, <1>2, <1>3, <1>4, <2>1
          DEF Closing, OthersStay, Processing
<1>8. Good(pool', at', job', loop', endRequest', pushed', fences')
  BY <1>1, <1>2, <1>4, <1>5, <1>6, <1>7 DEF Good
<1>9. Good(pool, at, job, loop, endRequest, pushed, fences)'
  BY <1>8
<1>10. ProcTypes'
  <2>1. /\ asleep' \subseteq Workers /\ request' \subseteq Workers
        /\ open' = open
    BY <1>1 DEF ProcTypes, JobRunsProcess, SendRequest, AwaitProcess, procVars
  <2>2. rop' \in [Workers -> {"none", "new", "started"}]
    BY <1>1 DEF ProcTypes, JobRunsProcess, SendRequest, AwaitProcess, procVars
  <2>3. processes' \in 0 .. MaxProcesses
    BY <1>1, PoolAssumption, SMTT(30)
       DEF ProcTypes, JobRunsProcess, SendRequest, AwaitProcess, procVars
  <2> QED BY <1>1, <2>1, <2>2, <2>3 DEF ProcTypes
<1>11. ObjectOutlivesHandles'
  <2>1. CASE JobRunsProcess(w)
    <3>1. /\ open' = open /\ rop' = [rop EXCEPT ![w] = "new"]
          /\ at' = [at EXCEPT ![w] = "send"] /\ open[w] = {}
      BY <1>1, <2>1 DEF JobRunsProcess, ObjectOutlivesHandles
    <3> QED BY <1>1, <3>1 DEF ObjectOutlivesHandles, ProcTypes
  <2>2. CASE SendRequest(w)
    BY <1>1, <2>2 DEF SendRequest, ObjectOutlivesHandles
  <2>3. CASE AwaitProcess(w)
    BY <1>1, <2>3 DEF AwaitProcess, ObjectOutlivesHandles, procVars
  <2> QED BY <2>1, <2>2, <2>3
<1> QED BY <1>4, <1>9, <1>10, <1>11 DEF IInv

\* The callbacks of the loop thread for child processes.
LEMMA CallbacksKeep ==
  ASSUME IInv, NEW w \in Workers,
         UVProcessStart(w) \/ \E h \in Handles : HandleCloses(w, h)
  PROVE  IInv'
<1>1. /\ Good(pool, at, job, loop, endRequest, pushed, fences)
      /\ at \in [Workers -> Places] /\ ProcTypes /\ ObjectOutlivesHandles
  BY DEF IInv
<1>2. Good(pool, at, job, loop, endRequest, pushed, fences)' /\ at' = at
  BY <1>1 DEF UVProcessStart, HandleCloses, queueVars
<1>3. CASE UVProcessStart(w)
  <2>1. ProcTypes'
    BY <1>1, <1>3 DEF UVProcessStart, Finished, ProcTypes
  <2>2. ObjectOutlivesHandles'
    BY <1>1, <1>3
       DEF UVProcessStart, Finished, ProcTypes, ObjectOutlivesHandles, Handles
  <2> QED BY <1>1, <1>2, <2>1, <2>2 DEF IInv
<1>4. ASSUME NEW h \in Handles, HandleCloses(w, h)
      PROVE  IInv'
  <2>1. ProcTypes'
    BY <1>1, <1>4 DEF HandleCloses, Finished, ProcTypes
  <2>2. ObjectOutlivesHandles'
    BY <1>1, <1>4
       DEF HandleCloses, AllClosed, Finished, ProcTypes, ObjectOutlivesHandles
  <2> QED BY <1>1, <1>2, <2>1, <2>2 DEF IInv
<1> QED BY <1>3, <1>4

\* PushJob keeps the invariant wherever it is called from.
LEMMA PushJobKeeps ==
  ASSUME IInv, PushJob, loop # "returned"
  PROVE  IInv'
<1>1. /\ Good(pool, at, job, loop, endRequest, pushed, fences)
      /\ at \in [Workers -> Places] /\ ProcTypes /\ ObjectOutlivesHandles
      /\ pool \in Pool /\ pool.Queue \in Seq(1 .. pushed)
      /\ pushed \in 0 .. MaxJobs /\ MaxJobs \in Nat
      /\ job \in [Workers -> 0 .. pushed] /\ fences \subseteq 1 .. pushed
      /\ Counted(pool, at) /\ Fenced(pool, at, job, fences)
      /\ Closing(pool, at, loop, endRequest)
  BY PoolAssumption DEF IInv, Good
<1>2. /\ loop' = loop /\ endRequest' = endRequest /\ at' = at /\ job' = job
      /\ pushed' = pushed + 1 /\ pushed < MaxJobs /\ ~pool.Aborting
      /\ fences' \in {fences, fences \cup {pushed'}}
      /\ pool' = [pool EXCEPT !.Queue = Append(@, pushed')]
      /\ UNCHANGED procVars
  BY DEF PushJob
<1>3. /\ pushed' \in 1 .. MaxJobs /\ 1 .. pushed \subseteq 1 .. pushed'
      /\ 0 .. pushed \subseteq 0 .. pushed' /\ pushed' \in 1 .. pushed'
      /\ pushed' \in 0 .. MaxJobs /\ pushed' \notin 0 .. pushed
  BY <1>1, <1>2, SMTT(30)
<1>4. pool.Queue \in Seq(1 .. pushed') /\ pool.Queue \in Seq(1 .. MaxJobs)
  BY <1>1, <1>3, SeqMonotonic DEF Pool
<1> DEFINE s == Append(pool.Queue, pushed')
<1>5. s \in Seq(1 .. pushed') /\ s \in Seq(1 .. MaxJobs)
  BY <1>3, <1>4, AppendProperties
<1> HIDE DEF s
<1>6. pool' = [pool EXCEPT !.Queue = s]
  BY <1>2 DEF s
<1>7. /\ pool' \in Pool /\ pool'.Queue = s
      /\ pool'.Aborting = pool.Aborting
      /\ pool'.FenceProcessing = pool.FenceProcessing
      /\ pool'.JobsProcessing = pool.JobsProcessing
      /\ pool'.WorkersIdle = pool.WorkersIdle
      /\ pool'.WorkersRunning = pool.WorkersRunning
  BY <1>1, <1>5, <1>6 DEF Pool
<1>8. Counted(pool', at')
  BY <1>1, <1>2, <1>7 DEF Counted
<1>9. /\ \A v \in Workers : job[v] \in fences' <=> job[v] \in fences
      /\ fences' \subseteq 1 .. pushed'
      /\ job' \in [Workers -> 0 .. pushed']
  BY <1>1, <1>2, <1>3
<1>10. Fenced(pool', at', job', fences')
  <2>1. pool'.FenceProcessing = pool.FenceProcessing /\ at' = at /\ job' = job
    BY <1>2, <1>7
  <2> QED BY <1>1, <1>9, <2>1 DEF Fenced
<1>11. Closing(pool', at', loop', endRequest')
  BY <1>1, <1>2, <1>7 DEF Closing
<1>12. Good(pool', at', job', loop', endRequest', pushed', fences')
  BY <1>1, <1>2, <1>3, <1>5, <1>7, <1>8, <1>9, <1>10, <1>11 DEF Good
<1>13. Good(pool, at, job, loop, endRequest, pushed, fences)'
  BY <1>12
<1>14. asleep' \subseteq Workers
  BY <1>1, SMTT(30) DEF PushJob, AfterNotifyOne, ProcTypes
<1>15. ProcTypes' /\ ObjectOutlivesHandles'
  BY <1>1, <1>2, <1>14 DEF ProcTypes, ObjectOutlivesHandles, procVars
<1> QED BY <1>1, <1>2, <1>13, <1>15 DEF IInv

\* Abort keeps the invariant, called from a job.
LEMMA AbortKeeps ==
  ASSUME IInv, NEW w \in Workers, JobAborts(w)
  PROVE  IInv'
<1>1. /\ Good(pool, at, job, loop, endRequest, pushed, fences)
      /\ at \in [Workers -> Places] /\ ProcTypes /\ ObjectOutlivesHandles
      /\ pool \in Pool
      /\ Counted(pool, at) /\ Fenced(pool, at, job, fences)
      /\ Closing(pool, at, loop, endRequest)
  BY DEF IInv, Good
<1>2. /\ loop' = loop /\ endRequest' = endRequest /\ at' = at /\ job' = job
      /\ pushed' = pushed /\ fences' = fences /\ at[w] = "work"
      /\ pool' = [pool EXCEPT !.Aborting = TRUE, !.Queue = <<>>]
      /\ asleep' \subseteq asleep
      /\ UNCHANGED procVars
  BY DEF JobAborts, Abort
<1>3. /\ pool' \in Pool /\ pool'.Queue = <<>> /\ pool'.Aborting
      /\ pool'.FenceProcessing = pool.FenceProcessing
      /\ pool'.JobsProcessing = pool.JobsProcessing
      /\ pool'.WorkersIdle = pool.WorkersIdle
      /\ pool'.WorkersRunning = pool.WorkersRunning
  <2> DEFINE e == <<>>
             t == TRUE
  <2>1. e \in Seq(1 .. MaxJobs) /\ t \in BOOLEAN /\ t
    BY SMTT(30)
  <2>2. pool' = [pool EXCEPT !.Aborting = t, !.Queue = e]
    BY <1>2
  <2> HIDE DEF e, t
  <2>3. /\ pool' \in Pool /\ pool'.Queue = e /\ pool'.Aborting = t
        /\ pool'.FenceProcessing = pool.FenceProcessing
        /\ pool'.JobsProcessing = pool.JobsProcessing
        /\ pool'.WorkersIdle = pool.WorkersIdle
        /\ pool'.WorkersRunning = pool.WorkersRunning
    BY <1>1, <2>1, <2>2 DEF Pool
  <2> QED BY <2>1, <2>3 DEF e
<1>4. Counted(pool', at') /\ Fenced(pool', at', job', fences')
  <2>1. Counted(pool', at')
    BY <1>1, <1>2, <1>3 DEF Counted
  <2>2. Fenced(pool', at, job, fences)
    BY <1>1, <1>3 DEF Fenced
  <2> QED BY <1>2, <2>1, <2>2
<1>5. Closing(pool', at', loop', endRequest')
  BY <1>1, <1>2, <1>3 DEF Closing
<1>6. Good(pool', at', job', loop', endRequest', pushed', fences')
  BY <1>1, <1>2, <1>3, <1>4, <1>5, SMTT(30) DEF Good
<1>7. Good(pool, at, job, loop, endRequest, pushed, fences)'
  BY <1>6
<1>8. ProcTypes' /\ ObjectOutlivesHandles'
  BY <1>1, <1>2 DEF ProcTypes, ObjectOutlivesHandles, procVars
<1> QED BY <1>1, <1>2, <1>7, <1>8 DEF IInv

\* The steps of the loop thread that start and join the workers.
LEMMA LoopKeeps ==
  ASSUME IInv,
         \/ Process \/ UVSlotEnd \/ ProcessReturns
         \/ \E w \in Workers : StartThread(w)
  PROVE  IInv'
<1>1. /\ Good(pool, at, job, loop, endRequest, pushed, fences)
      /\ at \in [Workers -> Places] /\ ProcTypes /\ ObjectOutlivesHandles
      /\ pool \in Pool /\ loop \in Loops /\ endRequest \in BOOLEAN
      /\ Counted(pool, at) /\ Fenced(pool, at, job, fences)
      /\ Closing(pool, at, loop, endRequest)
  BY DEF IInv, Good
<1>2. /\ job' = job /\ pushed' = pushed /\ fences' = fences
      /\ asleep' = asleep /\ UNCHANGED procVars
  BY DEF Process, UVSlotEnd, ProcessReturns, StartThread
<1>3. ProcTypes'
  BY <1>1, <1>2 DEF ProcTypes, procVars
<1>4. CASE Process \/ ProcessReturns
  <2>1. at' = at /\ pool' = [pool EXCEPT !.Aborting = FALSE]
    BY <1>4 DEF Process, ProcessReturns
  <2>2. /\ pool' \in Pool /\ pool'.Queue = pool.Queue /\ ~pool'.Aborting
        /\ pool'.FenceProcessing = pool.FenceProcessing
        /\ pool'.JobsProcessing = pool.JobsProcessing
        /\ pool'.WorkersIdle = pool.WorkersIdle
        /\ pool'.WorkersRunning = pool.WorkersRunning
    BY <1>1, <2>1 DEF Pool
  <2>3. Counted(pool', at') /\ Fenced(pool', at', job', fences')
    <3>1. Counted(pool', at)
      BY <1>1, <2>2 DEF Counted
    <3>2. Fenced(pool', at, job, fences)
      BY <1>1, <2>2 DEF Fenced
    <3> QED BY <1>2, <2>1, <3>1, <3>2
  <2>4. loop' \in Loops /\ endRequest' \in BOOLEAN
    BY <1>1, <1>4 DEF Process, ProcessReturns, Loops
  <2>5. Closing(pool', at', loop', endRequest')
    <3>1. CASE Process
      BY <1>1, <2>1, <2>2, <3>1 DEF Process, Closing
    <3>2. CASE ProcessReturns
      BY <1>1, <2>1, <2>2, <3>2 DEF ProcessReturns, Closing
    <3> QED BY <1>4, <3>1, <3>2
  <2>6. Good(pool', at', job', loop', endRequest', pushed', fences')
    BY <1>1, <1>2, <2>1, <2>2, <2>3, <2>4, <2>5 DEF Good
  <2>7. Good(pool, at, job, loop, endRequest, pushed, fences)'
    BY <2>6
  <2>8. ObjectOutlivesHandles'
    BY <1>1, <1>2, <2>1 DEF ObjectOutlivesHandles, procVars
  <2> QED BY <1>1, <1>3, <2>1, <2>7, <2>8 DEF IInv
<1>5. CASE UVSlotEnd
  <2>1. at' = at /\ pool' = pool /\ loop' = "join" /\ endRequest' = FALSE
    BY <1>5 DEF UVSlotEnd
  <2>2. Closing(pool', at', loop', endRequest')
    BY <1>1, <1>5, <2>1 DEF UVSlotEnd, Closing
  <2>3. Good(pool', at', job', loop', endRequest', pushed', fences')
    BY <1>1, <1>2, <2>1, <2>2 DEF Good, Loops
  <2>4. Good(pool, at, job, loop, endRequest, pushed, fences)'
    BY <2>3
  <2>5. ObjectOutlivesHandles'
    BY <1>1, <1>2, <2>1 DEF ObjectOutlivesHandles, procVars
  <2> QED BY <1>1, <1>3, <2>1, <2>4, <2>5 DEF IInv
<1>6. ASSUME NEW w \in Workers, StartThread(w)
      PROVE  IInv'
  <2>1. /\ at[w] = "unborn" /\ at' = [at EXCEPT ![w] = "born"]
        /\ pool' = pool /\ endRequest' = endRequest /\ loop = "begin"
        /\ loop' = IF w = ThreadCount THEN "run" ELSE "begin"
        /\ \A v \in Workers : v < w => at[v] # "unborn"
    BY <1>6 DEF StartThread
  <2>2. /\ at'[w] = "born" /\ OthersStay(at, at', w) /\ "born" \in Places
        /\ at' \in [Workers -> Places \cup {"head"}]
    BY <1>1, <2>1 DEF OthersStay, Places
  <2>3. /\ Count(at', Processing) = Count(at, Processing)
        /\ Count(at', Idle) = Count(at, Idle)
        /\ Count(at', Running) = Count(at, Running)
    <3>1. at[w] = "unborn" /\ at'[w] = "born" /\ OthersStay(at, at', w)
      BY <2>1, <2>2
    <3> QED BY <3>1, CountMoves, Kinds, SMTT(30)
  <2>4. Counted(pool', at')
    BY <1>1, <2>1, <2>3 DEF Counted
  <2>5. Fenced(pool', at', job', fences')
    <3>1. /\ \A v \in Workers : at'[v] \in Processing <=> at[v] \in Processing
          /\ \A v \in Workers : at'[v] = "fence" <=> at[v] = "fence"
      BY <2>1, <2>2 DEF OthersStay, Processing
    <3> QED BY <1>1, <1>2, <2>1, <3>1 DEF Fenced
  <2>6. loop' = "run" => \A v \in Workers : at'[v] # "unborn"
    <3>1. loop' = "run" => \A v \in Workers : v = w \/ v < w
      BY <2>1, PoolAssumption, SMTT(30) DEF Workers
    <3> QED BY <2>1, <2>2, <3>1 DEF OthersStay
  <2>7. loop' \in {"begin", "run"}
    BY <2>1
  <2>8. Closing(pool', at', loop', endRequest')
    BY <1>1, <2>1, <2>2, <2>6, <2>7 DEF Closing, OthersStay
  <2>9. Good(pool', at', job', loop', endRequest', pushed', fences')
    BY <1>1, <1>2, <2>1, <2>2, <2>4, <2>5, <2>7, <2>8 DEF Good, Loops
  <2> QED BY <1>1, <1>2, <2>1, <2>2, <2>9, WorkerMoves DEF ProcTypes
<1> QED BY <1>4, <1>5, <1>6

\* The invariant holds initially and every step keeps it.
LEMMA Inductive ==
  /\ Init => IInv
  /\ IInv /\ [Next]_vars => IInv'
<1>1. ASSUME Init
      PROVE  IInv
  <2>1. /\ pool \in Pool /\ pool.Queue \in Seq(1 .. 0) /\ pool.Queue = <<>>
        /\ pool.JobsProcessing = 0 /\ pool.WorkersIdle = 0
        /\ pool.WorkersRunning = 0 /\ ~pool.Aborting
    BY <1>1, SMTT(30) DEF Init, Pool
  <2>2. /\ \A v \in Workers : at[v] = "unborn" /\ job[v] = 0
        /\ loop = "setup" /\ endRequest = FALSE /\ pushed = 0 /\ fences = {}
    BY <1>1 DEF Init
  <2>3. ASSUME NEW P, "unborn" \notin P
        PROVE  Count(at, P) = 0
    <3>1. {v \in Workers : at[v] \in P} = {}
      BY <2>2, <2>3
    <3> QED BY <3>1, FS_EmptySet DEF Count
  <2>4. Counted(pool, at)
    BY <2>1, <2>3, Kinds DEF Counted
  <2>5. Fenced(pool, at, job, fences)
    <3>1. "unborn" \notin Processing \cup {"fence"}
      BY DEF Processing
    <3> QED BY <2>2, <3>1 DEF Fenced
  <2>6. Closing(pool, at, loop, endRequest)
    BY <2>1, <2>2 DEF Closing
  <2>7. at \in [Workers -> Places] /\ job \in [Workers -> 0 .. 0]
    BY <1>1, SMTT(30) DEF Init, Places
  <2>8. Good(pool, at, job, loop, endRequest, pushed, fences)
    <3>1. loop \in Loops /\ endRequest \in BOOLEAN /\ fences \subseteq 1 .. pushed
      BY <2>2 DEF Loops
    <3>3. pushed \in 0 .. MaxJobs
      BY <2>2, PoolAssumption, SMTT(30)
    <3>2. pool.Queue \in Seq(1 .. pushed) /\ job \in [Workers -> 0 .. pushed]
      BY <2>1, <2>2, <2>7
    <3> QED BY <2>1, <2>4, <2>5, <2>6, <2>7, <3>1, <3>2, <3>3 DEF Good
  <2>9. ProcTypes /\ ObjectOutlivesHandles
    BY <1>1, PoolAssumption, SMTT(30)
    DEF Init, ProcTypes, ObjectOutlivesHandles
  <2> QED BY <2>7, <2>8, <2>9 DEF IInv
<1>2. ASSUME IInv, [Next]_vars
      PROVE  IInv'
  <2>1. CASE UNCHANGED vars
    <3>1. /\ Good(pool, at, job, loop, endRequest, pushed, fences)'
          /\ at' = at /\ asleep' = asleep /\ UNCHANGED procVars
      BY <1>2, <2>1 DEF vars, queueVars, IInv
    <3> QED BY <1>2, <3>1
            DEF IInv, ProcTypes, ObjectOutlivesHandles, procVars
  <2>2. CASE UserPushes
    BY <1>2, <2>2, PushJobKeeps DEF UserPushes
  <2>3. CASE Process \/ UVSlotEnd \/ ProcessReturns
    BY <1>2, <2>3, LoopKeeps
  <2>4. ASSUME NEW w \in Workers,
               WorkerStep(w) \/ LoopStep(w) \/ JobStep(w) \/ SpuriousWakeup(w)
        PROVE  IInv'
    <3>1. CASE WorkerStep(w)
      BY <1>2, <3>1, WorkerTurns, FenceWakesKeeps, ProcessStepsKeep
         DEF WorkerStep
    <3>2. CASE LoopStep(w)
      BY <1>2, <3>2, LoopKeeps, CallbacksKeep DEF LoopStep
    <3>3. CASE JobPushes(w)
      <4>1. loop # "returned" /\ PushJob
        BY <1>2, <3>3 DEF JobPushes, IInv, Good, Closing
      <4> QED BY <1>2, <4>1, PushJobKeeps
    <3>4. CASE JobAborts(w) \/ JobRunsProcess(w)
      BY <1>2, <3>4, AbortKeeps, ProcessStepsKeep
    <3>5. CASE SpuriousWakeup(w)
      <4>1. /\ Good(pool, at, job, loop, endRequest, pushed, fences)'
            /\ at' = at /\ asleep' \subseteq asleep /\ UNCHANGED procVars
        BY <1>2, <3>5 DEF SpuriousWakeup, queueVars, IInv
      <4> QED BY <1>2, <4>1
              DEF IInv, ProcTypes, ObjectOutlivesHandles, procVars
    <3> QED BY <2>4, <3>1, <3>2, <3>3, <3>4, <3>5 DEF JobStep
  <2> QED BY <1>2, <2>1, <2>2, <2>3, <2>4 DEF Next
<1> QED BY <1>1, <1>2

-----------------------------------------------------------------------------
(* What follows from the invariant.                                        *)

\* The types of the pool hold for every number of threads, jobs and child
\* processes; no counter goes below zero.
THEOREM TypeCorrect == Spec => []TypeOK
<1>1. ASSUME IInv
      PROVE  TypeOK
  <2>1. /\ Good(pool, at, job, loop, endRequest, pushed, fences)
        /\ at \in [Workers -> Places] /\ ProcTypes
    BY <1>1 DEF IInv
  <2>2. /\ pool \in Pool /\ loop \in Loops /\ endRequest \in BOOLEAN
        /\ pushed \in 0 .. MaxJobs /\ fences \subseteq 1 .. pushed
        /\ job \in [Workers -> 0 .. pushed]
    BY <2>1 DEF Good
  <2>3. job \in [Workers -> 0 .. MaxJobs]
    BY <2>2, PoolAssumption, SMTT(30)
  <2> QED BY <2>1, <2>2, <2>3 DEF TypeOK, ProcTypes
<1> QED BY <1>1, Inductive, PTL DEF Spec

\* UVSlotEnd never blocks the loop while a worker needs it, for every number
\* of threads, also when the first ones end before the last one is started.
THEOREM JoinAlwaysSafe == Spec => []JoinIsSafe
<1>1. ASSUME IInv
      PROVE  JoinIsSafe
  <2>1. /\ Closing(pool, at, loop, endRequest) /\ at \in [Workers -> Places]
        /\ ObjectOutlivesHandles
    BY <1>1 DEF IInv, Good
  <2>2. \A w \in Workers : at[w] # "head"
    BY <2>1 DEF Places, Processing
  <2> QED BY <2>1, <2>2 DEF JoinIsSafe, Closing, ObjectOutlivesHandles
<1> QED BY <1>1, Inductive, PTL DEF Spec

\* A callback of a child process always finds its process object, and
\* RunProcess returns only after the last one.
THEOREM ObjectsOutliveHandles == Spec => []ObjectOutlivesHandles
<1>1. IInv => ObjectOutlivesHandles
  BY DEF IInv
<1> QED BY <1>1, Inductive, PTL DEF Spec


-----------------------------------------------------------------------------
(* No lost wakeup.  A worker behind a fence sleeps on Condition without    *)
(* being counted by WorkersIdle, which PushJob asks before it notifies:    *)
(* that is safe only because no such worker is left asleep once the fence  *)
(* is over.                                                                *)

Coming == {"born", "idle", "blocked"}

\* The workers on their way to the queue.
Arriving(a, z) == {v \in Workers \ z : a[v] \in Coming}

\* While no fence is in the way, those who sleep on Condition are counted by
\* WorkersIdle, and as long as one sleeps every job has somebody who comes.
Roused(p, a, z) ==
  ~p.Aborting /\ ~p.FenceProcessing =>
    /\ \A v \in z : a[v] # "blocked"
    /\ (\E v \in z : a[v] = "idle") =>
         Len(p.Queue) <= Cardinality(Arriving(a, z))

\* How the number of the workers on their way changes: it does not fall when
\* none of them is missing, falls by one at most when one is, and rises when
\* there is a new one.
LEMMA ArrivingChanges ==
  ASSUME NEW a, NEW b, NEW z, NEW y, NEW w
  PROVE  /\ Cardinality(Arriving(a, z)) \in Nat
         /\ Arriving(a, z) \subseteq Arriving(b, y) =>
              Cardinality(Arriving(a, z)) <= Cardinality(Arriving(b, y))
         /\ Arriving(a, z) \ {w} \subseteq Arriving(b, y) =>
              Cardinality(Arriving(a, z)) <= Cardinality(Arriving(b, y)) + 1
         /\ /\ Arriving(a, z) \subseteq Arriving(b, y)
            /\ w \in Arriving(b, y) /\ w \notin Arriving(a, z)
            => Cardinality(Arriving(a, z)) + 1 <= Cardinality(Arriving(b, y))
<1> DEFINE A == Arriving(a, z)
           B == Arriving(b, y)
<1>1. IsFiniteSet(A) /\ IsFiniteSet(B)
  <2>1. A \subseteq Workers /\ B \subseteq Workers
    BY DEF Arriving
  <2> QED BY <2>1, WorkersFinite, FS_Subset
<1> HIDE DEF A, B
<1>2. Cardinality(A) \in Nat /\ Cardinality(B) \in Nat
  BY <1>1, FS_CardinalityType
<1>3. A \subseteq B => Cardinality(A) <= Cardinality(B)
  BY <1>1, FS_Subset
<1>4. ASSUME A \ {w} \subseteq B
      PROVE  Cardinality(A) <= Cardinality(B) + 1
  <2>1. IsFiniteSet(B \cup {w}) /\ A \subseteq B \cup {w}
    BY <1>1, <1>4, FS_AddElement
  <2>2. Cardinality(A) <= Cardinality(B \cup {w})
    BY <2>1, FS_Subset
  <2>3. \/ Cardinality(B \cup {w}) = Cardinality(B)
        \/ Cardinality(B \cup {w}) = Cardinality(B) + 1
    BY <1>1, FS_AddElement
  <2> QED BY <1>2, <2>2, <2>3, SMTT(30)
<1>5. ASSUME A \subseteq B, w \in B, w \notin A
      PROVE  Cardinality(A) + 1 <= Cardinality(B)
  <2>1. IsFiniteSet(A \cup {w}) /\ A \cup {w} \subseteq B
    BY <1>1, <1>5, FS_AddElement
  <2>2. Cardinality(A \cup {w}) <= Cardinality(B)
    BY <2>1, <1>1, FS_Subset
  <2>3. Cardinality(A \cup {w}) = Cardinality(A) + 1
    BY <1>1, <1>5, FS_AddElement
  <2> QED BY <1>2, <2>2, <2>3
<1> QED BY <1>2, <1>3, <1>4, <1>5 DEF A, B

\* A turn of the main loop by w, which came for a job: it takes one away, or
\* finds none, or finds a fence in the way.
LEMMA TurnRouses ==
  ASSUME NEW p \in Pool, NEW z \in SUBSET Workers, NEW w \in Workers,
         at \in [Workers -> Places], Turn(w, p, z),
         ~p.Aborting /\ ~p.FenceProcessing =>
           /\ \A v \in z : at[v] # "blocked"
           /\ (\E v \in z : at[v] = "idle") =>
                Len(p.Queue) <= Cardinality(Arriving(at, z) \ {w}) + 1
  PROVE  Roused(pool', at', asleep')
<1>1. CASE p.Aborting /\ Leave(w, p, z)
  <2>1. pool'.Aborting
    BY <1>1 DEF Leave, Pool
  <2> QED BY <2>1 DEF Roused
<1>2. CASE ~p.Aborting /\ p.Queue = <<>> /\ WaitIdle(w, p, z)
  <2>1. /\ pool'.Queue = <<>> /\ pool'.FenceProcessing = p.FenceProcessing
        /\ at' = [at EXCEPT ![w] = "idle"] /\ asleep' = z \cup {w}
    BY <1>2 DEF WaitIdle, Pool
  <2>2. \A v \in z : at'[v] = "blocked" => at[v] = "blocked"
    BY <2>1
  <2>3. at'[w] = "idle"
    BY <2>1
  <2>4. Len(pool'.Queue) = 0
    BY <2>1, SMTT(30)
  <2>5. Len(pool'.Queue) <= Cardinality(Arriving(at', asleep'))
    BY <2>4, ArrivingChanges, SMTT(30)
  <2> QED BY <1>2, <2>1, <2>2, <2>3, <2>5 DEF Roused
<1>3. CASE p.FenceProcessing /\ WaitForFence(w, p, z)
  BY <1>3 DEF WaitForFence, Roused
<1>4. CASE ~p.Aborting /\ p.Queue # <<>> /\ ~p.FenceProcessing
           /\ PopJob(w, p, z)
  <2>1. pool'.Queue = Tail(p.Queue)
    BY <1>4 DEF PopJob, Pool
  <2>2. /\ at'[w] \in {"fence", "work"}
        /\ \A v \in Workers : v # w => at'[v] = at[v]
        /\ asleep' \in {z, z \cup {w}}
    BY <1>4 DEF PopJob
  <2>3. \A v \in asleep' : at'[v] \in {"idle", "blocked"} =>
                             v \in z /\ at'[v] = at[v]
    BY <2>2
  <2>4. Arriving(at', asleep') = Arriving(at, z) \ {w}
    BY <2>2 DEF Arriving, Coming
  <2>5. Len(pool'.Queue) = Len(p.Queue) - 1 /\ Len(p.Queue) \in Nat
    BY <1>4, <2>1, HeadTailProperties, SMTT(30) DEF Pool
  <2>6. Cardinality(Arriving(at', asleep')) \in Nat
    BY ArrivingChanges
  <2> DEFINE k == Cardinality(Arriving(at', asleep'))
             m == Len(p.Queue)
  <2>7. (\E v \in z : at[v] = "idle") => m <= k + 1
    BY <1>4, <2>4
  <2>8. m <= k + 1 => Len(pool'.Queue) <= k
    <3> HIDE DEF k
    <3> QED BY <2>5, <2>6, SMTT(30) DEF k
  <2>9. \A v \in asleep' : at'[v] # "blocked"
    BY <1>4, <2>3
  <2>10. (\E v \in asleep' : at'[v] = "idle") => \E v \in z : at[v] = "idle"
    BY <2>3
  <2> QED BY <2>7, <2>8, <2>9, <2>10 DEF Roused
<1> QED BY <1>1, <1>2, <1>3, <1>4 DEF Turn


\* A worker that comes for a job, or that has ended one, takes its turn.
LEMMA TurnsRouse ==
  ASSUME IInv, Roused(pool, at, asleep), NEW w \in Workers,
         \/ WorkerStarts(w) \/ WorkerWakes(w) \/ BlockedWakes(w)
         \/ JobEnds(w)
  PROVE  Roused(pool, at, asleep)'
<1>1. /\ pool \in Pool /\ at \in [Workers -> Places] /\ asleep \subseteq Workers
      /\ Counted(pool, at)
  BY DEF IInv, Good, ProcTypes
<1>2. ASSUME NEW p \in Pool, Turn(w, p, asleep),
             p.Aborting = pool.Aborting, p.Queue = pool.Queue,
             p.FenceProcessing = pool.FenceProcessing
      PROVE  Roused(pool', at', asleep')
  <2> DEFINE A == Arriving(at, asleep)
             B == Arriving(at, asleep \cup {w})
  <2>1. B = A \ {w}
    BY DEF Arriving
  <2>2. Cardinality(A) \in Nat /\ Cardinality(B) \in Nat
    BY ArrivingChanges
  <2>3. Cardinality(A) <= Cardinality(B) + 1
    <3>1. A \ {w} \subseteq B
      BY <2>1
    <3> QED BY <3>1, ArrivingChanges
  <2>4. Len(p.Queue) \in Nat
    BY SMTT(30) DEF Pool
  <2>5. Len(p.Queue) <= Cardinality(A) => Len(p.Queue) <= Cardinality(B) + 1
    <3> HIDE DEF A, B
    <3> QED BY <2>2, <2>3, <2>4, SMTT(30)
  <2>6. ~p.Aborting /\ ~p.FenceProcessing =>
          /\ \A v \in asleep : at[v] # "blocked"
          /\ (\E v \in asleep : at[v] = "idle") =>
               Len(p.Queue) <= Cardinality(A)
    BY <1>2 DEF Roused
  <2>7. ~p.Aborting /\ ~p.FenceProcessing =>
          /\ \A v \in asleep : at[v] # "blocked"
          /\ (\E v \in asleep : at[v] = "idle") =>
               Len(p.Queue) <= Cardinality(A \ {w}) + 1
    <3> HIDE DEF A, B
    <3> QED BY <2>1, <2>5, <2>6
  <2> QED BY <1>1, <1>2, <2>7, TurnRouses
<1>3. CASE WorkerStarts(w)
  <2> DEFINE k == pool.WorkersRunning + 1
             p == [pool EXCEPT !.WorkersRunning = k]
  <2>1. k \in Nat
    BY <1>1, SMTT(30) DEF Pool
  <2>2. Turn(w, p, asleep)
    BY <1>3 DEF WorkerStarts
  <2> HIDE DEF k
  <2>3. /\ p \in Pool /\ p.Aborting = pool.Aborting /\ p.Queue = pool.Queue
        /\ p.FenceProcessing = pool.FenceProcessing
    BY <1>1, <2>1 DEF Pool
  <2> HIDE DEF p
  <2> QED BY <1>2, <2>2, <2>3
<1>4. CASE WorkerWakes(w)
  <2> DEFINE k == pool.WorkersIdle - 1
             p == [pool EXCEPT !.WorkersIdle = k]
  <2>1. k \in Nat
    <3>1. pool.WorkersIdle \in Nat /\ pool.WorkersIdle = Count(at, Idle)
      BY <1>1 DEF Pool, Counted
    <3>2. at[w] \in Idle
      BY <1>4 DEF WorkerWakes, Idle
    <3>3. Count(at, Idle) # 0
      BY <3>2, CountFew
    <3> QED BY <3>1, <3>3, SMTT(30)
  <2>2. Turn(w, p, asleep)
    BY <1>4 DEF WorkerWakes
  <2> HIDE DEF k
  <2>3. /\ p \in Pool /\ p.Aborting = pool.Aborting /\ p.Queue = pool.Queue
        /\ p.FenceProcessing = pool.FenceProcessing
    BY <1>1, <2>1 DEF Pool
  <2> HIDE DEF p
  <2> QED BY <1>2, <2>2, <2>3
<1>5. CASE BlockedWakes(w)
  BY <1>1, <1>2, <1>5 DEF BlockedWakes
<1>6. CASE JobEnds(w)
  <2> DEFINE k == pool.JobsProcessing - 1
             f == pool.FenceProcessing /\ job[w] \notin fences
             p == AfterJob(w)
             z == SleepersAfterJob(w)
  <2>1. k \in Nat
    <3>1. pool.JobsProcessing \in Nat
          /\ pool.JobsProcessing = Count(at, Processing)
      BY <1>1 DEF Pool, Counted
    <3>2. at[w] \in Processing
      BY <1>6 DEF JobEnds, Processing
    <3>3. Count(at, Processing) # 0
      BY <3>2, CountFew
    <3> QED BY <3>1, <3>3, SMTT(30)
  <2>2. at[w] = "work" /\ Turn(w, p, z)
    BY <1>6 DEF JobEnds
  <2>3. /\ p \in Pool /\ p.Aborting = pool.Aborting /\ p.Queue = pool.Queue
        /\ p.FenceProcessing = f
    <3>1. p = [pool EXCEPT !.JobsProcessing = k, !.FenceProcessing = f]
      BY DEF AfterJob
    <3>2. f \in BOOLEAN
      OBVIOUS
    <3> HIDE DEF k, f, p
    <3> QED BY <1>1, <2>1, <3>1, <3>2 DEF Pool
  <2>4. z \subseteq asleep
    BY DEF SleepersAfterJob
  <2>5. job[w] \in fences => \A v \in z : at[v] \notin {"idle", "blocked"}
    BY DEF SleepersAfterJob, OnCondition
  <2>6. job[w] \notin fences => Arriving(at, z) = Arriving(at, asleep)
    BY DEF SleepersAfterJob, OnConditionFence, Arriving, Coming
  <2>7. Arriving(at, z) \ {w} = Arriving(at, z)
    BY <2>2 DEF Arriving, Coming
  <2>8. Cardinality(Arriving(at, z)) \in Nat /\ Len(pool.Queue) \in Nat
    BY <1>1, ArrivingChanges, SMTT(30) DEF Pool
  <2> HIDE DEF p, z
  <2>9. ~p.Aborting /\ ~p.FenceProcessing =>
          /\ \A v \in z : at[v] # "blocked"
          /\ (\E v \in z : at[v] = "idle") =>
               Len(p.Queue) <= Cardinality(Arriving(at, z))
    <3>1. CASE job[w] \in fences
      BY <2>5, <3>1
    <3>2. CASE job[w] \notin fences
      BY <2>3, <2>4, <2>6, <3>2 DEF Roused
    <3> QED BY <3>1, <3>2
  <2>10. Len(p.Queue) <= Cardinality(Arriving(at, z)) =>
           Len(p.Queue) <= Cardinality(Arriving(at, z) \ {w}) + 1
    <3>1. Len(p.Queue) \in Nat
      BY <2>3, <2>8
    <3>2. Cardinality(Arriving(at, z) \ {w}) = Cardinality(Arriving(at, z))
      BY <2>7
    <3> QED BY <2>8, <3>1, <3>2, SMTT(30)
  <2>11. ~p.Aborting /\ ~p.FenceProcessing =>
          /\ \A v \in z : at[v] # "blocked"
          /\ (\E v \in z : at[v] = "idle") =>
               Len(p.Queue) <= Cardinality(Arriving(at, z) \ {w}) + 1
    BY <2>9, <2>10
  <2> QED BY <1>1, <2>2, <2>3, <2>4, <2>11, TurnRouses
<1> QED BY <1>3, <1>4, <1>5, <1>6


\* PushJob wakes somebody for its job, unless nobody sleeps on Condition.
LEMMA PushJobRouses ==
  ASSUME IInv, Roused(pool, at, asleep), PushJob
  PROVE  Roused(pool, at, asleep)'
<1>1. /\ pool \in Pool /\ pushed' \in 1 .. MaxJobs
      /\ asleep \subseteq Workers /\ Counted(pool, at)
  BY PoolAssumption, SMTT(30) DEF IInv, Good, ProcTypes, PushJob
<1>2. /\ at' = at /\ pool'.Queue = Append(pool.Queue, pushed')
      /\ pool'.Aborting = pool.Aborting
      /\ pool'.FenceProcessing = pool.FenceProcessing
  BY <1>1 DEF PushJob, Pool
<1>3. Len(pool'.Queue) = Len(pool.Queue) + 1 /\ Len(pool.Queue) \in Nat
  BY <1>1, <1>2, AppendProperties, SMTT(30) DEF Pool
<1> SUFFICES ASSUME ~pool.Aborting, ~pool.FenceProcessing
             PROVE  /\ \A v \in asleep' : at[v] # "blocked"
                    /\ (\E v \in asleep' : at[v] = "idle") =>
                         Len(pool'.Queue) <= Cardinality(Arriving(at, asleep'))
  BY <1>2 DEF Roused
<1>4. /\ \A v \in asleep : at[v] # "blocked"
      /\ (\E v \in asleep : at[v] = "idle") =>
           Len(pool.Queue) <= Cardinality(Arriving(at, asleep))
  BY DEF Roused
<1>5. CASE OnCondition = {}
  <2>1. asleep' = asleep
    BY <1>5 DEF PushJob, AfterNotifyOne
  <2> QED BY <1>4, <1>5, <2>1 DEF OnCondition
<1>6. CASE OnCondition # {}
  <2>1. PICK u \in asleep : at[u] = "idle"
    BY <1>4, <1>6 DEF OnCondition
  <2>2. pool.WorkersIdle # 0
    <3>1. u \in Workers /\ at[u] \in Idle
      BY <1>1, <2>1 DEF Idle
    <3>2. Count(at, Idle) # 0
      BY <3>1, CountFew
    <3> QED BY <1>1, <3>2 DEF Counted
  <2>3. asleep' \in AfterNotifyOne
    BY <2>2 DEF PushJob
  <2>4. PICK w \in OnCondition : asleep' = asleep \ {w}
    BY <1>6, <2>3 DEF AfterNotifyOne
  <2>5. /\ Arriving(at, asleep) \subseteq Arriving(at, asleep')
        /\ w \in Arriving(at, asleep') /\ w \notin Arriving(at, asleep)
    BY <1>1, <2>4 DEF OnCondition, Arriving, Coming
  <2> DEFINE k == Cardinality(Arriving(at, asleep))
             m == Cardinality(Arriving(at, asleep'))
  <2>6. k + 1 <= m /\ k \in Nat /\ m \in Nat
    BY <2>5, ArrivingChanges
  <2>7. Len(pool.Queue) <= k
    BY <1>4, <2>1
  <2> HIDE DEF k, m
  <2>8. Len(pool'.Queue) <= m
    BY <1>3, <2>6, <2>7, SMTT(30)
  <2>9. \A v \in asleep' : at[v] # "blocked"
    BY <1>4, <2>4
  <2> QED BY <2>8, <2>9 DEF m
<1> QED BY <1>5, <1>6

\* A step that takes nobody off the way to the queue, puts nobody to sleep on
\* Condition and adds no job leaves no worker forgotten.
LEMMA NoneLost ==
  ASSUME Roused(pool, at, asleep),
         pool'.Queue = pool.Queue, Len(pool.Queue) \in Nat,
         ~pool'.Aborting => ~pool.Aborting,
         ~pool'.FenceProcessing => ~pool.FenceProcessing,
         Arriving(at, asleep) \subseteq Arriving(at', asleep'),
         \A v \in asleep' : at'[v] \in {"idle", "blocked"} =>
                              v \in asleep /\ at'[v] = at[v]
  PROVE  Roused(pool, at, asleep)'
<1> DEFINE k == Cardinality(Arriving(at, asleep))
           m == Cardinality(Arriving(at', asleep'))
<1>1. k <= m /\ k \in Nat /\ m \in Nat
  BY ArrivingChanges
<1>2. ~pool'.Aborting /\ ~pool'.FenceProcessing =>
        \A v \in asleep' : at'[v] # "blocked"
  BY DEF Roused
<1>3. ~pool'.Aborting /\ ~pool'.FenceProcessing
      /\ (\E v \in asleep' : at'[v] = "idle") => Len(pool.Queue) <= k
  BY DEF Roused
<1> HIDE DEF k, m
<1>4. Len(pool.Queue) <= k => Len(pool'.Queue) <= m
  BY <1>1, SMTT(30)
<1> QED BY <1>2, <1>3, <1>4 DEF Roused, m


\* The steps that leave the queue alone: waiting for a fence or for a child
\* process, the callbacks, the loop thread, Abort and spurious wakeups.
LEMMA OthersRouse ==
  ASSUME IInv, Roused(pool, at, asleep), NEW w \in Workers,
         \/ FenceWakes(w) \/ SendRequest(w) \/ AwaitProcess(w) \/ LoopStep(w)
         \/ JobAborts(w) \/ JobRunsProcess(w) \/ SpuriousWakeup(w)
  PROVE  Roused(pool, at, asleep)'
<1>1. /\ pool \in Pool /\ at \in [Workers -> Places] /\ asleep \subseteq Workers
      /\ Fenced(pool, at, job, fences)
  BY DEF IInv, Good, ProcTypes
<1>2. Len(pool.Queue) \in Nat
  BY <1>1, SMTT(30) DEF Pool
<1>3. CASE FenceWakes(w)
  <2>1. at[w] = "fence" /\ pool.FenceProcessing
    BY <1>1, <1>3 DEF FenceWakes, Fenced
  <2>2. CASE pool.Aborting
    <3>1. pool'.Aborting
      BY <1>1, <1>3, <2>2 DEF FenceWakes, Leave, Pool
    <3> QED BY <3>1 DEF Roused
  <2>3. CASE ~pool.Aborting
    <3>1. pool'.FenceProcessing
      BY <1>1, <1>3, <2>1, <2>3 DEF FenceWakes, Pool
    <3> QED BY <3>1 DEF Roused
  <2> QED BY <2>2, <2>3
<1>4. CASE JobAborts(w)
  <2>1. pool'.Aborting
    BY <1>1, <1>4 DEF JobAborts, Abort, Pool
  <2> QED BY <2>1 DEF Roused
<1>5. CASE SendRequest(w) \/ JobRunsProcess(w)
  <2>1. /\ pool' = pool /\ asleep' = asleep
        /\ at[w] \in {"work", "send"} /\ at'[w] \in {"send", "await"}
        /\ \A v \in Workers : v # w => at'[v] = at[v]
    BY <1>1, <1>5 DEF SendRequest, JobRunsProcess, queueVars
  <2>2. /\ Arriving(at, asleep) \subseteq Arriving(at', asleep')
        /\ \A v \in asleep' : at'[v] \in {"idle", "blocked"} =>
                                v \in asleep /\ at'[v] = at[v]
    BY <1>1, <2>1 DEF Arriving, Coming
  <2> QED BY <1>2, <2>1, <2>2, NoneLost
<1>6. CASE AwaitProcess(w)
  <2>1. /\ pool' = pool /\ asleep' \in {asleep, asleep \cup {w}}
        /\ at[w] = "await" /\ at'[w] \in {"work", "await"}
        /\ \A v \in Workers : v # w => at'[v] = at[v]
    BY <1>1, <1>6 DEF AwaitProcess, queueVars
  <2>2. /\ Arriving(at, asleep) \subseteq Arriving(at', asleep')
        /\ \A v \in asleep' : at'[v] \in {"idle", "blocked"} =>
                                v \in asleep /\ at'[v] = at[v]
    BY <1>1, <2>1 DEF Arriving, Coming
  <2> QED BY <1>2, <2>1, <2>2, NoneLost
<1>7. CASE UVProcessStart(w) \/ (\E h \in Handles : HandleCloses(w, h))
           \/ SpuriousWakeup(w)
  <2>1. pool' = pool /\ at' = at /\ asleep' \subseteq asleep
    BY <1>7
       DEF UVProcessStart, HandleCloses, Finished, SpuriousWakeup, queueVars
  <2>2. Arriving(at, asleep) \subseteq Arriving(at', asleep')
    BY <2>1 DEF Arriving
  <2> QED BY <1>2, <2>1, <2>2, NoneLost
<1>8. CASE StartThread(w)
  <2>1. /\ pool' = pool /\ asleep' = asleep
        /\ at[w] = "unborn" /\ at'[w] = "born"
        /\ \A v \in Workers : v # w => at'[v] = at[v]
    BY <1>1, <1>8 DEF StartThread
  <2>2. /\ Arriving(at, asleep) \subseteq Arriving(at', asleep')
        /\ \A v \in asleep' : at'[v] \in {"idle", "blocked"} =>
                                v \in asleep /\ at'[v] = at[v]
    BY <1>1, <2>1 DEF Arriving, Coming
  <2> QED BY <1>2, <2>1, <2>2, NoneLost
<1> QED BY <1>3, <1>4, <1>5, <1>6, <1>7, <1>8 DEF LoopStep

\* No step loses a wakeup.
LEMMA RousedInductive ==
  /\ Init => Roused(pool, at, asleep)
  /\ IInv /\ Roused(pool, at, asleep) /\ [Next]_vars =>
       Roused(pool, at, asleep)'
<1>1. Init => Roused(pool, at, asleep)
  BY DEF Init, Roused
<1>2. ASSUME IInv, Roused(pool, at, asleep), [Next]_vars
      PROVE  Roused(pool, at, asleep)'
  <2>1. CASE UNCHANGED vars
    <3>1. pool' = pool /\ at' = at /\ asleep' = asleep
      BY <2>1 DEF vars, queueVars
    <3> QED BY <1>2, <3>1
  <2>2. CASE UserPushes
    BY <1>2, <2>2, PushJobRouses DEF UserPushes
  <2>3. CASE UVSlotEnd
    <3>1. pool' = pool /\ at' = at /\ asleep' = asleep
      BY <2>3 DEF UVSlotEnd
    <3> QED BY <1>2, <3>1
  <2>4. CASE Process
    <3>1. /\ at' = at /\ asleep' = asleep
          /\ pool \in Pool /\ ~pool.Aborting
      BY <1>2, <2>4 DEF Process, IInv, Good, Closing
    <3>2. /\ pool'.Queue = pool.Queue
          /\ pool'.FenceProcessing = pool.FenceProcessing
      BY <2>4, <3>1 DEF Process, Pool
    <3>3. Len(pool.Queue) \in Nat
      BY <3>1, SMTT(30) DEF Pool
    <3>4. Arriving(at, asleep) = Arriving(at', asleep')
      BY <3>1
    <3> QED BY <1>2, <3>1, <3>2, <3>3, <3>4, NoneLost
  <2>5. CASE ProcessReturns
    <3>1. \A v \in asleep' : at'[v] = "done"
      BY <1>2, <2>5 DEF ProcessReturns, IInv, ProcTypes
    <3> QED BY <3>1 DEF Roused
  <2>6. ASSUME NEW w \in Workers,
               WorkerStep(w) \/ LoopStep(w) \/ JobStep(w) \/ SpuriousWakeup(w)
        PROVE  Roused(pool, at, asleep)'
    <3>1. CASE JobPushes(w)
      BY <1>2, <3>1, PushJobRouses DEF JobPushes
    <3>2. CASE WorkerStarts(w) \/ WorkerWakes(w) \/ BlockedWakes(w)
               \/ JobEnds(w)
      BY <1>2, <3>2, TurnsRouse
    <3>3. CASE FenceWakes(w) \/ SendRequest(w) \/ AwaitProcess(w)
               \/ LoopStep(w) \/ JobAborts(w) \/ JobRunsProcess(w)
               \/ SpuriousWakeup(w)
      BY <1>2, <3>3, OthersRouse
    <3> QED BY <2>6, <3>1, <3>2, <3>3 DEF WorkerStep, JobStep
  <2> QED BY <1>2, <2>1, <2>2, <2>3, <2>4, <2>5, <2>6 DEF Next
<1> QED BY <1>1, <1>2

\* For every number of threads and jobs: PushJob's single notify_one, which
\* it leaves out when WorkersIdle is zero and which may go to a worker that
\* has to sleep again, never leaves a job in the queue that no worker is
\* coming for while one sleeps on Condition.
THEOREM NoWakeupLost == Spec => []NoWorkerForgotten
<1>1. Roused(pool, at, asleep) => NoWorkerForgotten
  <2> SUFFICES ASSUME Roused(pool, at, asleep), ~pool.Aborting,
                      ~pool.FenceProcessing, OnCondition # {}
               PROVE  Len(pool.Queue) <= Cardinality(Arriving(at, asleep))
    BY DEF NoWorkerForgotten, Arriving, Coming
  <2>1. \E v \in asleep : at[v] = "idle"
    BY DEF Roused, OnCondition
  <2> QED BY <2>1 DEF Roused
<1> QED BY <1>1, Inductive, RousedInductive, PTL DEF Spec

-----------------------------------------------------------------------------
(* The pool implements JobQueue, the queue with fences that the header      *)
(* Source/cmWorkerPool.h promises.                                         *)

Waiting == IF Closed THEN <<>> ELSE Held \o pool.Queue

Doing == [w \in Workers |-> IF at[w] \in Processing THEN job[w] ELSE 0]

\* Only one worker can be meant by the choice in Held.
LEMMA HeldChoice ==
  ASSUME NEW a, NEW jb, NEW w \in Workers, a[w] = "fence",
         \A u, v \in Workers : a[u] = "fence" /\ a[v] = "fence" => u = v
  PROVE  /\ \E v \in Workers : a[v] = "fence"
         /\ jb[CHOOSE v \in Workers : a[v] = "fence"] = jb[w]
<1> DEFINE u == CHOOSE v \in Workers : a[v] = "fence"
<1>1. u \in Workers /\ a[u] = "fence"
  OBVIOUS
<1> HIDE DEF u
<1>2. u = w
  BY <1>1
<1> QED BY <1>2 DEF u

\* The job held back for a fence, by the worker that holds it.
LEMMA HeldIs ==
  ASSUME IInv
  PROVE  /\ \A w \in Workers : at[w] = "fence" => Held = <<job[w]>>
         /\ (\A w \in Workers : at[w] # "fence") => Held = <<>>
         /\ Held \in Seq(Nat)
<1>1. /\ \A u, v \in Workers : at[u] = "fence" /\ at[v] = "fence" => u = v
      /\ \A v \in Workers : job[v] \in Nat
  BY PoolAssumption, SMTT(30) DEF IInv, Good, Fenced
<1>2. (\A w \in Workers : at[w] # "fence") => Held = <<>> /\ Held \in Seq(Nat)
  BY SMTT(30) DEF Held
<1>3. ASSUME NEW w \in Workers, at[w] = "fence"
      PROVE  Held = <<job[w]>> /\ Held \in Seq(Nat)
  <2>1. Held = <<job[w]>>
    BY <1>1, <1>3, HeldChoice DEF Held
  <2> QED BY <1>1, <2>1, SMTT(30)
<1> QED BY <1>2, <1>3

\* The same after a step.
LEMMA HeldNext ==
  ASSUME IInv'
  PROVE  \A w \in Workers : at'[w] = "fence" => Held' = <<job'[w]>>
<1>1. \A u, v \in Workers : at'[u] = "fence" /\ at'[v] = "fence" => u = v
  BY DEF IInv, Good, Fenced
<1> QED BY <1>1, HeldChoice DEF Held

\* A step that moves no worker in or out of a job or a fence, and leaves jobs
\* and queue alone, is a stuttering step of the abstract specification.
LEMMA SameView ==
  ASSUME IInv, IInv', job' = job, pool'.Queue = pool.Queue,
         Closed' = Closed, pushed' = pushed, fences' = fences,
         \A v \in Workers : at'[v] \in Processing <=> at[v] \in Processing,
         \A v \in Workers : at'[v] = "fence" <=> at[v] = "fence"
  PROVE  UNCHANGED <<Waiting, Doing, pushed, fences, Closed>>
<1>1. Doing' = Doing
  BY DEF Doing
<1>2. Held' = Held
  <2>1. CASE \A v \in Workers : at[v] # "fence"
    BY <2>1, HeldIs DEF Held
  <2>2. CASE \E v \in Workers : at[v] = "fence"
    <3>1. PICK v \in Workers : at[v] = "fence"
      BY <2>2
    <3>2. Held = <<job[v]>>
      BY <3>1, HeldIs
    <3> QED BY <3>1, <3>2, HeldNext
  <2> QED BY <2>1, <2>2
<1> QED BY <1>1, <1>2 DEF Waiting

\* What a turn of the main loop is to the abstract specification: nothing but
\* the end of the worker's job, if it had one, or the start of the next one.
LEMMA TurnTakes ==
  ASSUME IInv, IInv', NEW w \in Workers, at[w] # "fence",
         NEW p, NEW z,
         p.Queue = pool.Queue, p.Aborting = pool.Aborting,
         Good(p, [at EXCEPT ![w] = "head"], [job EXCEPT ![w] = 0],
              loop, endRequest, pushed, fences),
         Turn(w, p, z)
  PROVE  LET d == [Doing EXCEPT ![w] = 0]
         IN  /\ pushed' = pushed /\ fences' = fences /\ Closed' = Closed
             /\ \/ Doing' = d /\ Waiting' = Waiting
                \/ Abstract!Take(d, w)
<1> DEFINE a == [at EXCEPT ![w] = "head"]
           jb == [job EXCEPT ![w] = 0]
           d == [Doing EXCEPT ![w] = 0]
<1>1. /\ at \in [Workers -> Places] /\ job \in [Workers -> 0 .. pushed]
      /\ pool \in Pool /\ pool.Queue \in Seq(1 .. pushed)
      /\ loop' = loop /\ pushed' = pushed /\ fences' = fences
      /\ fences \subseteq 1 .. pushed /\ pushed \in Nat
  BY PoolAssumption, SMTT(30) DEF IInv, Good, Turn
<1>2. /\ a[w] = "head" /\ jb[w] = 0
      /\ \A v \in Workers : v # w => a[v] = at[v] /\ jb[v] = job[v]
  BY <1>1
<1>3. /\ d \in [Workers -> 0 .. pushed] /\ d[w] = 0
      /\ \A v \in Workers : v # w =>
           d[v] = IF at[v] \in Processing THEN job[v] ELSE 0
  <2>1. /\ Doing \in [Workers -> 0 .. pushed]
        /\ \A v \in Workers :
             Doing[v] = IF at[v] \in Processing THEN job[v] ELSE 0
    BY <1>1, SMTT(30) DEF Doing
  <2> HIDE DEF a, jb
  <2> QED BY <1>1, <2>1, SMTT(30)
<1>4. Fenced(p, a, jb, fences) /\ Counted(p, a) /\ p \in Pool
  BY DEF Good
<1>5. /\ Doing' = [v \in Workers |-> IF at'[v] \in Processing
                                     THEN job'[v] ELSE 0]
      /\ DOMAIN d = Workers
  BY <1>3 DEF Doing
<1>6. CASE \/ p.Aborting /\ Leave(w, p, z)
           \/ ~p.Aborting /\ p.Queue = <<>> /\ WaitIdle(w, p, z)
           \/ /\ ~p.Aborting /\ p.Queue # <<>> /\ p.FenceProcessing
              /\ WaitForFence(w, p, z)
  <2>1. /\ \E x \in {"done", "idle", "blocked"} : at' = [at EXCEPT ![w] = x]
        /\ job' = jb
    BY <1>6 DEF Leave, WaitIdle, WaitForFence
  <2>2. /\ at'[w] \notin Processing /\ at'[w] # "fence"
        /\ \A v \in Workers : v # w => at'[v] = at[v] /\ job'[v] = job[v]
    BY <1>1, <1>2, <2>1 DEF Processing
  <2>3. pool'.Queue = p.Queue /\ pool'.Aborting = p.Aborting
    <3>1. CASE pool' = p
      BY <3>1
    <3>2. CASE pool' = [p EXCEPT !.WorkersRunning = @ - 1]
      BY <1>4, <3>2 DEF Pool
    <3>3. CASE pool' = [p EXCEPT !.WorkersIdle = @ + 1]
      BY <1>4, <3>3 DEF Pool
    <3> QED BY <1>6, <3>1, <3>2, <3>3 DEF Leave, WaitIdle, WaitForFence
  <2>4. Doing' = d
    <3>1. \A v \in Workers : d[v] = IF at'[v] \in Processing
                                    THEN job'[v] ELSE 0
      BY <1>3, <2>2
    <3> QED BY <1>3, <1>5, <3>1
  <2>5. Held' = Held
    <3>1. CASE \A v \in Workers : at[v] # "fence"
      <4>1. \A v \in Workers : at'[v] # "fence"
        BY <2>2, <3>1
      <4> QED BY <3>1, <4>1 DEF Held
    <3>2. ASSUME NEW v \in Workers, at[v] = "fence"
          PROVE  Held' = Held
      <4>1. at'[v] = "fence" /\ job'[v] = job[v]
        BY <2>2, <3>2
      <4>2. Held = <<job[v]>>
        BY <3>2, HeldIs
      <4> QED BY <4>1, <4>2, HeldNext
    <3> QED BY <3>1, <3>2
  <2>6. Closed' = Closed
    BY <1>1, <2>3 DEF Closed
  <2>7. Waiting' = Waiting
    BY <2>3, <2>5, <2>6 DEF Waiting
  <2> QED BY <1>1, <2>4, <2>6, <2>7
<1>7. CASE /\ ~p.Aborting /\ p.Queue # <<>> /\ ~p.FenceProcessing
           /\ PopJob(w, p, z)
  <2> DEFINE j == Head(p.Queue)
             wait == j \in fences /\ p.JobsProcessing # 0
  <2>1. /\ job' = [job EXCEPT ![w] = j]
        /\ at' = [at EXCEPT ![w] = IF wait THEN "fence" ELSE "work"]
    BY <1>7 DEF PopJob
  <2>2. pool'.Queue = Tail(p.Queue) /\ pool'.Aborting = p.Aborting
    <3> DEFINE q == [p EXCEPT !.Queue = Tail(@), !.FenceProcessing = j \in fences]
    <3>1. q.Queue = Tail(p.Queue) /\ q.Aborting = p.Aborting
      BY <1>4 DEF Pool
    <3>2. LET r == [q EXCEPT !.JobsProcessing = @ + 1]
          IN  r.Queue = q.Queue /\ r.Aborting = q.Aborting
      BY <1>4 DEF Pool
    <3> QED BY <1>7, <3>1, <3>2 DEF PopJob
  <2>3. /\ j \in 1 .. pushed /\ j # 0
        /\ p.Queue = <<j>> \o Tail(p.Queue)
    <3>1. p.Queue \in Seq(1 .. pushed) /\ p.Queue # <<>>
      BY <1>1, <1>7
    <3> QED BY <1>1, <3>1, HeadTailProperties, SMTT(30)
  <2>4. /\ \A v \in Workers : jb[v] \notin fences /\ a[v] # "fence"
        /\ 0 \notin fences
    BY <1>1, <1>4, <1>7 DEF Fenced
  <2>5. \A v \in Workers : at[v] # "fence"
    BY <1>2, <2>4
  <2>6. ~Closed /\ Waiting = p.Queue
    <3>1. loop # "returned"
      <4>1. Closing(p, a, loop, endRequest)
        BY DEF Good
      <4> QED BY <1>2, <4>1 DEF Closing
    <3>2. Held = <<>>
      BY <2>5 DEF Held
    <3>3. <<>> \o pool.Queue = pool.Queue
      BY <1>1, ConcatEmptySeq
    <3> QED BY <1>7, <3>1, <3>2, <3>3 DEF Closed, Waiting
  <2>7. ~Closed' /\ Closed' = Closed
    BY <1>1, <1>7, <2>2, <2>6 DEF Closed
  <2>8. /\ at'[w] = (IF wait THEN "fence" ELSE "work") /\ job'[w] = j
        /\ \A v \in Workers : v # w => at'[v] = at[v] /\ job'[v] = job[v]
    BY <1>1, <2>1
  <2> HIDE DEF j, a, jb, d
  <2>9. CASE wait
    <3>1. at'[w] = "fence" /\ at'[w] \notin Processing
      BY <2>8, <2>9 DEF Processing
    <3>2. Doing' = d
      <4>1. \A v \in Workers : d[v] = IF at'[v] \in Processing
                                      THEN job'[v] ELSE 0
        BY <1>3, <2>8, <3>1
      <4> QED BY <1>3, <1>5, <4>1
    <3>3. Held' = <<j>>
      BY <2>8, <3>1, HeldNext
    <3>4. Waiting' = Waiting
      BY <2>2, <2>3, <2>6, <2>7, <3>3 DEF Waiting
    <3> QED BY <1>1, <2>7, <3>2, <3>4 DEF d
  <2>10. CASE ~wait
    <3>1. at'[w] = "work" /\ at'[w] \in Processing
      BY <2>8, <2>10 DEF Processing
    <3>2. Doing' = [d EXCEPT ![w] = j]
      <4>1. \A v \in Workers : [d EXCEPT ![w] = j][v] =
                                 IF at'[v] \in Processing THEN job'[v] ELSE 0
        BY <1>3, <2>8, <3>1
      <4> QED BY <1>3, <1>5, <4>1
    <3>3. Held' = <<>>
      <4>1. \A v \in Workers : at'[v] # "fence"
        BY <2>5, <2>8, <3>1
      <4> QED BY <4>1 DEF Held
    <3>4. Waiting' = Tail(p.Queue)
      <4>1. Tail(p.Queue) \in Seq(1 .. pushed)
        BY <1>1, <1>7, HeadTailProperties
      <4>2. <<>> \o Tail(p.Queue) = Tail(p.Queue)
        BY <4>1, ConcatEmptySeq
      <4> QED BY <2>2, <2>7, <3>3, <4>2 DEF Waiting
    <3>5. \A v \in Workers : d[v] \notin fences
      BY <1>2, <1>3, <2>4
    <3>6. j \in fences => \A v \in Workers : d[v] = 0
      <4>1. p.JobsProcessing = 0 => \A v \in Workers : a[v] \notin Processing
        BY <1>4, CountFew DEF Counted
      <4> QED BY <1>2, <1>3, <2>10, <4>1
    <3>7. Abstract!Take(d, w)
      <4>1. /\ Waiting # <<>> /\ d[w] = 0 /\ Head(Waiting) = j
            /\ \A v \in Workers : d[v] \notin fences
            /\ Head(Waiting) \in fences => \A v \in Workers : d[v] = 0
            /\ Doing' = [d EXCEPT ![w] = Head(Waiting)]
            /\ Waiting' = Tail(Waiting)
        BY <1>3, <1>7, <2>6, <3>2, <3>4, <3>5, <3>6 DEF j
      <4> QED BY <4>1 DEF Abstract!Take, Waiting, Doing
    <3> QED BY <1>1, <2>7, <3>7 DEF d
  <2> QED BY <2>9, <2>10
<1> QED BY <1>6, <1>7 DEF Turn

\* A step of the abstract specification, or a stuttering step of it.
AbstractStep == Abstract!Next \/ UNCHANGED <<Waiting, Doing, pushed, fences, Closed>>

\* The steps that end in a turn of the main loop begin or end a job.
LEMMA TurnsRefine ==
  ASSUME IInv, IInv', NEW w \in Workers,
         WorkerStarts(w) \/ WorkerWakes(w) \/ BlockedWakes(w) \/ JobEnds(w)
  PROVE  AbstractStep
<1>1. /\ Good(pool, at, job, loop, endRequest, pushed, fences)
      /\ pool \in Pool /\ at \in [Workers -> Places]
      /\ job \in [Workers -> 0 .. pushed]
      /\ Fenced(pool, at, job, fences)
  BY DEF IInv, Good
<1> DEFINE d == [Doing EXCEPT ![w] = 0]
           T == /\ pushed' = pushed /\ fences' = fences /\ Closed' = Closed
                /\ \/ Doing' = d /\ Waiting' = Waiting
                   \/ Abstract!Take(d, w)
<1>2. CASE WorkerStarts(w) \/ WorkerWakes(w) \/ BlockedWakes(w)
  <2>1. T
    <3>1. CASE WorkerStarts(w)
      <4> DEFINE p == [pool EXCEPT !.WorkersRunning = @ + 1]
      <4>1. p.Queue = pool.Queue /\ p.Aborting = pool.Aborting
        BY <1>1 DEF Pool
      <4>2. Good(p, [at EXCEPT ![w] = "head"], [job EXCEPT ![w] = 0],
                 loop, endRequest, pushed, fences)
        BY <1>1, <3>1, ComesToHead DEF WorkerStarts
      <4>3. at[w] = "born" /\ Turn(w, p, asleep)
        BY <3>1 DEF WorkerStarts
      <4> HIDE DEF p
      <4> QED BY <4>1, <4>2, <4>3, TurnTakes
    <3>2. CASE WorkerWakes(w)
      <4> DEFINE p == [pool EXCEPT !.WorkersIdle = @ - 1]
      <4>1. p.Queue = pool.Queue /\ p.Aborting = pool.Aborting
        BY <1>1 DEF Pool
      <4>2. Good(p, [at EXCEPT ![w] = "head"], [job EXCEPT ![w] = 0],
                 loop, endRequest, pushed, fences)
        BY <1>1, <3>2, ComesToHead DEF WorkerWakes
      <4>3. at[w] = "idle" /\ Turn(w, p, asleep)
        BY <3>2 DEF WorkerWakes
      <4> HIDE DEF p
      <4> QED BY <4>1, <4>2, <4>3, TurnTakes
    <3>3. CASE BlockedWakes(w)
      <4>1. Good(pool, [at EXCEPT ![w] = "head"], [job EXCEPT ![w] = 0],
                 loop, endRequest, pushed, fences)
        BY <1>1, <3>3, ComesToHead DEF BlockedWakes
      <4> QED BY <3>3, <4>1, TurnTakes DEF BlockedWakes
    <3> QED BY <1>2, <3>1, <3>2, <3>3
  <2>2. d = Doing
    <3>1. Doing[w] = 0
      BY <1>2 DEF Doing, Processing, WorkerStarts, WorkerWakes, BlockedWakes
    <3> QED BY <3>1 DEF Doing
  <2> HIDE DEF d
  <2>3. CASE Doing' = d /\ Waiting' = Waiting
    BY <2>1, <2>2, <2>3 DEF AbstractStep
  <2>4. CASE Abstract!Take(d, w)
    <3>1. Abstract!Take(Doing, w)
      BY <2>2, <2>4
    <3>2. Abstract!Begin(w)
      BY <2>1, <3>1 DEF Abstract!Begin, Doing
    <3> QED BY <3>2 DEF AbstractStep, Abstract!Next
  <2> QED BY <2>1, <2>3, <2>4
<1>3. CASE JobEnds(w)
  <2> DEFINE p == AfterJob(w)
  <2>1. p.Queue = pool.Queue /\ p.Aborting = pool.Aborting
    BY <1>1 DEF Pool, AfterJob
  <2>2. Good(p, [at EXCEPT ![w] = "head"], [job EXCEPT ![w] = 0],
             loop, endRequest, pushed, fences)
    BY <1>1, <1>3, ComesToHead DEF JobEnds, AfterJob
  <2>3. at[w] = "work" /\ Turn(w, p, SleepersAfterJob(w))
    BY <1>3 DEF JobEnds
  <2> HIDE DEF p
  <2>4. T
    BY <2>1, <2>2, <2>3, TurnTakes
  <2>5. Doing[w] # 0
    BY <1>1, <2>3 DEF Doing, Processing, Fenced
  <2>6. Abstract!End(w)
    <3>1. CASE Doing' = d /\ Waiting' = Waiting
      BY <2>4, <2>5, <3>1 DEF Abstract!End, Doing, Waiting
    <3>2. CASE Abstract!Take(d, w)
      BY <2>4, <2>5, <3>2 DEF Abstract!End, Doing
    <3> QED BY <2>4, <3>1, <3>2
  <2> QED BY <2>6 DEF AbstractStep, Abstract!Next
<1> QED BY <1>2, <1>3

\* What is put in front of a sequence is its head, the rest its tail.
LEMMA HeadTailOfCons ==
  ASSUME NEW S, NEW x \in S, NEW s \in Seq(S)
  PROVE  /\ <<x>> \o s # <<>>
         /\ Head(<<x>> \o s) = x
         /\ Tail(<<x>> \o s) = s
<1> DEFINE t == <<x>> \o s
<1>1. t \in Seq(S) /\ Len(t) = 1 + Len(s) /\ Len(s) \in Nat
  BY SMTT(30)
<1>2. t[1] = x /\ \A i \in 1 .. Len(s) : t[i + 1] = s[i]
  BY SMTT(30)
<1> HIDE DEF t
<1>3. t # <<>> /\ Head(t) = x
  BY <1>1, <1>2, SMTT(30)
<1>4. Tail(t) \in Seq(S) /\ Len(Tail(t)) = Len(s)
      /\ \A i \in 1 .. Len(s) : Tail(t)[i] = s[i]
  BY <1>1, <1>2, <1>3, HeadTailProperties, SMTT(30)
<1>5. Tail(t) = s
  BY <1>4, SeqEqual
<1> QED
  BY <1>3, <1>5 DEF t

\* A fence job is begun when its worker finds that no other job is processed.
LEMMA FenceRefines ==
  ASSUME IInv, IInv', NEW w \in Workers, FenceWakes(w)
  PROVE  AbstractStep
<1>1. /\ at[w] = "fence" /\ at \in [Workers -> Places]
      /\ pool \in Pool /\ job \in [Workers -> 0 .. pushed]
      /\ pool.Queue \in Seq(1 .. pushed) /\ pushed \in Nat
      /\ fences \subseteq 1 .. pushed
      /\ Counted(pool, at) /\ Fenced(pool, at, job, fences)
      /\ Closing(pool, at, loop, endRequest)
      /\ loop' = loop /\ pushed' = pushed /\ fences' = fences
  BY PoolAssumption, SMTT(30) DEF IInv, Good, FenceWakes
<1>2. job[w] \in fences /\ job[w] \in 1 .. pushed /\ job[w] # 0
      /\ Held = <<job[w]>>
  BY <1>1, HeldIs DEF Fenced
<1>3. CASE /\ pool.Aborting
           /\ Leave(w, [pool EXCEPT !.FenceProcessing = FALSE],
                    asleep \ OnCondition)
  <2>1. /\ at' = [at EXCEPT ![w] = "done"] /\ job' = [job EXCEPT ![w] = 0]
        /\ pool' = [[pool EXCEPT !.FenceProcessing = FALSE]
                      EXCEPT !.WorkersRunning = @ - 1]
    BY <1>3 DEF Leave
  <2>2. pool'.Aborting = pool.Aborting
    BY <1>1, <2>1 DEF Pool
  <2>3. Closed /\ Closed' /\ Closed' = Closed
    BY <1>3, <2>2 DEF Closed
  <2>4. Doing' = Doing
    <3>1. "done" \notin Processing /\ "fence" \notin Processing
      BY DEF Processing
    <3>2. \A v \in Workers : (IF at'[v] \in Processing THEN job'[v] ELSE 0)
                             = (IF at[v] \in Processing THEN job[v] ELSE 0)
      BY <1>1, <2>1, <3>1
    <3> QED BY <3>2 DEF Doing
  <2> QED BY <1>1, <2>3, <2>4 DEF AbstractStep, Waiting
<1>4. CASE UNCHANGED <<pool, endRequest, at, job>>
  <2>1. Closed' = Closed
    BY <1>1, <1>4 DEF Closed
  <2> QED BY <1>1, <1>4, <2>1, SameView DEF AbstractStep
<1>5. CASE /\ ~pool.Aborting /\ pool.JobsProcessing = 0
           /\ pool' = [pool EXCEPT !.JobsProcessing = @ + 1]
           /\ at' = [at EXCEPT ![w] = "work"]
           /\ UNCHANGED <<endRequest, asleep, job>>
  <2>1. pool'.Aborting = pool.Aborting /\ pool'.Queue = pool.Queue
    BY <1>1, <1>5 DEF Pool
  <2>2. ~Closed /\ ~Closed'
    <3>1. loop # "returned"
      BY <1>1 DEF Closing
    <3> QED BY <1>1, <1>5, <2>1, <3>1 DEF Closed
  <2>3. Waiting = <<job[w]>> \o pool.Queue
    BY <1>2, <2>2 DEF Waiting
  <2>4. Waiting # <<>> /\ Head(Waiting) = job[w] /\ Tail(Waiting) = pool.Queue
    <3>1. LET s == <<job[w]>> \o pool.Queue
          IN  s # <<>> /\ Head(s) = job[w] /\ Tail(s) = pool.Queue
      BY <1>1, <1>2, HeadTailOfCons
    <3> QED BY <2>3, <3>1
  <2>5. Waiting' = pool.Queue
    <3>1. \A v \in Workers : at'[v] # "fence"
      BY <1>1, <1>2, <1>5 DEF Fenced
    <3>2. Held' = <<>>
      BY <3>1 DEF Held
    <3>3. <<>> \o pool.Queue = pool.Queue
      BY <1>1, ConcatEmptySeq
    <3> QED BY <2>1, <2>2, <3>2, <3>3 DEF Waiting
  <2>6. \A v \in Workers : Doing[v] = 0
    BY <1>1, <1>5, CountFew DEF Counted, Doing
  <2>7. Doing' = [Doing EXCEPT ![w] = job[w]]
    <3>1. \A v \in Workers : v # w => at'[v] = at[v]
      BY <1>1, <1>5
    <3>2. at'[w] \in Processing /\ job' = job
      BY <1>1, <1>5 DEF Processing
    <3> QED BY <3>1, <3>2 DEF Doing
  <2>8. 0 \notin fences
    BY <1>1, SMTT(30)
  <2>9. /\ Waiting # <<>> /\ Doing[w] = 0
        /\ \A v \in Workers : Doing[v] \notin fences
        /\ Head(Waiting) \in fences => \A v \in Workers : Doing[v] = 0
        /\ Doing' = [Doing EXCEPT ![w] = Head(Waiting)]
        /\ Waiting' = Tail(Waiting)
        /\ UNCHANGED <<pushed, fences, Closed>>
    BY <1>1, <2>2, <2>4, <2>5, <2>6, <2>7, <2>8 DEF Closed
  <2>10. Abstract!Begin(w)
    BY <2>9 DEF Abstract!Begin, Abstract!Take, Waiting, Doing
  <2> QED BY <2>10 DEF AbstractStep, Abstract!Next
<1> QED BY <1>3, <1>4, <1>5 DEF FenceWakes

LEMMA AppendAfter ==
  ASSUME NEW h \in Seq(Nat), NEW q \in Seq(Nat), NEW n \in Nat
  PROVE  Append(h \o q, n) = h \o Append(q, n)
<1>1. <<n>> \in Seq(Nat) /\ h \o q \in Seq(Nat)
  BY SMTT(30)
<1>2. Append(h \o q, n) = (h \o q) \o <<n>>
  BY <1>1, AppendIsConcat
<1>3. Append(q, n) = q \o <<n>>
  BY AppendIsConcat
<1>4. (h \o q) \o <<n>> = h \o (q \o <<n>>)
  BY <1>1, ConcatAssociative, SMTT(30)
<1> QED BY <1>2, <1>3, <1>4

\* PushJob is Push, and Abort is Close.
LEMMA JobStepsRefine ==
  ASSUME IInv, IInv', NEW w \in Workers,
         UserPushes \/ JobPushes(w) \/ JobAborts(w)
  PROVE  AbstractStep
<1>1. /\ at \in [Workers -> Places] /\ pool \in Pool
      /\ pool.Queue \in Seq(1 .. pushed) /\ pushed \in 0 .. MaxJobs
      /\ Closing(pool, at, loop, endRequest) /\ MaxJobs \in Nat
  BY PoolAssumption DEF IInv, Good
<1>2. ~pool.Aborting /\ loop # "returned" /\ loop' = loop
      /\ at' = at /\ job' = job
  BY <1>1 DEF UserPushes, JobPushes, JobAborts, PushJob, Abort, Closing
<1>3. ~Closed /\ Doing' = Doing /\ Held' = Held
  BY <1>2 DEF Closed, Doing, Held
<1>4. CASE UserPushes \/ JobPushes(w)
  <2>1. /\ pushed < MaxJobs /\ pushed' = pushed + 1
        /\ fences' \in {fences, fences \cup {pushed'}}
        /\ pool' = [pool EXCEPT !.Queue = Append(@, pushed')]
    BY <1>4 DEF UserPushes, JobPushes, PushJob
  <2>2. /\ pool'.Queue = Append(pool.Queue, pushed')
        /\ pool'.Aborting = pool.Aborting
    BY <1>1, <2>1 DEF Pool
  <2>3. ~Closed' /\ Closed' = Closed
    BY <1>2, <1>3, <2>2 DEF Closed
  <2>4. Waiting' = Append(Waiting, pushed')
    <3>1. Held \in Seq(Nat) /\ pushed' \in Nat /\ pool.Queue \in Seq(Nat)
      <4>1. 1 .. pushed \subseteq Nat
        BY <1>1, SMTT(30)
      <4> QED BY <1>1, <2>1, <4>1, HeldIs, SeqMonotonic, SMTT(30)
    <3>2. Append(Held \o pool.Queue, pushed') =
            Held \o Append(pool.Queue, pushed')
      BY <3>1, AppendAfter
    <3> QED BY <1>3, <2>2, <2>3, <3>2 DEF Waiting
  <2>5. Abstract!Push
    BY <1>3, <2>1, <2>3, <2>4 DEF Abstract!Push, Waiting, Doing
  <2> QED BY <2>5 DEF AbstractStep, Abstract!Next
<1>5. CASE JobAborts(w)
  <2>1. /\ pool' = [pool EXCEPT !.Aborting = TRUE, !.Queue = <<>>]
        /\ pushed' = pushed /\ fences' = fences
    BY <1>5 DEF JobAborts, Abort
  <2>2. Closed'
    BY <1>1, <2>1 DEF Pool, Closed
  <2>3. Closed' = TRUE
    BY <2>2
  <2>4. Waiting' = <<>>
    BY <2>2 DEF Waiting
  <2>5. Abstract!Close
    BY <1>3, <2>1, <2>3, <2>4 DEF Abstract!Close, Waiting, Doing
  <2> QED BY <2>5 DEF AbstractStep, Abstract!Next
<1> QED BY <1>4, <1>5

\* The other steps are not seen in the abstract specification.
LEMMA OthersRefine ==
  ASSUME IInv, IInv', NEW w \in Workers,
         \/ JobRunsProcess(w) \/ SendRequest(w) \/ AwaitProcess(w)
         \/ UVProcessStart(w) \/ \E h \in Handles : HandleCloses(w, h)
         \/ SpuriousWakeup(w) \/ StartThread(w)
         \/ Process \/ UVSlotEnd \/ ProcessReturns
         \/ UNCHANGED vars
  PROVE  AbstractStep
<1>1. /\ at \in [Workers -> Places] /\ pool \in Pool
      /\ Closing(pool, at, loop, endRequest)
  BY DEF IInv, Good
<1>2. CASE JobRunsProcess(w) \/ SendRequest(w) \/ AwaitProcess(w)
  <2>1. job' = job /\ pool' = pool /\ loop' = loop
        /\ pushed' = pushed /\ fences' = fences
    BY <1>2 DEF JobRunsProcess, SendRequest, AwaitProcess, queueVars
  <2>2. /\ \A v \in Workers : at'[v] \in Processing <=> at[v] \in Processing
        /\ \A v \in Workers : at'[v] = "fence" <=> at[v] = "fence"
    BY <1>1, <1>2 DEF JobRunsProcess, SendRequest, AwaitProcess, Processing
  <2>3. Closed' = Closed
    BY <2>1 DEF Closed
  <2> QED BY <2>1, <2>2, <2>3, SameView DEF AbstractStep
<1>3. CASE \/ UVProcessStart(w) \/ \E h \in Handles : HandleCloses(w, h)
           \/ SpuriousWakeup(w) \/ UNCHANGED vars
  <2>1. /\ at' = at /\ job' = job /\ pool' = pool /\ loop' = loop
        /\ pushed' = pushed /\ fences' = fences
    BY <1>3
       DEF UVProcessStart, HandleCloses, SpuriousWakeup, queueVars, vars
  <2>2. Closed' = Closed
    BY <2>1 DEF Closed
  <2> QED BY <2>1, <2>2, SameView DEF AbstractStep
<1>4. CASE StartThread(w) \/ UVSlotEnd
  <2>1. /\ job' = job /\ pool' = pool /\ pushed' = pushed /\ fences' = fences
        /\ loop # "returned" /\ loop' # "returned"
    BY <1>4 DEF StartThread, UVSlotEnd
  <2>2. /\ \A v \in Workers : at'[v] \in Processing <=> at[v] \in Processing
        /\ \A v \in Workers : at'[v] = "fence" <=> at[v] = "fence"
    BY <1>1, <1>4 DEF StartThread, UVSlotEnd, Processing
  <2>3. Closed' = Closed
    BY <2>1 DEF Closed
  <2> QED BY <2>1, <2>2, <2>3, SameView DEF AbstractStep
<1>5. CASE Process \/ ProcessReturns
  <2>1. /\ job' = job /\ at' = at /\ pushed' = pushed /\ fences' = fences
        /\ pool' = [pool EXCEPT !.Aborting = FALSE]
    BY <1>5 DEF Process, ProcessReturns
  <2>2. pool'.Queue = pool.Queue /\ ~pool'.Aborting
    BY <1>1, <2>1 DEF Pool
  <2>3. Closed' = Closed
    <3>1. CASE Process
      BY <1>1, <2>2, <3>1 DEF Process, Closed, Closing
    <3>2. CASE ProcessReturns
      BY <1>1, <3>2 DEF ProcessReturns, Closed, Closing
    <3> QED BY <1>5, <3>1, <3>2
  <2> QED BY <2>1, <2>2, <2>3, SameView DEF AbstractStep
<1> QED BY <1>2, <1>3, <1>4, <1>5

\* The promise of cmWorkerPool.h, for every number of threads, jobs and child
\* processes: jobs are taken up in the order of the queue, each once and by
\* one worker, a fence job is processed alone, after the jobs before it and
\* before the jobs after it, and after Abort() no job is taken up.
THEOREM PoolIsJobQueue == Spec => IsJobQueue
<1>1. Init => Abstract!Init
  <2> SUFFICES ASSUME Init
               PROVE  Abstract!Init
    OBVIOUS
  <2>1. \A w \in Workers : at[w] = "unborn"
    BY DEF Init
  <2>2. Held = <<>>
    BY <2>1 DEF Held
  <2>3. pool.Queue = <<>> /\ ~pool.Aborting /\ loop = "setup"
    BY DEF Init
  <2>4. ~Closed /\ Closed = FALSE
    BY <2>3 DEF Closed
  <2>5. Waiting = <<>>
    BY <2>2, <2>3, <2>4, SMTT(30) DEF Waiting
  <2>6. Doing = [w \in Workers |-> 0]
    BY <2>1 DEF Doing, Processing
  <2> QED BY <2>4, <2>5, <2>6 DEF Abstract!Init, Init, Waiting, Doing
<1>2. IInv /\ IInv' /\ [Next]_vars => [Abstract!Next]_(Abstract!vars)
  <2> SUFFICES ASSUME IInv, IInv', [Next]_vars
               PROVE  AbstractStep
    BY DEF AbstractStep, Abstract!vars, Waiting, Doing
  <2>1. PICK u \in Workers : TRUE
    BY PoolAssumption, SMTT(30) DEF Workers
  <2>2. CASE UserPushes \/ Process \/ UVSlotEnd \/ ProcessReturns
             \/ UNCHANGED vars
    BY <2>2, JobStepsRefine, OthersRefine
  <2>3. ASSUME NEW w \in Workers,
               WorkerStep(w) \/ LoopStep(w) \/ JobStep(w) \/ SpuriousWakeup(w)
        PROVE  AbstractStep
    <3>1. CASE WorkerStep(w)
      BY <3>1, TurnsRefine, FenceRefines, OthersRefine DEF WorkerStep
    <3>2. CASE LoopStep(w) \/ SpuriousWakeup(w)
      BY <3>2, OthersRefine DEF LoopStep
    <3>3. CASE JobStep(w)
      BY <3>3, JobStepsRefine, OthersRefine DEF JobStep
    <3> QED BY <2>3, <3>1, <3>2, <3>3
  <2> QED BY <2>2, <2>3 DEF Next
<1> QED BY <1>1, <1>2, Inductive, PTL DEF Spec, IsJobQueue, Abstract!Spec
==============================================================================
