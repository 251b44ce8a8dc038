# TLA+ models of CMake's concurrent parts and of its target order

CMake is mostly a sequential program: it reads a language, builds up state and
writes files for other tools.  A few of its parts are not sequential.  `ctest`
runs tests in parallel on one libuv loop, shares a job server with the build
that started it, and can be interrupted, killed and resumed.  The Qt generators
(`AUTOMOC`, `AUTOUIC`) run jobs on a pool of threads with fences and child
processes.  The debugger lets a client stop and resume the script from another
thread.  These parts are modelled here, because their errors are orders of
events that no test was written for.  One sequential algorithm is modelled as
well, the one that decides in which order targets are built: it breaks cycles
of static libraries, and a dependency it loses shows only in some builds.

All paths below are relative to `Source/`.  `PROJECT.json` maps every
definition to the lines it models, lists the parts that are not modelled with
the reason, and lists the hazards with the properties that watch over them.

## Parts and modules

| part | code | modules |
|------|------|---------|
| job server client | `CTest/cmUVJobServerClient.cxx` | `JobServerClient`, `JobServerClientProofs` |
| scheduler of ctest, running one test | `CTest/cmCTestMultiProcessHandler.cxx`, `CTest/cmCTestRunTest.cxx` | `MultiProcessHandler`, `MCMultiProcessHandler`, `MultiProcessHandlerProofs` |
| child process, timer and verdict of one test run | `CTest/cmProcess.cxx`, `CTest/cmCTestRunTest.cxx` | `ChildProcess`, `MCChildProcess`, `ChildProcessProofs` |
| scheduler on a job server | the first two above | `JobServerScheduling`, `MCJobServerScheduling`, `JobServerSchedulingLemmas`, `JobServerSchedulingProofs` |
| worker pool | `cmWorkerPool.cxx`, `cmWorkerPool.h` | `WorkerPool`, `WorkerPoolProofs` |
| what the pool promises | `cmWorkerPool.h` | `JobQueue`, `WorkerPoolProofs` |
| debugger adapter | `cmDebuggerAdapter.cxx`, `cmDebuggerThread.cxx`, `cmDebuggerBreakpointManager.cxx`, `cmDebuggerExceptionManager.cxx` | `DebuggerAdapter`, `MCDebuggerAdapter`, `DebuggerAdapterProofs` |
| target dependencies and order | `cmComputeComponentGraph.cxx`, `cmComputeTargetDepends.cxx`, `cmGlobalGenerator.cxx` | `ComponentGraph`, `TargetDepends`, `MCTargetDepends` |

The scheduler sees a test run as one start and one end; `ChildProcess` is what
lies between them.  The scheduler and the job server client are composed in
`JobServerScheduling`.  The other parts share no state with these or with each
other: ctest, the Qt generators and cmake are different processes, and the
debugger follows the script while it is configured, before the target order is
computed.

### JobServerClient

The members of `cmUVJobServerClient` are one record `cl`; the member functions
are operators from records to records, so that a chain of calls in one callback
is a composition and a callback is one action.  `pool` and `others` are the
tokens in the pipe (POSIX) or semaphore (Windows) and those other clients hold.
`phase` is the phase of the libuv loop: idle handles, i/o, timers.  The order
matters, because the implicit token comes from an idle handle, explicit ones
from i/o or a timer.  Every read, write or wait may fail and disconnect the
client.  `SyncRelease` says whether `OnToken` may release its token before it
returns.  Parsing `MAKEFLAGS` and opening descriptors is left out.

### MultiProcessHandler

`RunTests`, `StartNextTests`, `StartTestProcess`, `FinishTestProcess`,
`LockResources` and `UnlockResources`, repeat groups, the checkpoint file and
`CheckResume`, with `StartTest`, `EndTest` and `StartAgain` of
`cmCTestRunTest`.  ctest runs every callback on one thread, so one callback is
one action, with one exception.  The interrupt flag is set by a signal and read
at the head of each turn of the loop in `StartNextTests`; that loop is
therefore one action per turn (`ScanStarts`, `ScanSkips`, `ScanEnds`), and
`StartTestProcess` is a step of its own.  The variables are the members of the
handler under their own names; `scan` holds the locals of `StartNextTests`.

A *suite* (a set of tests with their properties, and the options of the command
line) is chosen in `Init`, so that one run covers many suites.  The order of
tests is any order the cost list may leave.  A resource is a lock, a processor
a count.  Children end with any status, tests may fail to start, ctest may be
interrupted, may be killed and started again with `-F`: each suite says which
of these events may happen to it.

### JobServerScheduling

Extends the scheduler and instantiates the client.  Where `MultiProcessHandler`
reduces a job server to "each request is answered once", here `StartTest` calls
`RequestToken`, `OnToken` is `JobServerReceivedToken`, `FinishTestProcess`
calls `ReleaseToken`, and `uv_run` returns when no handle is active, whether or
not tests are still queued.  A test ends in the i/o phase, or among the timers
when its output outlived it, and not before the i/o phase after its start.

### WorkerPool and JobQueue

The members that the mutex guards are one record `pool` (`Aborting`,
`FenceProcessing`, `WorkersRunning`, `WorkersIdle`, `JobsProcessing`, `Queue`).
`at[w]` is where the thread of worker `w` is, `asleep[w]` whether it waits for
a notification.  A step is what a thread does between taking and releasing the
mutex: `Work` is `WorkerStarts`, `WorkerWakes`, `BlockedWakes`, `FenceWakes`
and `JobEnds`, each ending in `Turn`, the body of the loop up to the next wait
or job.  `notify_one` wakes any one sleeper, `notify_all` all of them, and
`wait` may return without a notification.  A job may push jobs, abort the pool,
run child processes and end.  The libuv thread starts the threads one by one
(`StartThread`), serves `UVProcessStart` and the exit and pipe callbacks in any
order, joins the workers (`UVSlotEnd`) and returns from `Process`.

`JobQueue` is the promise of the header in terms of jobs alone: a sequence of
waiting jobs, what each worker is doing, and whether the queue is closed.  Jobs
are taken in order; a fence job is taken when nobody works, and nobody takes a
job beside it; closing drops what waits.  `WorkerPool!Abstract` maps the pool
to it: a fence job that a worker has popped but may not process yet is still
the first one waiting.

### ChildProcess

One test from `StartTest` to its verdict, and again for `--repeat`.  Three
callbacks of the loop share the duty of finishing a run: `OnReadLine` and
`OnReadEnd` (the output), `OnTimeout` (the timer, which also serves the custom
signal and its grace period) and `OnExit`.  Whichever sees the second of the
two handles closed calls `Finish`, and with it `EndTest`, which computes the
status from the exit code, the regular expressions, `WILL_FAIL` and
`SKIP_RETURN_CODE`.  The child itself (`ChildExits`) and the clock (`Tick`) are
external: a child may exit with any code, ignore the custom signal, close its
output before it exits, or leave a descendant that keeps the pipe open.  Time
is kept as what is left of each delay, and it may pass between any two
callbacks.  `ForkTimeout` is the computation of the timeout in `ForkProcess`
from `TIMEOUT`, `--timeout`, `CTEST_TEST_TIMEOUT`, the time limit and the stop
time.  The handler looks at the stop time when it picks the test
(`ChooseTest`); the test is started (`StartTest`) when its token comes or the
tests picked before it have been started, and the clock is not looked at again.
`graceLeft` is a history variable: what a child that was sent the custom signal
is still owed of the grace period.  A match of `TIMEOUT_AFTER_MATCH` restarts the
timer in the grace period too, so it shortens what is owed.

### DebuggerAdapter

Two threads, each with a program counter in `pc`: the script thread, which
calls the adapter at every function call and message and may stop there, and
the session thread, which serves the client's requests in the order they
arrive.  A step is what a thread does between two accesses to what both share:
the semaphore `ContinueSem`, the events `ConfigurationDone` and `Disconnected`,
the step requests (atomics), the mutex of the breakpoint manager and the mutex
in the session's `send`.  The adapter's own mutex guards one step each time.
The chain of calls that ends a session (`Leave...`) can be run by either thread,
since `send` calls the error handler when the peer has gone; `ret` is where the
thread goes on afterwards.  `send` and the response to a request are those of
`dap::Session` (`Utilities/cmcppdap`).  The client is modelled
from its use: it sends resume and inspect requests only
while it has been told that the script is stopped.  The model takes a write to a
closed connection to fail with an error and not with a signal.

### ComponentGraph and TargetDepends

The analysis is sequential.  `pc` is the stage of `Compute` it is in, and a step
is one iteration of a loop.  The recursive functions of the code
(`AddInterfaceDepends`, `TarjanVisit`, `CollectSideEffectsForTarget`,
`IntraComponent`, `ComputeTargetOrder`) are stacks of their active calls: an
action enters a call, follows its next edge, or returns.  `ComponentGraph` is
Tarjan's algorithm as the code runs it, with its stack, visit indices and roots;
`TargetDepends` runs it on the initial graph and again on the intermediate one.
The project (types of targets, link libraries, link interfaces, object files,
utility dependencies, side effects, properties) is chosen in `Init`.  Lists have
an order, because the results of some passes depend on it.  Imported targets,
executables with exports and interface libraries with sources are left out, and
what a target links and what it uses for compilation only are one list.

## Runs

| run | what it explores | what it shows |
|-----|------------------|---------------|
| `jobserver_posix` | POSIX client, 2 tokens, 4 requests, other clients, broken connection | no request is lost; tokens held are paid for and returned; a waiting request is always backed; every request is answered in the end, even if the server gives nothing |
| `scheduler_safety` | 3 or 4 tests at `-j 2` or `-j 3`: locks, serial and wide tests, dependencies, fixtures, `--repeat`, `--test-load`, affinity, token queues, interrupts, kills and up to three sessions with `-F` | the books of the scheduler are exact; locks, `RUN_SERIAL` and dependencies (those of fixtures included) are honoured; nothing is forgotten or run twice; the checkpoint is sound; an interrupt stops new starts |
| `scheduler_liveness` | load and all three repeat modes, missing files, failing spawns, stop time | `RunTests` returns |
| `scheduler_resume` | `-F` with a chain of dependencies | disagreement, see below |
| `scheduler_affinity` | `-j 4` on two processors | disagreement, see below |
| `tokens` | `ctest -j 3` on a job server with 2 tokens, both platforms | one token per test; every queued test has a request; every token goes back; every test is run and ctest ends, even when the connection breaks |
| `tokens_neverrun` | the same on POSIX with disabled tests and failing starts | disagreement, see below |
| `worker_pool` | 3 threads, 3 jobs (any of them fences), 1 child process | the pool implements `JobQueue`; no wakeup is lost; an abort leads to the return of `Process`; the join and the libuv callbacks are safe |
| `child_process` | every source of a timeout with and without the custom signal, every way to a verdict, all repeat modes, the stop time and starts after it | a run is finalized once and leaves no callback behind; a verdict other than a timeout is earned; a timer is in force unless the child was started after the stop time; the grace period is given; every run started before the stop time ends |
| `child_process_stoptime` | tests that repeat after a timeout and meet the stop time | disagreement, see below |
| `debugger` | a client that sets breakpoints and disconnects, and one that goes away; 3 calls, 2 frames | a stop holds until the client resumes; no step is missed; both threads end |
| `target_order` | 11,136 projects with three or four targets | cycles of static libraries are broken without losing another dependency; the order respects the graph; errors are reported for the cycles that cannot be built; what a target links is built first; `OPTIMIZE_DEPENDENCIES` keeps side effects |

Every property of a passing run has a mutant of the code in `PROJECT.json`, a
definition changed the way a plausible bug would change it, that violates it.

### Bounds

* Tests: three or four are enough for the interesting cases (a lock holder, a
  waiter and a test that overtakes; setup, test, cleanup and a dependent
  outside the fixture; a chain of three for resume).  `RepeatCount` is 2, so
  that there is a first, a repeated and a last run.  `-j 2` makes two tests run
  while others wait; the load and token suites use `-j 3`.
* Sessions: three, so that a resumed run is itself resumed.
* Tokens: two explicit ones and the implicit one, with other clients that take
  and return them; three tests wait for them.
* Workers: three, so that two threads wait for different reasons while a third
  works.  Two threads with four jobs and two processes, and three threads with
  four jobs, were explored as well with the same result.
* Child process: delays of at most `MaxDuration` = 4 units, so that the
  timeouts, the grace period, the time limit and the stop time can come in any
  order, and `TIMEOUT_AFTER_MATCH` can be shorter than the grace period; two runs
  per test, two exit codes and death by a signal.
* Debugger: three calls at two depths are a call that stops, one that a step
  passes and one where it ends.  One request besides the resuming ones
  (`MaxSent`) is in flight at a time with them; two were explored as well with
  the same result (2.4 million states).
* Projects: three targets have every graph of link dependencies, with up to three
  utility dependencies;
  four are needed for a ring with a chord and for an executable that links two
  libraries through an interface library.

### Deadlock

It is checked in every run but two.  `cmWorkerPool.h` says of `Process` that it
blocks until a job calls `Abort`, so in `worker_pool` a pool whose jobs are done
and that nobody aborts really waits for ever.  `NoWorkerForgotten`,
`NoJobStranded` and `Returns` say what must not be waited for.  A behaviour of
`debugger` stops when the script has finished, and `EveryoneLeaves` says that it
stops nowhere else.

### Fairness

* The loop of libuv runs the callbacks that are due, and the thread goes on in
  a callback: weak fairness of the loop steps.
* Children end, and their end is seen: strong fairness of the end of each test,
  because the phases of the loop enable and disable it again and again.  Test
  timeouts justify it in ctest.  Jobs of the worker pool end, and the exit and
  the pipes of its child processes are reported: weak fairness.
* In `ChildProcess` nothing is assumed of the child until it is killed: only
  then does it exit.  The clock advances, and a due timer and an exit that
  happened are seen (weak fairness of `Tick`, `OnTimeout`, `OnExit`).  The end
  of the output is not assumed, since a descendant may hold the pipe.
* Both threads of the debugger go on when they can; the client finishes its
  configuration and leaves in the end (weak fairness each).  It need not resume
  a stopped script.
* The system load falls from time to time (`scheduler_liveness`): otherwise
  `--test-load` rightly waits for ever.
* Nothing is assumed of the other clients of a job server, of spurious wakeups,
  of interrupts, and of a job's decision to push, abort or start a process.

## Disagreements between code and documents

* `scheduler_resume`: `RemoveTest` leaves a finished test in the `Depends` of
  its dependents, so `-F` never runs them.
* `scheduler_affinity`: with `-j` above the number of processors,
  `LockResources` takes processors from an empty set, against its assertion.
* `tokens_neverrun`: a test that ends inside `JobServerReceivedToken`, holding
  an explicit token that overtook the implicit one, swallows the request of
  another test.  This is why `tokens` explores on POSIX only suites in which no
  test ends there, and why `JobServerClient` has the constant `SyncRelease`.
* `child_process_stoptime`: `ForkProcess` stores the timeout in effect back, so a
  timeout at the stop time counts as an ordinary one; a test that repeats is
  then started after the stop time, with a negative delay cast to an unsigned
  number, and runs without a timeout.  The property is `RepetitionTimed`, on tests
  that repeat only after a timeout.

Found with TLC and kept out of the runs by a condition of the property or of the
instance.  In the target analysis:

* `IntraComponent` (`cmComputeTargetDepends.cxx:677`) never takes a target out of
  `visited`, so two `add_dependencies` that meet in one target inside a cycle of
  static libraries are reported as a cycle, depending on their order.
  `CyclesReported` admits an error in that case.
* `CollectSideEffectsForTarget` (`:448`) reads side effects that are not complete
  yet inside a cycle, so `OPTIMIZE_DEPENDENCIES` may drop a dependency that
  `Help/prop_tgt/OPTIMIZE_DEPENDENCIES.rst` keeps.  `SideEffectsKept` is about
  targets with no cycle below them.
* `AddTargetDepend` (`:403`) shares the `emitted` set of the link closure: when an
  executable links interface libraries `I` and `I2`, `I2` links `T` and
  `add_dependencies(I I2)` is given, the executable does not depend on `T`,
  against the comment at `:96`.  An object library whose object files are met
  before it is linked loses its link interface in the same way (`:341`).
  `LinkedFirst` excludes a link closure with a library that may be marked so.
* `OptimizeLinkDependencies` (`:493`) keeps a strong edge and does not look at the
  side effects below it: a library that is built after another language's
  library through `add_dependencies` may lose what that one links, although
  `Help/prop_tgt/OPTIMIZE_DEPENDENCIES.rst` keeps it.  `SideEffectsKept` asks for
  the sources of its own language only of libraries it links.

In a test run:

* `JobServerReceivedToken` (`CTest/cmCTestMultiProcessHandler.cxx:795`) does not
  look at the clock: a test whose token comes after the stop time is started, and
  with the same negative delay it runs without a timeout.  `TimeoutInForce` and
  `EveryRunEnds` admit such a child (`StartedLate`).
* A `TIMEOUT_AFTER_MATCH` shorter than `TIMEOUT_SIGNAL_GRACE_PERIOD` cuts the grace
  period short when a line matches in it, against
  `Help/prop_test/TIMEOUT_SIGNAL_GRACE_PERIOD.rst`.  `GraceGiven` admits it.

In the debugger, kept out of the run by `OrderlyClients`:

* a client that leaves before `configurationDone` is served leaves the script
  waiting at `cmDebuggerAdapter.cxx:327` for ever;
* `SourceFileLoaded` sends events while it holds the breakpoint mutex
  (`cmDebuggerBreakpointManager.cxx:179`).  If a client that set breakpoints
  closes the connection just then, the error handler of `send` calls `ClearAll`,
  which takes the same mutex: the thread waits for itself, or the two threads
  hold one mutex each (this and the one in `send`) and wait for the other's.

Seen while reading, without a run: a repetition that cannot be started is
ignored (`CTest/cmCTestRunTest.cxx:423`; such tests are in `lost`, and
`scheduler_liveness` does not ask that they are complete); a result may be
withheld for a repetition that is then not made (`CTest/cmCTestRunTest.cxx:390`);
`--stop-on-failure` lets the scan that is under way start further tests.  Seen
while proving: `CompleteAtEnd` needs more than `DEPENDS` without cycles, because
whoever depends on a member of a repeat group waits for the whole group
(`CTest/cmCTestMultiProcessHandler.cxx:1038`).  If tests 1 and 4 are in a group,
3 is not, 3 depends on 1 and 4 on 3, then 3 waits for 4 and 4 for 3, and `CheckCycles` does not see it.  Groups are
made of the tests around a fixture, so such a suite needs a fixture whose user
depends on an outsider that depends on another member.

## Proofs

TLAPS proves the following for every value of the constants, under the named
assumptions of the modules (the types of the constants; for the scheduler, a
finite set of numbered tests and disjoint repeat groups, and that every test
waits for a token where there is a job server; for the pool, at least
one thread).

**Job server client** (`JobServerClientProofs`): `TypeOK`, `NoOvercommit` and
`NeedIsBacked` on both platforms, whatever `OnToken` does; `NoRequestLost` and
`TokensReturned` on Windows, or if no token is released inside `OnToken`.  `Backed` is
inductive without a condition: it adds that reading is on exactly while tokens
are needed, that tokens in hand and the implicit one on its way are paid for,
and that a queued idle callback belongs to an active handle.  `Exact` adds
which tokens can be in hand while the implicit one is due (`ImplicitDue`).

**Scheduler** (`MultiProcessHandlerProofs`): `TypeOK`, `LevelRespected`,
`LocksExclusive` and `SerialAlone`, for every suite, through repetitions,
interrupts, kills and resumed runs.  None of them is inductive.  `IInv` adds
`Placement` (a test is in one place only: waiting, queued for a token, being
started, running or lost; the entries ahead of the scan are entries of
`OrderedTests`), `Room` (within a scan `RunningCount` plus what may still be
started is at most the level), `GroupsCount` (a group counts no fewer
unfinished tests than it has) and `Books` (`RunningCount` is the number of
slots in use, the lock set contains the locks of the started tests, which are
disjoint, and the serial flag is set exactly when a serial test runs).
The module first has the facts on sets, sums of slots and sequences, then the
effect of starting, ending and repeating a test, and then one step per action.

**What becomes of the tests** (second part of the same module): `DependenciesFirst`,
`CheckpointSound`, `RepeatHonoured`, `NeverTwice` and `InterruptStops` without a
condition; `ResultsRecorded` as long as no result is withheld for a repetition
that is then not made (`Withheld`: with `--repeat`, after the stop time or an
interrupt, or with `until-pass` where a spawn can fail); `AllResourcesAvailable`
if no repetition failed to start (`lost = {}`).  Most actions do one of a few
things to the tests, so the steps are first sorted into kinds (a test is chosen,
moves, is over with `FinishAlone`, `FinishInGroup` or `Requeue`, a run starts),
and the invariant is shown for each kind.  It is `OInv`, on top of `IInv`:

* `Waits`: the `Depends` of a test that waits still names whatever of its
  dependencies is not over, where a whole repeat group counts as not over while
  one of its tests is (`Hot`); a test in progress depends on nothing of that; and
  a test that is over but whose group may start again depends on nothing of that
  outside its group.  The last part is what makes `Requeue` safe: it puts the
  tests of a group back with the dependencies inside the group only.
* `Whole`: the checkpoint names all of a repeat group or none of it.
* `Unreported`: a test that is not over has no result yet and is neither in
  `Passed` nor in `Failed`.
* `GroupsExact`: as long as nothing is interrupted a group counts exactly the
  tests that are not over.
* `NothingElseLocked`: every lock taken belongs to a test in progress.

`AtRest` adds that nothing runs outside `RunTests`.

**No test is forgotten** (its end): `CompleteAtEnd`, if the
suite is `Sensible` and no repetition failed to start.  `Sensible` says that
among any tests that are left one has nothing to wait for, and that a run which
skips what a checkpoint names has no dependencies (the skipped tests stay in the
`Depends` of the others).  `PInv` adds to the above that nobody waits for what is
over (`Due`), that every waiting test is in `OrderedTests` (`Listed`), that the
finished tests and those left add up to all (`Tally`), and that when nothing is in
progress and tests are left something is scheduled to start them (`Driven`):
the idle callback, the load timer, or the scan that is under way, which then
still has a test ahead of it that fits (`Meets`).  The last is the point: the
scan may pass over a test for its locks, its size, the load or a serial test only
while something is in progress.

**Scheduler on a job server** (`JobServerSchedulingProofs`): `OneTokenPerTest`,
and `LevelRespected`, `LocksExclusive` and `SerialAlone` of the composition,
without a condition; `QueueBacked` if on POSIX no token is released before
`OnToken` returns (`Orderly`: no test is disabled, requires another's success or
fails to start, and nobody interrupts the run; `tokens_neverrun` shows that this
is needed); `TokensGivenBack` if in addition no repetition fails to start
(`Repeatable`) and no later run of ctest misses the tokens that were out when a
connection broke (`SameServer`).  Under `Orderly` and `Repeatable` the composition
implements the scheduler (`JobServerImplements`): the loop of the composition
ends when no handle is active, that of the scheduler only when also no test is
queued, and the invariant shows the two to be the same.  So what is proved of
the scheduler holds on a job server under these two conditions; `CompleteAtEnd`
(`CompleteWithTokens`) needs `Sensible` as well.  The invariant has three layers on top of `IInv`, in
`JobServerSchedulingLemmas`.  `Counted` takes of `IInv` that a test is in one
place at a time (`Fit`), with as many tokens held as tests are busy, reading on exactly while tokens are
needed, and a need that is backed by a token in hand or on its way.  `Exact`
adds `QueueBacked` and when the implicit token can be on its way
(`ImplicitDue`): while it is, no test ends that would ask for it again, on
Windows because no other token is handed out meanwhile, on POSIX because a child
is not reaped in the i/o phase it was started in, nor finished by a timer right
after it.  `Returned` adds
`TokensReturned` of the client.  Fourteen actions do one of eight things to the
client (`Moves`), and each layer is shown for each of these.

**Child process** (`ChildProcessProofs`): for every set of configurations, `TypeOK`,
`FinalizedWhenClosed`, `VerdictIsEarned`, `TimeoutInForce` and `GraceGiven`.
`IInv` adds `Underway` (while a run
is under way not both handles are closed, the process handle is closed exactly
when the child was reaped, the state is `Expired` exactly when ctest terminated
the child, and a closed reader without termination has seen the end) and `AtRest`
(what is left between runs).  `TimerInv` adds the ranges of the two
clocks and, after the custom signal, that the timer is not ahead of what the
child is owed (`GraceInForce`).

**Worker pool** (`WorkerPoolProofs`): `TypeOK`, `JoinIsSafe`,
`ObjectOutlivesHandles` and `NoWorkerForgotten`.  The counters are inductive only as cardinalities:
`WorkersRunning`, `WorkersIdle` and `JobsProcessing` equal the numbers of
workers at the places they count.  `Fenced` says when `FenceProcessing` is set
and that at most one worker holds a fence, `Closing` relates the abort flag,
the queue, the end request and the libuv thread.  Since five actions end in the
same loop body, `Good` is first shown to hold with the worker put at the head
of the loop (`HeadKeeps`), and `TurnKeeps` then covers the body once.
`NoWorkerForgotten` needs `Roused` as well, in the same form: while no fence is in
the way nobody sleeps as one who was stopped by a fence, since those are not
counted by `WorkersIdle` and `PushJob` would not wake them; and as long as one
sleeps on the empty queue every job has a worker that is on its way to it.

**Refinement** (`WorkerPoolProofs`): `PoolIsJobQueue`, the implementation of
`JobQueue` by the pool.  Steps at the head of the loop map to `Take`, a held
fence that starts to `Begin`, the end of a job to `End` (possibly with the next
job taken in the same step), `PushJob` to `Push`, `Abort` to `Close`; all other
steps are not seen.  It needs the inductive invariant above, since the mapping
is a function only if at most one worker holds a fence.

**Debugger adapter** (`DebuggerAdapterProofs`): `StopHolds` and `StepNotMissed`, for
any number of calls, frames and requests and for every client, those excluded
from the run too.  The argument counts credits: while the client is there, the
resume requests in its inbox, the one being served and the count of the
semaphore come to at most one (`Credit`), and to none unless the script waits and
the client has resumed it.  `Present` says that nobody ends the session as long
as the client is there, `Used` that the script waits for as long as requests
that need the stopped thread are to be served, `Alive` that a script which runs
has its `DefaultThread`, `Step` that the step requests stored are the ones the
client asked for last.

The theorems named `TypeCorrect` and `ChildTypeCorrect` state the type invariants,
which the runs do not repeat.

Only model-checked: every liveness property (liveness under fairness is beyond
the prover), and everything about `TargetDepends`.

## Not modelled

* The resource allocator and the bin packer (`CTest/cmCTestResourceAllocator.cxx`,
  `CTest/cmCTestBinPacker.cxx`): sequential; in the scheduler model a resource is
  a lock.
* Fixture expansion and the test list (`CTest/cmCTestTestHandler.cxx`), and the cost
  file: their results are the suites and the orders the scheduler model starts
  from.
* The link line (`cmComputeLinkDepends.cxx`): it uses the component graph that is
  modelled here, but what it emits are strings of flags and paths.
* The debugger's variables and transports: they only read the stopped script, or
  are input and output.
* A checkpoint that is cut short in the middle of a line.

The interpreter, generator expressions, generators, dependency scanners, cpack,
the user interfaces and the third-party libraries are sequential or mostly
string processing and input or output; `PROJECT.json` gives the reason for each.
The models stand for about 3,800 lines of `Source/`.  That is a small part of the
repository, most of which is third-party code and such processing; it is the part
where the order of events, or of targets, decides whether the result is right.
