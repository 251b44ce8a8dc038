------------------------- MODULE MultiProcessHandler -------------------------
(***************************************************************************)
(* The scheduler of ctest (Source/CTest/cmCTestMultiProcessHandler.cxx)    *)
(* with the part of cmCTestRunTest.cxx that decides whether a test runs    *)
(* again.                                                                  *)
(*                                                                         *)
(* ctest runs every callback on one thread, so nothing interleaves with a  *)
(* callback except the interrupt signal, whose flag the code reads at the  *)
(* head of every turn of the loop in StartNextTests.  That loop is one     *)
(* action per turn; `pc` says where the thread is:                         *)
(*   "loop"   in uv_run                                                   *)
(*   "scan"   in the while loop of StartNextTests                          *)
(*   "off", "done"  before and after RunTests                              *)
(* and `starting` names the test of a call of StartTestProcess.            *)
(* A job server is reduced here to its promise: each request is answered   *)
(* once.  JobServerScheduling puts the real client in its place.           *)
(***************************************************************************)
EXTENDS Integers, Sequences, FiniteSets

CONSTANTS
  Suites,  \* the test suites and command lines to explore: see Suite
  Locks    \* the names RESOURCE_LOCK properties use

AllEvents == {"stop time",     \* the --stop-time passes
              "interrupt",     \* the user interrupts ctest
              "crash",         \* ctest is killed
              "start failure", \* a file, a resource ... of a test is missing
              "spawn failure", \* a child process cannot be created
              "rerun failure"} \* ... when the test is repeated

TestProperties(tests) ==
  [Depends: SUBSET tests,            \* DEPENDS and fixtures
   RequireSuccessDepends: SUBSET tests,
   RunSerial: BOOLEAN,
   Processors: Nat \ {0},
   ProjectResources: SUBSET Locks,   \* RESOURCE_LOCK
   WantAffinity: BOOLEAN,
   Disabled: BOOLEAN]

\* The members of the handler that never change during a run.
Suite(tests) ==
  [Properties: [tests -> TestProperties(tests)],
   RepeatGroups: SUBSET (SUBSET tests),  \* by ComputeFixtureRepetition
   TestsRunOnce: SUBSET tests,
   ParallelLevel: Nat \ {0},             \* what GetParallelLevel returns
   HaveAffinity: Nat,    \* processors of the machine, 0 without affinity
   TestLoad: Nat,        \* --test-load, 0 for none
   StopOnFailure: BOOLEAN,
   Failover: BOOLEAN,    \* -F
   JobServer: BOOLEAN,   \* is there a job server?
   RepeatMode: {"Never", "UntilFail", "UntilPass", "AfterTimeout"},
   RepeatCount: Nat \ {0},
   Events: SUBSET AllEvents,  \* what may happen to ctest
   MaxSessions: Nat]          \* bound: how often ctest is started

ASSUME HandlerAssumption ==
  \A s \in Suites :
    /\ IsFiniteSet(DOMAIN s.Properties)
    /\ DOMAIN s.Properties \subseteq Nat
    /\ s \in Suite(DOMAIN s.Properties)
    /\ \A g, h \in s.RepeatGroups : g \cap h # {} => g = h

VARIABLES
  suite,         \* the suite and the options of this ctest
  pending,       \* the keys of PendingTests
  depends,       \* PendingTests[t].Depends
  ordered,       \* OrderedTests
  queued,        \* JobServerQueuedTests
  running,       \* tests with a child process
  lost,          \* tests whose second process could not be started
  runNumber,     \* cmCTestRunTest::RunNumber
  group,         \* what a RepeatGroup counts: see GroupState
  runningCount, serialRunning, locked, processors,
  completed, passed, failed,
  results,       \* the statuses TestResults holds for a test
  idle, timer,   \* StartNextTestsOnIdle_, StartNextTestsOnTimer_ are active
  stopTimePassed,
  interrupted,   \* PendingInterruptSignal() != 0
  pc,
  starting,      \* the argument of StartTestProcess while it runs, or none
  scan,          \* the locals of StartNextTests: see Scan
  checkpoint,    \* CTestCheckpoint.txt
  session

sched == <<pending, depends, ordered, queued, running, lost, runNumber, group>>
books == <<runningCount, serialRunning, locked, processors>>
outcome == <<completed, passed, failed, results>>
control == <<idle, timer, stopTimePassed, interrupted, pc, starting,
             scan>>
disk == <<checkpoint, session>>
vars == <<suite, sched, books, outcome, control, disk>>

Tests == DOMAIN suite.Properties
Props(t) == suite.Properties[t]
ParallelLevel == suite.ParallelLevel
HaveAffinity == suite.HaveAffinity
TestLoad == suite.TestLoad
StopOnFailure == suite.StopOnFailure
RepeatMode == suite.RepeatMode
RepeatCount == suite.RepeatCount
Events == suite.Events

\* The thread is at a point where a callback, or a turn of the loop in
\* StartNextTests, may begin.
InLoop == pc = "loop" /\ starting = {}
InScan == pc = "scan" /\ starting = {}

GroupState == [RepetitionsLeft: Int, Unfinished: Int,
               AllCompleted: BOOLEAN, AnyTimedOut: BOOLEAN]

Scan == [todo: Seq(Tests),     \* the list entries the iterator has ahead
         numToStart: Int,
         spareLoad: Nat,
         allTestsFailedTestLoadCheck: BOOLEAN]

NoScan == [todo |-> <<>>, numToStart |-> 0, spareLoad |-> 0,
           allTestsFailedTestLoadCheck |-> FALSE]

Min2(a, b) == IF a < b THEN a ELSE b

\* A request is capped by the -j level and, with affinity, by the machine.
GetProcessorsUsed(t) ==
  LET p == Min2(Props(t).Processors, ParallelLevel)
  IN  IF HaveAffinity > 0 /\ Props(t).WantAffinity
      THEN Min2(p, HaveAffinity) ELSE p

GroupOf(t) == {g \in suite.RepeatGroups : t \in g}
InGroup(t) == GroupOf(t) # {}

-----------------------------------------------------------------------------
(* One run of ctest, from SetTests and CheckResume to RunTests' return.    *)

Distinct(s) == \A i, j \in DOMAIN s : s[i] = s[j] => i = j

\* The orders CreateTestCostList may leave: tests that failed last time
\* first (in parallel runs), then every test after those it depends on.
CostOrders(tests) ==
  {order \in [1 .. Cardinality(tests) -> tests] :
     /\ Distinct(order)
     /\ \E k \in IF ParallelLevel > 1 THEN 0 .. Len(order) ELSE {0} :
          \A i, j \in DOMAIN order :
            k < i /\ i < j => order[j] \notin Props(order[i]).Depends}

\* Mutant: RemoveTest forgets PendingTests.
RemoveTest_KeepsPending(removed) ==
  pending' = Tests /\ completed' = Cardinality(removed)

\* The tests that the checkpoint names are taken out of PendingTests (and of
\* OrderedTests, see Begin), but not out of the Depends of the others.
RemoveTest(removed) ==
  pending' = Tests \ removed /\ completed' = Cardinality(removed)

\* SetTests and RunTests up to the loop.
Begin(removed) ==
  /\ ordered' \in CostOrders(Tests \ removed)
  /\ RemoveTest(removed)
  /\ depends' = [t \in Tests |-> Props(t).Depends]
  /\ queued' = <<>>
  /\ running' = {}
  /\ lost' = {}
  /\ runNumber' = [t \in Tests |-> 1]
  /\ group' = [g \in suite.RepeatGroups |->
                 [RepetitionsLeft |-> RepeatCount - 1,
                  Unfinished |-> Cardinality(g),
                  AllCompleted |-> TRUE, AnyTimedOut |-> FALSE]]
  /\ runningCount' = 0
  /\ serialRunning' = FALSE
  /\ locked' = {}
  /\ processors' = HaveAffinity
  /\ passed' = {}
  /\ failed' = {}
  /\ results' = [t \in Tests |-> <<>>]
  /\ idle' = TRUE
  /\ timer' = FALSE
  /\ stopTimePassed' = FALSE
  /\ interrupted' = FALSE
  /\ pc' = "loop"
  /\ starting' = {}
  /\ scan' = NoScan

\* Before the first run of ctest.
Init ==
  /\ suite \in Suites
  /\ pending = {} /\ depends = [t \in Tests |-> {}]
  /\ ordered = <<>> /\ queued = <<>>
  /\ running = {} /\ lost = {}
  /\ runNumber = [t \in Tests |-> 1]
  /\ group = [g \in suite.RepeatGroups |->
                [RepetitionsLeft |-> 0, Unfinished |-> 0,
                 AllCompleted |-> TRUE, AnyTimedOut |-> FALSE]]
  /\ runningCount = 0 /\ serialRunning = FALSE
  /\ locked = {} /\ processors = HaveAffinity
  /\ completed = 0 /\ passed = {} /\ failed = {}
  /\ results = [t \in Tests |-> <<>>]
  /\ idle = FALSE /\ timer = FALSE
  /\ stopTimePassed = FALSE /\ interrupted = FALSE
  /\ pc = "off" /\ starting = {} /\ scan = NoScan
  /\ checkpoint = {} /\ session = 0

\* CheckResume: without -F an old checkpoint is removed.
Resume ==
  /\ session < suite.MaxSessions
  /\ session' = session + 1
  /\ checkpoint' = IF suite.Failover THEN checkpoint ELSE {}
  /\ Begin(checkpoint')
  /\ UNCHANGED suite

RunTests == pc \in {"off", "done"} /\ Resume

\* ctest is killed, and started again.
Crash == "crash" \in Events /\ pc \notin {"off", "done"} /\ Resume

\* The signal handler sets the flag whatever the thread is doing.
Interrupt ==
  /\ "interrupt" \in Events
  /\ pc \notin {"off", "done"}
  /\ ~interrupted
  /\ interrupted' = TRUE
  /\ UNCHANGED <<suite, sched, books, outcome, disk,
                 idle, timer, stopTimePassed, pc, starting, scan>>

-----------------------------------------------------------------------------
(* Starting tests.                                                         *)

\* The clock may have reached the stop time where the code looks.
StopTimePassedNow(looks) ==
  \E late \in IF looks /\ "stop time" \in Events THEN BOOLEAN ELSE {FALSE} :
    stopTimePassed' = (stopTimePassed \/ late)

\* No test is to be started any more.
Ending(stopped, failures) ==
  stopped \/ (StopOnFailure /\ failures # {}) \/ interrupted

NumToStart ==
  IF runningCount < ParallelLevel THEN ParallelLevel - runningCount ELSE 0

\* The events that are scheduled to call StartNextTests are not needed.
StopHandles == idle' = FALSE /\ timer' = FALSE

\* StartNextTests up to its loop.  CheckStopTimePassed reads the clock, the
\* load check the load average: neither is known in advance.
StartNextTests ==
  /\ InLoop
  /\ idle \/ timer
  /\ StopHandles
  /\ StopTimePassedNow(pending # {})
  /\ IF \/ pending = {} \/ Ending(stopTimePassed', failed)
        \/ NumToStart = 0 \/ serialRunning
     THEN UNCHANGED <<pc, scan>>
     ELSE /\ pc' = "scan"
          /\ \E spare \in 0 .. TestLoad :
               scan' = [todo |-> ordered,
                        numToStart |-> IF TestLoad > 0
                                       THEN Min2(NumToStart, spare)
                                       ELSE NumToStart,
                        spareLoad |-> spare,
                        allTestsFailedTestLoadCheck |-> TestLoad > 0]
  /\ UNCHANGED <<suite, sched, books, outcome, disk, interrupted, starting>>

\* Mutant: the loop does not look at the interrupt.
MoreToScan_Deaf ==
  scan.numToStart > 0 /\ ~serialRunning /\ scan.todo # <<>>

\* The while condition of StartNextTests.
MoreToScan ==
  /\ scan.numToStart > 0
  /\ ~serialRunning
  /\ ~interrupted
  /\ scan.todo # <<>>

\* Mutant: the locks are not looked at.
ResourceLocksAvailable_Always(t) == TRUE

ResourceLocksAvailable(t) == Props(t).ProjectResources \cap locked = {}

\* Mutant: RUN_SERIAL is not looked at here.
MayRun_AnyTime(t) ==
  /\ depends[t] = {}

\* The tests before the load check, the load check, and those after it.
MayRun(t) ==
  /\ Props(t).RunSerial => runningCount = 0
  /\ depends[t] = {}

FitsLoad(t) == TestLoad > 0 => GetProcessorsUsed(t) <= scan.spareLoad

\* Mutant: the concurrency limit is not looked at.
Fits_NoLimit(t) ==
  /\ ResourceLocksAvailable(t)

Fits(t) ==
  /\ GetProcessorsUsed(t) <= scan.numToStart
  /\ ResourceLocksAvailable(t)

\* ProcessorsAvailable is a set in the code; only its size is kept, and it
\* goes negative where the code takes elements of an empty set.
LockResources(t) ==
  /\ runningCount' = runningCount + GetProcessorsUsed(t)
  /\ locked' = locked \cup Props(t).ProjectResources
  /\ serialRunning' = (serialRunning \/ Props(t).RunSerial)
  /\ processors' = IF HaveAffinity > 0 /\ Props(t).WantAffinity
                   THEN processors - GetProcessorsUsed(t) ELSE processors

UnlockResources(t) ==
  /\ runningCount' = runningCount - GetProcessorsUsed(t)
  /\ locked' = locked \ Props(t).ProjectResources
  /\ serialRunning' = (serialRunning /\ ~Props(t).RunSerial)
  /\ processors' = IF HaveAffinity > 0 /\ Props(t).WantAffinity
                   THEN processors + GetProcessorsUsed(t) ELSE processors

Without(s, t) ==
  LET i == CHOOSE i \in DOMAIN s : s[i] = t
  IN  [j \in 1 .. Len(s) - 1 |-> IF j < i THEN s[j] ELSE s[j + 1]]

\* Mutant: the list entry stays.
Erase_Entry(t) == pending' = pending \ {t} /\ UNCHANGED ordered

\* The test leaves OrderedTests and PendingTests.
Erase(t) ==
  /\ ordered' = Without(ordered, t)
  /\ pending' = pending \ {t}

\* One turn of the loop that starts its test, or queues it for a token.
ScanStarts ==
  /\ InScan /\ MoreToScan
  /\ LET t == Head(scan.todo) IN
       /\ MayRun(t) /\ FitsLoad(t) /\ Fits(t)
       /\ LockResources(t)
       /\ scan' = [scan EXCEPT !.todo = Tail(@),
                               !.numToStart = @ - GetProcessorsUsed(t),
                               !.allTestsFailedTestLoadCheck = FALSE]
       /\ Erase(t)
       /\ IF suite.JobServer
          THEN queued' = Append(queued, t) /\ UNCHANGED starting
          ELSE starting' = {t} /\ UNCHANGED queued
  /\ UNCHANGED <<suite, depends, running, lost, runNumber, group, outcome,
                 disk, idle, timer, stopTimePassed, interrupted, pc>>

\* One turn of the loop that leaves its test for later.
ScanSkips ==
  /\ InScan /\ MoreToScan
  /\ LET t == Head(scan.todo) IN
       /\ ~(MayRun(t) /\ FitsLoad(t) /\ Fits(t))
       /\ scan' = [scan EXCEPT
                     !.todo = Tail(@),
                     !.allTestsFailedTestLoadCheck =
                        @ /\ ~(MayRun(t) /\ FitsLoad(t))]
  /\ UNCHANGED <<suite, sched, books, outcome, disk, idle, timer,
                 stopTimePassed, interrupted, pc, starting>>

\* Mutant: no second try when the load was too high.
TryAgainLater_Never == UNCHANGED timer

\* StartNextTestsOnTimer
TryAgainLater == timer' = (timer \/ scan.allTestsFailedTestLoadCheck)

\* The end of StartNextTests.
ScanEnds ==
  /\ InScan /\ ~MoreToScan
  /\ pc' = "loop"
  /\ scan' = NoScan
  /\ TryAgainLater
  /\ UNCHANGED <<suite, sched, books, outcome, disk, idle, stopTimePassed,
                 interrupted, starting>>

-----------------------------------------------------------------------------
(* The end of a test.                                                      *)

\* cmCTestTestHandler's statuses, as far as they are told apart.  "SKIPPED"
\* is the status NOT_RUN of a test that counts as passed.
Statuses == {"COMPLETED", "FAILED", "TIMEOUT", "SKIPPED", "NOT_RUN",
             "BAD_COMMAND"}
Passes(st) == st \in {"COMPLETED", "SKIPPED"}

\* Tests of a RepeatGroup and tests run once are not repeated on their own.
RepeatsAlone(t) ==
  /\ RepeatMode # "Never"
  /\ ~InGroup(t)
  /\ t \notin suite.TestsRunOnce

RepeatCondition(allCompleted, anyTimedOut) ==
  \/ RepeatMode = "UntilFail" /\ allCompleted
  \/ RepeatMode = "UntilPass" /\ ~allCompleted
  \/ RepeatMode = "AfterTimeout" /\ anyTimedOut

\* Mutant: one run too few.
RunsLeft_TooFew(t) == runNumber[t] + 1 < RepeatCount

RunsLeft(t) == runNumber[t] # RepeatCount

NeedsToRepeat(t, st) ==
  /\ RepeatsAlone(t)
  /\ RunsLeft(t)
  /\ st \notin {"NOT_RUN", "SKIPPED"}
  /\ RepeatCondition(st = "COMPLETED", st = "TIMEOUT")

NewPassed(t, st) == IF Passes(st) THEN passed \cup {t} ELSE passed
NewFailed(t, st) ==
  IF Passes(st) \/ Props(t).Disabled THEN failed ELSE failed \cup {t}
NewResults(t, st) ==
  IF NeedsToRepeat(t, st) THEN results
  ELSE [results EXCEPT ![t] = Append(@, st)]

\* The tests of `who` that still wait no longer wait for those of `done`.
Release(who, done) ==
  [u \in Tests |-> IF u \in pending \cap who THEN depends[u] \ done
                   ELSE depends[u]]

\* FinishTestProcess for a test of no RepeatGroup.
FinishAlone(t, st) ==
  /\ ~InGroup(t)
  /\ completed' = completed + 1
  /\ passed' = NewPassed(t, st)
  /\ failed' = NewFailed(t, st)
  /\ results' = NewResults(t, st)
  /\ depends' = Release(Tests, {t})
  /\ checkpoint' = IF interrupted THEN checkpoint ELSE checkpoint \cup {t}
  /\ UNCHANGED <<pending, ordered, group, scan>>

\* The counters of the group after FinishRepeatGroupTest has updated them.
GroupAfter(g, st) ==
  [group[g] EXCEPT !.AllCompleted = @ /\ st = "COMPLETED",
                   !.AnyTimedOut = @ \/ st = "TIMEOUT",
                   !.Unfinished = @ - 1]

GroupRepeats(g, st, stopped, failures) ==
  LET gs == GroupAfter(g, st)
  IN  /\ gs.RepetitionsLeft # 0
      /\ RepeatCondition(gs.AllCompleted, gs.AnyTimedOut)
      /\ ~Ending(stopped, failures)

\* Mutant: tests outside the group are released by its first repetition.
ReleasedBy_Anyone(g, t) == Release(Tests, {t})

\* Who waits for t no longer, before the last repetition is over.
ReleasedBy(g, t) == Release(g, {t})

\* FinishRepeatGroupTest while other tests of the group are unfinished, and
\* FinishRepeatGroup when none is and the group does not repeat.
FinishInGroup(t, st) ==
  \E g \in GroupOf(t) :
    LET over == group[g].Unfinished = 1
    IN  /\ ~(over /\ GroupRepeats(g, st, stopTimePassed', NewFailed(t, st)))
        /\ group' = [group EXCEPT ![g] = GroupAfter(g, st)]
        /\ completed' = completed + 1
        /\ passed' = NewPassed(t, st)
        /\ failed' = NewFailed(t, st)
        /\ results' = NewResults(t, st)
        /\ depends' = IF over THEN Release(Tests, g) ELSE ReleasedBy(g, t)
        /\ checkpoint' = IF over /\ ~interrupted THEN checkpoint \cup g
                         ELSE checkpoint
        /\ UNCHANGED <<pending, ordered, scan>>

\* The members of a group in the order of the map that holds them.
ByIndex(g) == {s \in [1 .. Cardinality(g) -> g] :
                 \A i, j \in DOMAIN s : i < j => s[i] < s[j]}

\* Mutant: the results of the repetition stay.
DropRepetition_KeepsResults(g) ==
  /\ completed' = completed + 1 - Cardinality(g)
  /\ passed' = passed \ g /\ failed' = failed \ g
  /\ UNCHANGED results

\* Only the last repetition of a group is reported.
DropRepetition(g) ==
  /\ completed' = completed + 1 - Cardinality(g)
  /\ passed' = passed \ g /\ failed' = failed \ g
  /\ results' = [u \in Tests |-> IF u \in g THEN <<>> ELSE results[u]]

\* Mutant: the repetitions are not counted.
NextRepetition_Uncounted(g) ==
  group' = [group EXCEPT ![g] = [@ EXCEPT !.Unfinished = Cardinality(g)]]

NextRepetition(g) ==
  group' = [group EXCEPT ![g] = [RepetitionsLeft |-> @.RepetitionsLeft - 1,
                                 Unfinished |-> Cardinality(g),
                                 AllCompleted |-> TRUE, AnyTimedOut |-> FALSE]]

\* RequeueRepeatGroup.  The loop of StartNextTests, if it is on, meets the
\* requeued tests unless its iterator has reached the end of the list.
Requeue(t, st) ==
  \E g \in GroupOf(t) :
    /\ group[g].Unfinished = 1
    /\ GroupRepeats(g, st, stopTimePassed', NewFailed(t, st))
    /\ NextRepetition(g)
    /\ DropRepetition(g)
    /\ pending' = pending \cup g
    /\ depends' = [u \in Tests |-> IF u \in g THEN Props(u).Depends \cap g
                                   ELSE depends[u]]
    /\ \E s \in ByIndex(g) :
         /\ ordered' = ordered \o s
         /\ scan' = [scan EXCEPT !.todo = IF @ = <<>> THEN @ ELSE @ \o s]
    /\ UNCHANGED checkpoint

StartNextTestsOnIdle == idle' = TRUE

\* FinishTestProcess for a test that does not run again.
FinishTestProcess(t, st) ==
  /\ FinishAlone(t, st) \/ FinishInGroup(t, st) \/ Requeue(t, st)
  /\ UnlockResources(t)
  /\ running' = running \ {t}
  /\ StartNextTestsOnIdle
  /\ UNCHANGED <<suite, queued, lost, runNumber, session,
                 timer, interrupted, pc>>

\* The process of a test ends.  A timeout may be due to the stop time.
ProcessEnds(t, st) ==
  /\ InLoop
  /\ t \in running
  /\ StopTimePassedNow(st = "TIMEOUT")
  /\ ~(NeedsToRepeat(t, st) /\ ~stopTimePassed' /\ ~interrupted)
  /\ FinishTestProcess(t, st)
  /\ UNCHANGED starting

\* StartAgain.  Nobody looks at what StartTest returns this time: a test
\* that cannot be started has no process and is not finished either.
ProcessRunsAgain(t, st) ==
  /\ InLoop
  /\ t \in running
  /\ StopTimePassedNow(st = "TIMEOUT")
  /\ NeedsToRepeat(t, st) /\ ~stopTimePassed' /\ ~interrupted
  /\ runNumber' = [runNumber EXCEPT ![t] = @ + 1]
  /\ \/ UNCHANGED <<running, lost>>
     \/ /\ "rerun failure" \in Events
        /\ running' = running \ {t}
        /\ lost' = lost \cup {t}
  /\ UNCHANGED <<suite, pending, depends, ordered, queued, group, books,
                 outcome, disk, idle, timer, interrupted, pc, starting, scan>>

TestEnds(t) ==
  \E st \in {"COMPLETED", "FAILED", "TIMEOUT", "SKIPPED"} :
    ProcessEnds(t, st) \/ ProcessRunsAgain(t, st)

FailedDependencies(t) == Props(t).RequireSuccessDepends \cap failed

MayStart(t) == ~Props(t).Disabled /\ FailedDependencies(t) = {}

\* StartTestProcess up to the fork.
TestStarts ==
  /\ \E t \in starting :
       /\ MayStart(t)
       /\ running' = running \cup {t}
  /\ starting' = {}
  /\ UNCHANGED <<suite, pending, depends, ordered, queued, lost, runNumber,
                 group, books, outcome, disk, idle, timer, stopTimePassed,
                 interrupted, pc, scan>>

\* StartTestProcess when the test cannot run: it is finished on the spot.
TestNotStarted ==
  /\ \E t \in starting, st \in {"NOT_RUN", "SKIPPED", "BAD_COMMAND"} :
       /\ \/ st = "NOT_RUN" /\ ~MayStart(t)
          \/ st # "BAD_COMMAND" /\ "start failure" \in Events
          \/ st = "BAD_COMMAND" /\ MayStart(t) /\ "spawn failure" \in Events
       /\ UNCHANGED stopTimePassed
       /\ FinishTestProcess(t, st)
  /\ starting' = {}

\* Mutant: a cancelled launch keeps what it locked.
CancelLaunch_KeepsLocks(t) == UNCHANGED books

\* A test that gets its token after an interrupt is not run.
CancelLaunch(t) == UnlockResources(t)

\* A token for the test that has waited longest.  After an interrupt the
\* test gives back what it locked and is not run.
JobServerReceivedToken ==
  /\ InLoop
  /\ queued # <<>>
  /\ queued' = Tail(queued)
  /\ IF interrupted
     THEN CancelLaunch(Head(queued)) /\ UNCHANGED starting
     ELSE starting' = {Head(queued)} /\ UNCHANGED books
  /\ UNCHANGED <<suite, pending, depends, ordered, running, lost, runNumber,
                 group, outcome, disk, idle, timer, stopTimePassed,
                 interrupted, pc, scan>>

\* MarkFinished deletes the checkpoint unless the user interrupted the run.
FinalizeLoop ==
  /\ pc' = "done"
  /\ checkpoint' = IF interrupted THEN checkpoint ELSE {}
  /\ UNCHANGED <<suite, sched, books, outcome, idle, timer, stopTimePassed,
                 interrupted, starting, scan, session>>

\* Nothing keeps the loop alive any more, so uv_run and RunTests return.
RunTestsReturns ==
  /\ InLoop
  /\ ~idle /\ ~timer
  /\ running = {} /\ queued = <<>>
  /\ FinalizeLoop

Next ==
  \/ StartNextTests
  \/ ScanStarts
  \/ ScanSkips
  \/ ScanEnds
  \/ TestStarts
  \/ TestNotStarted
  \/ JobServerReceivedToken
  \/ \E t \in running : TestEnds(t)
  \/ RunTestsReturns
  \/ Interrupt
  \/ Crash
  \/ RunTests
  \/ pc = "done" /\ session = suite.MaxSessions /\ UNCHANGED vars

Spec == Init /\ [][Next]_vars

AllTests == UNION {DOMAIN s.Properties : s \in Suites}

\* The thread goes on, every process ends and every token request is
\* answered.  The load average is low enough now and then.
FairSpec ==
  /\ Spec
  /\ WF_vars(StartNextTests)
  /\ SF_vars(StartNextTests /\ scan'.spareLoad = TestLoad)
  /\ WF_vars(ScanStarts \/ ScanSkips \/ ScanEnds)
  /\ WF_vars(TestStarts \/ TestNotStarted)
  /\ SF_vars(JobServerReceivedToken)
  /\ \A t \in AllTests : SF_vars(TestEnds(t))
  /\ WF_vars(RunTestsReturns) /\ WF_vars(RunTests)

-----------------------------------------------------------------------------
(* Properties.                                                             *)

Entries(s) == {s[i] : i \in DOMAIN s}

\* The tests that hold what LockResources took.
InProgress ==
  running \cup lost \cup Entries(queued) \cup starting

\* Every member has its type.
TypeOK ==
  /\ suite \in Suites
  /\ pending \subseteq Tests
  /\ depends \in [Tests -> SUBSET Tests]
  /\ ordered \in Seq(Tests)
  /\ queued \in Seq(Tests)
  /\ running \subseteq Tests
  /\ lost \subseteq Tests
  /\ runNumber \in [Tests -> Nat]
  /\ group \in [suite.RepeatGroups -> GroupState]
  /\ runningCount \in Nat
  /\ serialRunning \in BOOLEAN
  /\ locked \subseteq Locks
  /\ processors \in Int
  /\ completed \in Int
  /\ passed \subseteq Tests
  /\ failed \subseteq Tests
  /\ results \in [Tests -> Seq(Statuses)]
  /\ idle \in BOOLEAN
  /\ timer \in BOOLEAN
  /\ stopTimePassed \in BOOLEAN
  /\ interrupted \in BOOLEAN
  /\ pc \in {"off", "loop", "scan", "done"}
  /\ starting \subseteq Tests
  /\ scan \in Scan
  /\ checkpoint \subseteq Tests
  /\ session \in Nat

\* The process slots that a set of tests takes.
SlotsOf(S) == UNION {{t} \X (1 .. GetProcessorsUsed(t)) : t \in S}

\* RunningCount is exact, and never above the -j level.
LevelRespected ==
  /\ runningCount = Cardinality(SlotsOf(InProgress))
  /\ runningCount <= ParallelLevel

\* Two tests with a RESOURCE_LOCK in common never run at the same time.
LocksExclusive ==
  \A t, u \in InProgress :
    t # u => Props(t).ProjectResources \cap Props(u).ProjectResources = {}

\* A RUN_SERIAL test runs alone.
SerialAlone ==
  \A t, u \in InProgress : Props(t).RunSerial => t = u

\* A test does not start before the tests it depends on are over, all their
\* repetitions included.
DependenciesFirst ==
  \A t \in InProgress : Props(t).Depends \cap (pending \cup InProgress) = {}

\* PROCESSOR_AFFINITY: the processors of the tests that run are disjoint.
AffinityDisjoint == processors >= 0

\* Whatever was locked has been given back when RunTests returns.
AllResourcesAvailable ==
  pc = "done" => runningCount = 0 /\ locked = {} /\ ~serialRunning

\* The assertions at the end of RunTests.
CompleteAtEnd ==
  pc = "done" /\ ~stopTimePassed /\ ~StopOnFailure /\ ~interrupted
    => completed = Cardinality(Tests) /\ pending = {}

\* A test that is reported as passed or failed has exactly one result in
\* TestResults, and that result agrees with the report.
ResultsRecorded ==
  \A t \in passed \cup failed : \E st \in Statuses :
    results[t] = <<st>> /\ (t \in passed <=> Passes(st))

\* The checkpoint names only tests that will not run again in this run, so
\* that -F skips nothing that was cut short.
CheckpointSound == checkpoint \cap (pending \cup InProgress) = {}

\* --repeat until-fail: a test reported as passed had all of its runs, on
\* its own or with its group, unless the run was cut short.
RepeatHonoured ==
  RepeatMode = "UntilFail" /\ ~Ending(stopTimePassed, failed) =>
    \A t \in Tests : results[t] = <<"COMPLETED">> =>
      /\ RepeatsAlone(t) => runNumber[t] = RepeatCount
      /\ \A g \in GroupOf(t) :
           g \cap (pending \cup InProgress) = {} /\ group[g].AllCompleted
             => group[g].RepetitionsLeft = 0

\* A test that is over does not start again, unless its group repeats.
NeverTwice ==
  [][\A t \in passed \cup failed :
       session' = session /\ t \in passed' \cup failed' => t \notin running']_vars

\* Once the interrupt has come no test is chosen or queued any more, and none
\* is launched but the one whose launch is under way.
InterruptStops ==
  [][interrupted /\ session' = session =>
       /\ pending \subseteq pending'
       /\ running' \subseteq running \cup starting
       /\ starting' \subseteq starting]_vars

\* ctest ends.
Terminates == <>(pc = "done")
=============================================================================
