---------------------------- MODULE ChildProcess ----------------------------
(***************************************************************************)
(* One test run of ctest: the child process, its output pipe and its timer *)
(* (Source/CTest/cmProcess.cxx), started and judged by the runner          *)
(* (Source/CTest/cmCTestRunTest.cxx), which may start it again.            *)
(*                                                                         *)
(* Three callbacks of the libuv loop, OnRead, OnTimeout and OnExit, share   *)
(* the duty of finishing the run.  Whichever sees the second of the two     *)
(* handles closed calls Finish, and the loop may run them in any order.    *)
(*                                                                         *)
(* Time is what is left of it: Timer, untilStop and allowed count down.    *)
(* So does graceLeft, which no action depends on: it is a history          *)
(* variable for GraceGiven.                                                *)
(***************************************************************************)
EXTENDS Integers

CONSTANTS
  Configs,     \* the properties of the test and the options of ctest
  ExitCodes,   \* the exit codes a child may have
  NoTime,      \* an empty cm::optional<cmDuration>, a timer that is off
  MaxDuration  \* cmCTest::MaxDuration()

\* The two minutes that ForkProcess holds back from the time limit, and the
\* default grace period, in the model's unit of time.
Buffer == 1
DefaultGracePeriod == 1

\* A timer that does not fire: libuv clamps the sum of its clock and a delay
\* that is almost 2^64 milliseconds.
Never == MaxDuration + 1

Optional == 0 .. MaxDuration \cup {NoTime}

Config == [Timeout: Optional,           \* TIMEOUT
           GlobalTimeout: 0 .. MaxDuration,  \* ctest --timeout
           TestTimeOut: 0 .. MaxDuration,    \* CTEST_TEST_TIMEOUT
           TimeLimit: Optional,         \* CTEST_TIME_LIMIT
           StopTime: Optional,          \* ctest --stop-time
           TimeoutSignal: BOOLEAN,      \* TIMEOUT_SIGNAL_NAME
           GracePeriod: Optional,       \* TIMEOUT_SIGNAL_GRACE_PERIOD
           AlternateTimeout: Optional,  \* TIMEOUT_AFTER_MATCH
           WillFail: BOOLEAN,
           Required: BOOLEAN,           \* PASS_REGULAR_EXPRESSION
           Forbidden: BOOLEAN,          \* FAIL_REGULAR_EXPRESSION
           SkipRegex: BOOLEAN,          \* SKIP_REGULAR_EXPRESSION
           SkipReturnCode: ExitCodes \cup {-1},
           RepeatMode: {"Never", "UntilFail", "UntilPass", "AfterTimeout"},
           RunCount: Nat]

ASSUME ChildAssumption ==
  /\ MaxDuration \in Nat \ {0}
  /\ NoTime \notin Int
  /\ 0 \in ExitCodes
  /\ ExitCodes \subseteq Nat
  /\ Configs \subseteq Config

VARIABLES
  config,     \* one of Configs, never changed
  phase,      \* "ready", "queued", "running", "again", "lost" or "done"
  RunNumber,
  ProcessState, TimeoutReason, TerminationStyle,
  StopTimeout,
  ReadHandleClosed, ProcessHandleClosed,
  Timer,      \* what is left of the delay, NoTime when it is not active
  child,      \* "none", "running", "dying" (killed), "zombie" or "reaped"
  exit,       \* how the child went: an exit code, or -1 for a signal
  outputEnded,   \* OnRead saw the end of the output
  regexPending,  \* TimeoutRegularExpressions is not empty
  finalized,     \* calls of FinalizeTest for this run
  Status,        \* TestResult.Status
  StopTimePassed, \* of the handler
  untilStop,     \* stop time minus now
  allowed,       \* GetRemainingTimeAllowed()
  graceLeft      \* what the child is still owed after the custom signal

process == <<ProcessState, TimeoutReason, TerminationStyle, StopTimeout,
             ReadHandleClosed, ProcessHandleClosed, Timer, outputEnded,
             graceLeft>>
world   == <<child, exit>>
runner  == <<phase, RunNumber, finalized, Status, StopTimePassed>>
clock   == <<untilStop, allowed>>
vars    == <<config, regexPending, process, world, runner, clock>>

Init ==
  /\ config \in Configs
  /\ phase = "ready" /\ RunNumber = 1
  /\ ProcessState = "Starting"
  /\ TimeoutReason = "Normal" /\ TerminationStyle = "Normal"
  /\ StopTimeout = NoTime
  /\ ReadHandleClosed = FALSE /\ ProcessHandleClosed = FALSE
  /\ Timer = NoTime /\ graceLeft = NoTime
  /\ child = "none" /\ exit = 0
  /\ outputEnded = FALSE
  /\ regexPending = (config.AlternateTimeout # NoTime)
  /\ finalized = 0 /\ Status = "NOT_RUN"
  /\ StopTimePassed = FALSE
  /\ untilStop = config.StopTime
  /\ allowed = config.TimeLimit

-----------------------------------------------------------------------------
(* Timeouts.                                                               *)

\* The shorter of the two wins, a tie is the test's own timeout.  ForkProcess
\* always sets a timeout, so the stop time alone is the optional one.
GetComputedTimeout(stop, timeout) ==
  IF stop # NoTime /\ stop < timeout
  THEN [Reason |-> "StopTime", Duration |-> stop]
  ELSE [Reason |-> "Normal", Duration |-> timeout]

\* The cast of a number of milliseconds to uint64_t.
TimerDelay(d) == IF d < 0 THEN Never ELSE d

StartTimer(stop, timeout) ==
  LET computed == GetComputedTimeout(stop, timeout)
  IN  /\ TimeoutReason' = computed.Reason
      /\ Timer' = TimerDelay(computed.Duration)

\* TIMEOUT, or else --timeout, or else CTEST_TEST_TIMEOUT.  TIMEOUT 0 is none.
RequestedTimeout ==
  IF config.Timeout # NoTime
  THEN IF config.Timeout = 0 THEN NoTime ELSE config.Timeout
  ELSE IF config.GlobalTimeout > 0 THEN config.GlobalTimeout
  ELSE IF config.TestTimeOut > 0 THEN config.TestTimeOut ELSE NoTime

TimeRemaining ==
  IF allowed = NoTime THEN MaxDuration
  ELSE IF allowed - Buffer <= 0 THEN 0 ELSE allowed - Buffer

\* What ForkProcess hands to SetTimeout: the timeout in effect, the stop time
\* included.
ForkTimeout ==
  LET requested == RequestedTimeout
      timeout == IF requested = NoTime \/ TimeRemaining < requested
                 THEN TimeRemaining ELSE requested
  IN  GetComputedTimeout(untilStop, timeout).Duration

-----------------------------------------------------------------------------
(* The verdict.                                                            *)

EndTestStatus(res, retVal, forceFail, forceSkip) ==
  LET success == ~forceFail /\ (retVal = 0 \/ config.Required)
  IN  CASE res = "Expired" -> "TIMEOUT"
        [] res = "Exception" -> "OTHER_FAULT"
        [] res = "Exited" ->
             IF forceSkip \/ retVal = config.SkipReturnCode THEN "NOT_RUN"
             ELSE IF success # config.WillFail THEN "COMPLETED" ELSE "FAILED"
        [] OTHER -> Status

NeedsToRepeat(status) ==
  /\ RunNumber # config.RunCount
  /\ status # "NOT_RUN"
  /\ \/ config.RepeatMode = "UntilFail" /\ status = "COMPLETED"
     \/ config.RepeatMode = "UntilPass" /\ status # "COMPLETED"
     \/ config.RepeatMode = "AfterTimeout" /\ status = "TIMEOUT"

\* What the regular expressions find depends on the output, which is abstracted.
ForceFail == IF config.Required \/ config.Forbidden THEN BOOLEAN ELSE {FALSE}
ForceSkip == IF config.SkipRegex THEN BOOLEAN ELSE {FALSE}

\* FinalizeTest hands the runner to the handler, which ends the test and, if it
\* is to repeat, starts it again in the same callback (phase "again").
FinalizeTest(res, retVal) ==
  \E forceFail \in ForceFail, forceSkip \in ForceSkip :
    LET status == EndTestStatus(res, retVal, forceFail, forceSkip)
        again == NeedsToRepeat(status)
        stopped == StopTimePassed
                   \/ (res = "Expired" /\ TimeoutReason' = "StopTime")
    IN  /\ finalized' = finalized + 1
        /\ Status' = status
        /\ StopTimePassed' = stopped
        /\ phase' = IF again /\ ~stopped THEN "again" ELSE "done"
        /\ RunNumber' = IF again THEN RunNumber + 1 ELSE RunNumber

-----------------------------------------------------------------------------
(* Starting the test.                                                      *)

\* StartNextTests looks at the clock and picks the test.  It is started later:
\* when the job server sends a token, or when the tests picked before it have
\* been started.
ChooseTest ==
  /\ phase = "ready"
  /\ untilStop # NoTime => untilStop > 0
  /\ phase' = "queued"
  /\ UNCHANGED <<config, regexPending, process, world, RunNumber, finalized,
                 Status, StopTimePassed, clock>>

\* ForkProcess and StartProcess on a new cmProcess, when the spawn succeeds.
StartProcess ==
  /\ ProcessState' = "Executing"
  /\ TerminationStyle' = "Normal"
  /\ StopTimeout' = untilStop
  /\ StartTimer(untilStop, ForkTimeout)
  /\ graceLeft' = NoTime
  /\ ReadHandleClosed' = FALSE /\ ProcessHandleClosed' = FALSE
  /\ outputEnded' = FALSE
  /\ child' = "running" /\ exit' = 0
  /\ phase' = "running"
  /\ finalized' = 0
  /\ Status' = "BAD_COMMAND"
  /\ UNCHANGED <<config, regexPending, RunNumber, StopTimePassed, clock>>

\* StartTest gives up: "NOT_RUN" for a test that is disabled or lacks a file
\* or its fixture, "BAD_COMMAND" when the process cannot be spawned.
Refusals == {"NOT_RUN", "BAD_COMMAND"}

\* The clock is not looked at again.
StartTest ==
  /\ phase = "queued"
  /\ StartProcess

StartTestFails ==
  /\ phase = "queued"
  /\ ProcessState' = "Error"
  /\ phase' = "done" /\ finalized' = finalized + 1
  /\ Status' \in Refusals
  /\ RunNumber' = IF NeedsToRepeat(Status') THEN RunNumber + 1 ELSE RunNumber
  /\ UNCHANGED <<config, regexPending, TimeoutReason, TerminationStyle,
                 StopTimeout, ReadHandleClosed, ProcessHandleClosed, Timer,
                 outputEnded, graceLeft, world, StopTimePassed, clock>>

\* The rest of the callback that finished the previous run.
StartAgain ==
  /\ phase = "again"
  /\ StartProcess

\* StartAgain drops the result of StartTest: nobody finalizes this run.
StartAgainFails ==
  /\ phase = "again"
  /\ phase' = "lost"
  /\ ProcessState' = "Error" /\ finalized' = 0
  /\ Status' \in Refusals
  /\ UNCHANGED <<config, regexPending, TimeoutReason, TerminationStyle,
                 StopTimeout, ReadHandleClosed, ProcessHandleClosed, Timer,
                 outputEnded, graceLeft, world, RunNumber, StopTimePassed,
                 clock>>

-----------------------------------------------------------------------------
(* The callbacks of the libuv loop.                                        *)

StopTimer_Forgotten == UNCHANGED Timer

\* uv_timer_stop, before OnRead or OnExit calls Finish.
StopTimer == Timer' = NoTime

\* TIMEOUT_AFTER_MATCH takes the place of the grace period, too.
MatchInGrace ==
  graceLeft' = IF graceLeft # NoTime /\ config.AlternateTimeout < graceLeft
               THEN config.AlternateTimeout ELSE graceLeft

\* A complete line arrives.  The first one that TIMEOUT_AFTER_MATCH matches
\* restarts the timer and clears the regular expressions.
OnReadLine ==
  /\ phase = "running" /\ ~ReadHandleClosed
  /\ regexPending
  /\ regexPending' = FALSE
  /\ StartTimer(StopTimeout, config.AlternateTimeout)
  /\ MatchInGrace
  /\ UNCHANGED <<config, ProcessState, TerminationStyle, StopTimeout,
                 ReadHandleClosed, ProcessHandleClosed, outputEnded, world,
                 runner, clock>>

\* The end of the output, or an error of the pipe.  It may come before the
\* child exits, after it, or never: a descendant of the child that holds the
\* write end keeps the pipe open.  A partial last line is checked first, and
\* its match may restart the timer.
OnReadEnd ==
  /\ phase = "running" /\ ~ReadHandleClosed
  /\ ReadHandleClosed' = TRUE /\ outputEnded' = TRUE
  /\ \E match \in {FALSE, regexPending} :
       /\ regexPending' = (regexPending /\ ~match)
       /\ IF match THEN MatchInGrace ELSE UNCHANGED graceLeft
       /\ \/ /\ ProcessHandleClosed
             /\ StopTimer
             /\ TimeoutReason' =
                  IF match THEN GetComputedTimeout(StopTimeout,
                                  config.AlternateTimeout).Reason
                  ELSE TimeoutReason
             /\ FinalizeTest(ProcessState, exit)
          \/ /\ ~ProcessHandleClosed
             /\ IF match THEN StartTimer(StopTimeout, config.AlternateTimeout)
                ELSE UNCHANGED <<TimeoutReason, Timer>>
             /\ UNCHANGED runner
  /\ UNCHANGED <<config, ProcessState, TerminationStyle, StopTimeout,
                 ProcessHandleClosed, world, clock>>

Grace ==
  IF config.GracePeriod # NoTime THEN config.GracePeriod ELSE DefaultGracePeriod

SendTimeoutSignal_Once ==
  /\ TerminationStyle' = "Custom"
  /\ Timer' = NoTime
  /\ graceLeft' = Grace
  /\ UNCHANGED <<TimeoutReason, ReadHandleClosed, child, runner>>

SendTimeoutSignal_FullTimeout ==
  /\ TerminationStyle' = "Custom"
  /\ StartTimer(StopTimeout, ForkTimeout)
  /\ graceLeft' = Grace
  /\ UNCHANGED <<ReadHandleClosed, child, runner>>

\* OnTimeout, first half: the custom signal and the grace period.
SendTimeoutSignal ==
  /\ TerminationStyle' = "Custom"
  /\ StartTimer(StopTimeout, Grace)
  /\ graceLeft' = Grace
  /\ UNCHANGED <<ReadHandleClosed, child, runner>>

KillChild_Forgotten == UNCHANGED child

\* cmsysProcess_KillPID.
KillChild == child' = IF child = "running" THEN "dying" ELSE child

\* OnTimeout, second half: stop reading, then kill the child or, when it is
\* gone already, finish what OnExit left to the reader.
ForceTermination ==
  /\ TerminationStyle' = "Forced"
  /\ Timer' = NoTime
  /\ UNCHANGED <<TimeoutReason, graceLeft>>
  /\ ReadHandleClosed' = TRUE
  /\ \/ /\ ~ProcessHandleClosed
        /\ KillChild
        /\ UNCHANGED runner
     \/ /\ ProcessHandleClosed /\ ~ReadHandleClosed
        /\ FinalizeTest("Expired", exit)
        /\ UNCHANGED child
     \/ /\ ProcessHandleClosed /\ ReadHandleClosed
        /\ UNCHANGED <<child, runner>>

\* The child still executes normally, and it was the test timeout that ran out.
SignalFirst ==
  /\ ProcessState = "Executing"
  /\ TimeoutReason = "Normal"
  /\ config.TimeoutSignal

OnTimeout ==
  /\ phase = "running" /\ Timer = 0
  /\ ProcessState' = "Expired"
  /\ IF SignalFirst THEN SendTimeoutSignal ELSE ForceTermination
  /\ UNCHANGED <<config, regexPending, StopTimeout, ProcessHandleClosed,
                 outputEnded, exit, clock>>

ExitState_Overwrites == IF exit = -1 THEN "Exception" ELSE "Exited"

\* A child that was timed out stays so, however it exits.
ExitState ==
  IF ProcessState = "Expired" THEN "Expired"
  ELSE IF exit = -1 THEN "Exception" ELSE "Exited"

OnExit ==
  /\ phase = "running" /\ child = "zombie"
  /\ child' = "reaped"
  /\ ProcessState' = ExitState
  /\ ProcessHandleClosed' = TRUE
  /\ UNCHANGED TimeoutReason
  /\ \/ /\ ReadHandleClosed
        /\ StopTimer
        /\ FinalizeTest(ProcessState', exit)
     \/ /\ ~ReadHandleClosed
        /\ UNCHANGED <<Timer, runner>>
  /\ UNCHANGED <<config, regexPending, TerminationStyle, StopTimeout,
                 ReadHandleClosed, outputEnded, graceLeft, exit, clock>>

-----------------------------------------------------------------------------
(* The child, the clock, and the other tests of the run.                   *)

\* A killed child may have been about to exit by itself.
ChildExits ==
  /\ child \in {"running", "dying"}
  /\ child' = "zombie"
  /\ exit' \in ExitCodes \cup {-1}
  /\ UNCHANGED <<config, regexPending, process, runner, clock>>

CountDown(t, floor) ==
  IF t # NoTime /\ t > floor THEN t - 1 ELSE t

Tick ==
  /\ phase \in {"ready", "queued", "running"}
  /\ Timer' = IF Timer = Never THEN Never ELSE CountDown(Timer, 0)
  /\ untilStop' = CountDown(untilStop, -1)
  /\ allowed' = CountDown(allowed, 0)
  /\ graceLeft' = CountDown(graceLeft, 0)
  /\ UNCHANGED <<config, regexPending, ProcessState, TimeoutReason,
                 TerminationStyle, StopTimeout, ReadHandleClosed,
                 ProcessHandleClosed, outputEnded, world, runner>>

\* The handler notices the stop time when it looks for another test to start.
CheckStopTimePassed ==
  /\ phase \in {"ready", "queued", "running"}
  /\ untilStop # NoTime /\ untilStop <= 0
  /\ StopTimePassed' = TRUE
  /\ UNCHANGED <<config, regexPending, process, world, phase, RunNumber,
                 finalized, Status, clock>>

\* Nothing is left to do for this test.
Terminated ==
  /\ phase \in {"done", "lost"}
  /\ UNCHANGED vars

Next ==
  \/ ChooseTest \/ StartTest \/ StartTestFails
  \/ StartAgain \/ StartAgainFails
  \/ OnReadLine \/ OnReadEnd \/ OnTimeout \/ OnExit
  \/ ChildExits \/ Tick \/ CheckStopTimePassed
  \/ Terminated

\* The loop runs the callbacks that are due, time passes, and a child that was
\* killed dies.  Nothing else is promised: the child may run forever, ignore
\* the custom signal or leave the pipe open.
Fairness ==
  /\ WF_vars(OnTimeout)
  /\ WF_vars(OnExit)
  /\ WF_vars(Tick)
  /\ WF_vars(child = "dying" /\ ChildExits)
  /\ WF_vars(StartAgain \/ StartAgainFails)

Spec == Init /\ [][Next]_vars

FairSpec == Spec /\ Fairness

-----------------------------------------------------------------------------
(* Properties.                                                             *)

TypeOK ==
  /\ config \in Configs
  /\ phase \in {"ready", "queued", "running", "again", "lost", "done"}
  /\ RunNumber \in Nat
  /\ ProcessState \in {"Starting", "Error", "Exception", "Executing",
                       "Exited", "Expired"}
  /\ TimeoutReason \in {"Normal", "StopTime"}
  /\ TerminationStyle \in {"Normal", "Custom", "Forced"}
  /\ StopTimeout \in Int \cup {NoTime}
  /\ ReadHandleClosed \in BOOLEAN
  /\ ProcessHandleClosed \in BOOLEAN
  /\ Timer \in Int \cup {NoTime}
  /\ child \in {"none", "running", "dying", "zombie", "reaped"}
  /\ exit \in ExitCodes \cup {-1}
  /\ outputEnded \in BOOLEAN
  /\ regexPending \in BOOLEAN
  /\ finalized \in Nat
  /\ StopTimePassed \in BOOLEAN
  /\ untilStop \in Int \cup {NoTime}
  /\ allowed \in Int \cup {NoTime}
  /\ graceLeft \in Int \cup {NoTime}

\* A run that was started is finalized once, by the callback that closes the
\* second of its two handles, and no timer, reader or exit callback is left
\* behind that could run on the destroyed cmProcess.
FinalizedWhenClosed ==
  child # "none" /\ phase # "lost" =>
    /\ finalized = IF ReadHandleClosed /\ ProcessHandleClosed THEN 1 ELSE 0
    /\ finalized = 1 <=> phase # "running"
    /\ finalized = 1 => Timer = NoTime /\ child = "reaped"

\* A verdict other than TIMEOUT is earned: ctest neither signalled the child
\* nor cut off its output, whatever exit code the child left with and whatever
\* WILL_FAIL, SKIP_RETURN_CODE and the regular expressions say.
VerdictIsEarned ==
  child # "none" /\ finalized = 1 =>
    IF Status = "TIMEOUT" THEN TerminationStyle # "Normal"
    ELSE TerminationStyle = "Normal" /\ outputEnded

\* The child was started when the stop time had passed already: its token came
\* late, or it is a repetition that the expiry at the stop time did not prevent.
StartedLate == StopTimeout # NoTime /\ StopTimeout < 0

\* While a child runs that has not been killed, a timer is counting down that
\* will end it, whatever mixture of timeouts, stop time, matches and grace
\* periods started it; only a child that was started after the stop time has
\* none.
TimeoutInForce ==
  child = "running" /\ ~StartedLate => Timer \in 0 .. MaxDuration

\* A test that is run again is timed out like the first time (TIMEOUT, and
\* the stop time of ctest).
RepetitionTimed ==
  child = "running" /\ RunNumber > 1 => Timer \in 0 .. MaxDuration

\* A test with a custom timeout signal is killed only when it was sent that
\* signal and has had the whole grace period since then, or, if a line matched
\* TIMEOUT_AFTER_MATCH in the meantime, that much time since the match; the
\* stop time alone cuts this short.
GraceGiven ==
  [][child = "running" /\ child' = "dying" /\ config.TimeoutSignal
     => graceLeft = 0 \/ TimeoutReason = "StopTime"]_vars

\* Every child that is started before the stop time is finished, even one that
\* ignores the custom signal or leaves a descendant behind that holds the pipe
\* open.
EveryRunEnds ==
  (phase = "running" /\ ~StartedLate) ~> phase # "running"
==============================================================================
