------------------------- MODULE ChildProcessProofs -------------------------
(***************************************************************************)
(* Proofs about ChildProcess, for every set of configurations: the run is  *)
(* finalized exactly once and its verdict is earned, in whatever order the *)
(* loop runs the three callbacks; the grace period is given; and a timer   *)
(* is in force unless the child was started after the stop time.           *)
(***************************************************************************)
EXTENDS ChildProcess, TLAPS

\* The provers tried on a step that names none.
USE ZenonT(60), SMTT(30)

\* What the two handle flags, the state and the termination style say of each
\* other and of the child while a run is under way.
Underway ==
  phase = "running" =>
    /\ child # "none"
    /\ finalized = 0
    /\ ~(ReadHandleClosed /\ ProcessHandleClosed)
    /\ ProcessHandleClosed <=> child = "reaped"
    /\ ProcessState \in IF ProcessHandleClosed
                        THEN {"Exited", "Exception", "Expired"}
                        ELSE {"Executing", "Expired"}
    /\ ProcessState = "Expired" <=> TerminationStyle # "Normal"
    /\ TerminationStyle = "Forced" => child # "running"
    /\ ReadHandleClosed /\ TerminationStyle = "Normal" => outputEnded

\* What is left when no run is under way.
AtRest ==
  /\ phase \in {"ready", "queued"} => child = "none" /\ finalized = 0
  /\ phase = "again" => child # "none"
  /\ phase # "running" => child \in {"none", "reaped"}
  /\ phase \in {"again", "done"} /\ child # "none" =>
       /\ finalized = 1
       /\ ReadHandleClosed /\ ProcessHandleClosed
       /\ Timer = NoTime

\* regexPending holds only when there is an alternate timeout to change to.
PendingHasTimeout == regexPending => config.AlternateTimeout # NoTime

\* The timer of the grace period, or of a match in it, is not ahead of what the
\* child is owed.
GraceInForce ==
  child = "running" /\ TerminationStyle = "Custom" /\ TimeoutReason = "Normal" =>
    Timer # NoTime /\ graceLeft <= Timer

\* After the custom signal there is a time the child is owed.
SignalCounts ==
  child = "running" /\ TerminationStyle = "Custom" => graceLeft \in Nat

IInv == TypeOK /\ PendingHasTimeout /\ Underway /\ AtRest /\ VerdictIsEarned

\* FinalizeTest counts the call, leaves the "running" phase, and calls exactly
\* the expired runs timeouts.
LEMMA FinalizeFacts ==
  ASSUME TypeOK, NEW res \in {"Exited", "Exception", "Expired"}, NEW retVal,
         TimeoutReason' \in {"Normal", "StopTime"},
         FinalizeTest(res, retVal)
  PROVE  /\ finalized' = finalized + 1
         /\ phase' \in {"again", "done"}
         /\ Status' = "TIMEOUT" <=> res = "Expired"
         /\ StopTimePassed' \in BOOLEAN
         /\ RunNumber' \in Nat
<1>1. PICK forceFail \in BOOLEAN, forceSkip \in BOOLEAN :
        /\ finalized' = finalized + 1
        /\ Status' = EndTestStatus(res, retVal, forceFail, forceSkip)
        /\ StopTimePassed' =
             (StopTimePassed \/ (res = "Expired" /\ TimeoutReason' = "StopTime"))
        /\ phase' \in {"again", "done"}
        /\ RunNumber' \in {RunNumber, RunNumber + 1}
  BY DEF FinalizeTest, ForceFail, ForceSkip
<1>2. Status' = "TIMEOUT" <=> res = "Expired"
  BY <1>1 DEF EndTestStatus
<1>3. RunNumber' \in Nat
  BY <1>1, SMTT(30) DEF TypeOK
<1>4. StopTimePassed' \in BOOLEAN
  BY <1>1 DEF TypeOK
<1> QED
  BY <1>1, <1>2, <1>3, <1>4

\* The timer a handler starts is a number and its reason one of the two.
LEMMA StartTimerFacts ==
  ASSUME NEW stop \in Int \cup {NoTime}, NEW timeout \in Int,
         StartTimer(stop, timeout)
  PROVE  /\ Timer' \in Int
         /\ TimeoutReason' \in {"Normal", "StopTime"}
<1>1. GetComputedTimeout(stop, timeout).Duration \in Int
  BY DEF GetComputedTimeout
<1>2. GetComputedTimeout(stop, timeout).Reason \in {"Normal", "StopTime"}
  BY DEF GetComputedTimeout
<1>3. MaxDuration \in Nat
  BY ChildAssumption
<1> QED
  BY <1>1, <1>2, <1>3, SMTT(30) DEF StartTimer, TimerDelay, Never

\* Every configuration has the fields that the actions read.
LEMMA ConfigFacts ==
  ASSUME TypeOK
  PROVE  /\ config \in Config
         /\ config.Timeout \in Int \cup {NoTime}
         /\ config.GlobalTimeout \in Int
         /\ config.TestTimeOut \in Int
         /\ config.GracePeriod \in Int \cup {NoTime}
         /\ config.AlternateTimeout \in Int \cup {NoTime}
         /\ config.TimeLimit \in Int \cup {NoTime}
         /\ config.StopTime \in Int \cup {NoTime}
<1>1. config \in Config
  BY ChildAssumption DEF TypeOK
<1> QED
  BY <1>1, ChildAssumption, SMTT(30) DEF Config, Optional

\* The timeout ForkProcess computes is a number.
LEMMA ForkTimeoutType == ASSUME TypeOK PROVE ForkTimeout \in Int
<1>1. TimeRemaining \in Int
  BY ChildAssumption, SMTT(30) DEF TimeRemaining, TypeOK, Buffer
<1>2. RequestedTimeout \in Int \cup {NoTime}
  BY ConfigFacts DEF RequestedTimeout
<1>3. untilStop \in Int \cup {NoTime}
  BY DEF TypeOK
<1> QED
  BY <1>1, <1>2, <1>3 DEF ForkTimeout, GetComputedTimeout

-----------------------------------------------------------------------------
(* Each action preserves the invariant.                                    *)

LEMMA InitIInv == Init => IInv
<1> SUFFICES ASSUME Init PROVE IInv
  OBVIOUS
<1>1. config \in Config
  BY ChildAssumption DEF Init
<1>2. config.TimeLimit \in Int \cup {NoTime} /\ config.StopTime \in Int \cup {NoTime}
  BY <1>1, ChildAssumption, SMTT(30) DEF Config, Optional
<1>3. regexPending \in BOOLEAN
  BY DEF Init
<1>4. TypeOK
  BY <1>2, <1>3, ChildAssumption DEF Init, TypeOK
<1> QED
  BY <1>4 DEF Init, IInv, PendingHasTimeout, Underway, AtRest, VerdictIsEarned

\* A new cmProcess and its child, for StartTest and StartAgain.
LEMMA StartIInv == IInv /\ StartProcess => IInv'
<1> SUFFICES ASSUME IInv, StartProcess PROVE IInv'
  OBVIOUS
<1>1. TypeOK
  BY DEF IInv
<1>2. Timer' \in Int /\ TimeoutReason' \in {"Normal", "StopTime"}
  BY <1>1, ForkTimeoutType, StartTimerFacts DEF StartProcess, TypeOK
<1>3. TypeOK'
  BY <1>1, <1>2, ChildAssumption DEF StartProcess, TypeOK, clock
<1>4. Underway' /\ AtRest' /\ VerdictIsEarned'
  BY SMTT(30) DEF StartProcess, Underway, AtRest, VerdictIsEarned
<1>5. PendingHasTimeout'
  BY DEF IInv, PendingHasTimeout, StartProcess
<1> QED
  BY <1>3, <1>4, <1>5 DEF IInv

LEMMA StartFailsIInv == IInv /\ (StartTestFails \/ StartAgainFails) => IInv'
<1>1. ASSUME IInv, StartTestFails PROVE IInv'
  <2>1. RunNumber' \in Nat
    BY <1>1, SMTT(30) DEF IInv, TypeOK, StartTestFails
  <2>2. TypeOK'
    BY <1>1, <2>1, SMTT(30) DEF IInv, TypeOK, StartTestFails, world, clock
  <2> QED
    BY <1>1, <2>2 DEF IInv, StartTestFails, PendingHasTimeout, Underway,
                      AtRest, VerdictIsEarned, world
<1>2. ASSUME IInv, StartAgainFails PROVE IInv'
  <2>1. TypeOK'
    BY <1>2, SMTT(30) DEF IInv, TypeOK, StartAgainFails, world, clock
  <2> QED
    BY <1>2, <2>1, SMTT(30)
    DEF IInv, StartAgainFails, PendingHasTimeout, Underway,
                      AtRest, VerdictIsEarned, world
<1> QED
  BY <1>1, <1>2

LEMMA OnReadLineIInv == IInv /\ OnReadLine => IInv'
<1> SUFFICES ASSUME IInv, OnReadLine PROVE IInv'
  OBVIOUS
<1>1. config.AlternateTimeout \in Int
  BY ConfigFacts DEF IInv, OnReadLine, PendingHasTimeout
<1>2. Timer' \in Int /\ TimeoutReason' \in {"Normal", "StopTime"}
  BY <1>1, StartTimerFacts DEF IInv, TypeOK, OnReadLine
<1>3. /\ regexPending' \in BOOLEAN /\ Timer' \in Int \cup {NoTime}
      /\ graceLeft' \in Int \cup {NoTime}
  BY <1>1, <1>2 DEF IInv, TypeOK, OnReadLine, MatchInGrace
<1>4. TypeOK'
  BY <1>2, <1>3, SMTT(30) DEF IInv, TypeOK, OnReadLine, world, runner, clock
<1> QED
  BY <1>4 DEF IInv, OnReadLine, PendingHasTimeout, Underway, AtRest,
              VerdictIsEarned, world, runner

LEMMA OnReadEndIInv == IInv /\ OnReadEnd => IInv'
<1> SUFFICES ASSUME IInv, OnReadEnd PROVE IInv'
  OBVIOUS
<1> USE DEF IInv
<1>1. PICK match \in {FALSE, regexPending} :
        /\ regexPending' = (regexPending /\ ~match)
        /\ IF match THEN MatchInGrace ELSE UNCHANGED graceLeft
        /\ \/ /\ ProcessHandleClosed
              /\ StopTimer
              /\ TimeoutReason' =
                   IF match THEN GetComputedTimeout(StopTimeout,
                                   config.AlternateTimeout).Reason
                   ELSE TimeoutReason
              /\ FinalizeTest(ProcessState, exit)
           \/ /\ ~ProcessHandleClosed
              /\ IF match THEN StartTimer(StopTimeout, config.AlternateTimeout)
                 ELSE UNCHANGED <<TimeoutReason, Timer>>
              /\ UNCHANGED runner
  BY DEF OnReadEnd
<1>2. match => config.AlternateTimeout \in Int
  BY <1>1, ConfigFacts DEF PendingHasTimeout
<1>3. PendingHasTimeout' /\ regexPending' \in BOOLEAN
  BY <1>1 DEF OnReadEnd, PendingHasTimeout
<1>4. graceLeft' \in Int \cup {NoTime}
  BY <1>1, <1>2 DEF MatchInGrace, TypeOK
<1>5. CASE ProcessHandleClosed
  <2>1. TimeoutReason' \in {"Normal", "StopTime"}
    BY <1>1, <1>5 DEF GetComputedTimeout, TypeOK
  <2>2. ProcessState \in {"Exited", "Exception", "Expired"}
    BY <1>5 DEF OnReadEnd, Underway
  <2>3. /\ finalized' = finalized + 1
        /\ phase' \in {"again", "done"}
        /\ Status' = "TIMEOUT" <=> ProcessState = "Expired"
        /\ StopTimePassed' \in BOOLEAN
        /\ RunNumber' \in Nat
    BY <1>1, <1>5, <2>1, <2>2, FinalizeFacts, SMTT(30)
  <2>4. TypeOK'
    BY <1>1, <1>3, <1>4, <1>5, <2>1, <2>3, SMTT(30)
    DEF OnReadEnd, StopTimer, TypeOK, world, clock
  <2>5. Underway' /\ AtRest'
    BY <1>1, <1>5, <2>3, SMTT(30)
    DEF OnReadEnd, StopTimer, Underway, AtRest, world
  <2>6. VerdictIsEarned'
    BY <1>5, <2>3 DEF OnReadEnd, Underway, VerdictIsEarned, world
  <2> QED
    BY <1>3, <2>4, <2>5, <2>6
<1>6. CASE ~ProcessHandleClosed
  <2>1. Timer' \in Int \cup {NoTime} /\ TimeoutReason' \in {"Normal", "StopTime"}
    BY <1>1, <1>2, <1>6, StartTimerFacts DEF TypeOK
  <2>2. TypeOK'
    BY <1>1, <1>3, <1>4, <1>6, <2>1, SMTT(30)
    DEF OnReadEnd, TypeOK, world, runner, clock
  <2> QED
    BY <1>1, <1>3, <1>6, <2>2 DEF OnReadEnd, Underway, AtRest,
                                  VerdictIsEarned, world, runner
<1> QED
  BY <1>5, <1>6

LEMMA OnTimeoutIInv == IInv /\ OnTimeout => IInv'
<1> SUFFICES ASSUME IInv, OnTimeout PROVE IInv'
  OBVIOUS
<1> USE DEF IInv
<1>1. PendingHasTimeout'
  BY DEF OnTimeout, PendingHasTimeout
<1>2. CASE SendTimeoutSignal
  <2>1. ProcessState = "Executing"
    BY <1>2 DEF OnTimeout, SignalFirst, SendTimeoutSignal, ForceTermination
  <2>2. Grace \in Int
    BY ConfigFacts, SMTT(30) DEF Grace, DefaultGracePeriod
  <2>3. Timer' \in Int /\ TimeoutReason' \in {"Normal", "StopTime"}
    BY <1>2, <2>2, StartTimerFacts DEF TypeOK, SendTimeoutSignal
  <2>4. TypeOK'
    BY <1>2, <2>2, <2>3, SMTT(30)
    DEF OnTimeout, SendTimeoutSignal, TypeOK, runner, clock
  <2>5. Underway' /\ AtRest' /\ VerdictIsEarned'
    BY <1>2, <2>1, SMTT(30) DEF OnTimeout, SendTimeoutSignal, Underway, AtRest,
                      VerdictIsEarned, runner
  <2> QED
    BY <1>1, <2>4, <2>5
<1>3. CASE ForceTermination
  <2>1. TimeoutReason' \in {"Normal", "StopTime"}
    BY <1>3 DEF ForceTermination, TypeOK
  <2>2. CASE ~ProcessHandleClosed
    <3>1. child' \in {"none", "running", "dying", "zombie", "reaped"}
      BY <1>3, <2>2 DEF ForceTermination, KillChild, TypeOK
    <3>2. TypeOK'
      BY <1>3, <2>1, <2>2, <3>1
      DEF OnTimeout, ForceTermination, TypeOK, runner, clock
    <3>3. Underway' /\ AtRest' /\ VerdictIsEarned'
      BY <1>3, <2>2, SMTT(30)
      DEF OnTimeout, ForceTermination, KillChild, Underway, AtRest,
                        VerdictIsEarned, runner
    <3> QED
      BY <1>1, <3>2, <3>3
  <2>3. CASE ProcessHandleClosed
    <3>1. FinalizeTest("Expired", exit) /\ child' = child
      BY <1>3, <2>3 DEF OnTimeout, ForceTermination, Underway
    <3>2. /\ finalized' = finalized + 1
          /\ phase' \in {"again", "done"}
          /\ Status' = "TIMEOUT"
          /\ StopTimePassed' \in BOOLEAN
          /\ RunNumber' \in Nat
      BY <2>1, <3>1, FinalizeFacts, SMTT(30)
    <3>3. TypeOK'
      BY <1>3, <2>1, <3>1, <3>2, SMTT(30)
      DEF OnTimeout, ForceTermination, TypeOK, clock
    <3>4. Underway' /\ AtRest' /\ VerdictIsEarned'
      BY <1>3, <2>3, <3>1, <3>2, SMTT(30)
      DEF OnTimeout, ForceTermination, Underway,
                                    AtRest, VerdictIsEarned
    <3> QED
      BY <1>1, <3>3, <3>4
  <2> QED
    BY <2>2, <2>3
<1> QED
  BY <1>2, <1>3 DEF OnTimeout

LEMMA OnExitIInv == IInv /\ OnExit => IInv'
<1> SUFFICES ASSUME IInv, OnExit PROVE IInv'
  OBVIOUS
<1> USE DEF IInv
<1>1. ProcessState' \in {"Exited", "Exception", "Expired"}
  BY DEF OnExit, ExitState
<1>2. ProcessState' = "Expired" <=> ProcessState = "Expired"
  BY DEF OnExit, ExitState
<1>3. PendingHasTimeout'
  BY DEF OnExit, PendingHasTimeout
<1>4. TimeoutReason' \in {"Normal", "StopTime"}
  BY DEF OnExit, TypeOK
<1>5. CASE ReadHandleClosed
  <2>1. /\ finalized' = finalized + 1
        /\ phase' \in {"again", "done"}
        /\ Status' = "TIMEOUT" <=> ProcessState' = "Expired"
        /\ StopTimePassed' \in BOOLEAN
        /\ RunNumber' \in Nat
    <3>1. FinalizeTest(ProcessState', exit)
      BY <1>5 DEF OnExit
    <3> QED
      BY <1>1, <1>4, <3>1, FinalizeFacts, SMTT(30)
  <2>2. TypeOK'
    BY <1>1, <1>4, <1>5, <2>1, SMTT(30) DEF OnExit, StopTimer, TypeOK, clock
  <2>3. Underway' /\ AtRest'
    BY <1>5, <2>1, SMTT(30) DEF OnExit, StopTimer, Underway, AtRest
  <2>4. VerdictIsEarned'
    BY <1>2, <1>5, <2>1 DEF OnExit, Underway, VerdictIsEarned
  <2> QED
    BY <1>3, <2>2, <2>3, <2>4
<1>6. CASE ~ReadHandleClosed
  <2>1. TypeOK'
    BY <1>1, <1>4, <1>6, SMTT(30) DEF OnExit, TypeOK, runner, clock
  <2>2. Underway' /\ AtRest' /\ VerdictIsEarned'
    BY <1>1, <1>2, <1>6 DEF OnExit, Underway, AtRest, VerdictIsEarned, runner
  <2> QED
    BY <1>3, <2>1, <2>2
<1> QED
  BY <1>5, <1>6

LEMMA WorldIInv ==
  IInv /\ (\/ ChooseTest \/ ChildExits \/ Tick \/ CheckStopTimePassed
           \/ Terminated) => IInv'
<1> USE DEF IInv
<1>1. ASSUME IInv, ChildExits PROVE IInv'
  BY <1>1, SMTT(30)
  DEF ChildExits, TypeOK, PendingHasTimeout, Underway, AtRest,
              VerdictIsEarned, process, runner, clock
<1>2. ASSUME IInv, Tick PROVE IInv'
  <2>1. /\ Timer' \in Int \cup {NoTime} /\ untilStop' \in Int \cup {NoTime}
        /\ allowed' \in Int \cup {NoTime} /\ graceLeft' \in Int \cup {NoTime}
    BY <1>2, ChildAssumption, SMTT(30) DEF Tick, TypeOK, CountDown, Never
  <2>2. TypeOK'
    BY <1>2, <2>1, SMTT(30) DEF Tick, TypeOK, world, runner
  <2>3. Timer = NoTime => Timer' = NoTime
    BY <1>2, ChildAssumption DEF Tick, CountDown, Never
  <2> QED
    BY <1>2, <2>2, <2>3 DEF Tick, PendingHasTimeout, Underway, AtRest,
                            VerdictIsEarned, world, runner
<1>3. ASSUME IInv, CheckStopTimePassed PROVE IInv'
  BY <1>3, SMTT(30)
  DEF CheckStopTimePassed, TypeOK, PendingHasTimeout, Underway, AtRest,
              VerdictIsEarned, process, world, clock
<1>4. ASSUME IInv, Terminated PROVE IInv'
  BY <1>4, SMTT(30)
  DEF Terminated, TypeOK, PendingHasTimeout, Underway, AtRest,
              VerdictIsEarned, vars, process, world, runner, clock
<1>5. ASSUME IInv, ChooseTest PROVE IInv'
  BY <1>5, SMTT(30)
  DEF ChooseTest, TypeOK, PendingHasTimeout, Underway, AtRest,
              VerdictIsEarned, process, world, clock
<1> QED
  BY <1>1, <1>2, <1>3, <1>4, <1>5

-----------------------------------------------------------------------------
(* The theorems.                                                           *)

LEMMA NextIInv == IInv /\ [Next]_vars => IInv'
<1> SUFFICES ASSUME IInv, [Next]_vars PROVE IInv'
  OBVIOUS
<1>1. CASE StartTest \/ StartAgain
  BY <1>1, StartIInv DEF StartTest, StartAgain
<1>2. CASE StartTestFails \/ StartAgainFails
  BY <1>2, StartFailsIInv
<1>3. CASE OnReadLine \/ OnReadEnd
  BY <1>3, OnReadLineIInv, OnReadEndIInv
<1>4. CASE OnTimeout \/ OnExit
  BY <1>4, OnTimeoutIInv, OnExitIInv
<1>5. CASE ChooseTest \/ ChildExits \/ Tick \/ CheckStopTimePassed \/ Terminated
  BY <1>5, WorldIInv
<1>6. CASE UNCHANGED vars
  BY <1>6, SMTT(30) DEF IInv, TypeOK, PendingHasTimeout, Underway, AtRest,
              VerdictIsEarned, vars, process, world, runner, clock
<1> QED
  BY <1>1, <1>2, <1>3, <1>4, <1>5, <1>6 DEF Next

LEMMA AlwaysIInv == Spec => []IInv
  BY InitIInv, NextIInv, PTL DEF Spec

\* The members of cmProcess and the runner keep their types.
THEOREM ChildTypeCorrect == Spec => []TypeOK
<1>1. IInv => TypeOK
  BY DEF IInv
<1> QED
  BY <1>1, AlwaysIInv, PTL

\* In every order of the read, timeout and exit callbacks a started run is
\* finalized once, by the one that closes the second handle.
THEOREM FinalizedOnce == Spec => []FinalizedWhenClosed
<1>1. IInv => FinalizedWhenClosed
  BY SMTT(30) DEF IInv, TypeOK, Underway, AtRest, FinalizedWhenClosed
<1> QED
  BY <1>1, AlwaysIInv, PTL

\* No test that ctest signalled, killed or stopped reading from is reported
\* as anything but a timeout, and no other test is.
THEOREM VerdictsAreEarned == Spec => []VerdictIsEarned
<1>1. IInv => VerdictIsEarned
  BY DEF IInv
<1> QED
  BY <1>1, AlwaysIInv, PTL

-----------------------------------------------------------------------------
(* The timers.  A timeout that is not negative is in force, and the reason *)
(* of the computed timeout is the test's own only if it is not longer than *)
(* the stop time.                                                          *)

Delay == 0 .. MaxDuration

TimerInv ==
  /\ untilStop # NoTime => untilStop <= MaxDuration
  /\ allowed # NoTime => allowed <= MaxDuration
  /\ StopTimeout # NoTime => StopTimeout <= MaxDuration
  /\ TimeoutInForce
  /\ SignalCounts
  /\ GraceInForce

LEMMA ConfigRanges ==
  ASSUME TypeOK
  PROVE  /\ config.GracePeriod # NoTime => config.GracePeriod \in Delay
         /\ config.AlternateTimeout # NoTime => config.AlternateTimeout \in Delay
         /\ config.TimeLimit # NoTime => config.TimeLimit <= MaxDuration
         /\ config.StopTime # NoTime => config.StopTime <= MaxDuration
         /\ Grace \in Delay
<1>1. /\ config.GracePeriod # NoTime => config.GracePeriod \in Delay
      /\ config.AlternateTimeout # NoTime => config.AlternateTimeout \in Delay
      /\ config.TimeLimit # NoTime => config.TimeLimit <= MaxDuration
      /\ config.StopTime # NoTime => config.StopTime <= MaxDuration
  BY ConfigFacts, ChildAssumption, SMTT(30) DEF Config, Optional, Delay
<1>2. DefaultGracePeriod \in Delay
  BY ChildAssumption, SMTT(30) DEF DefaultGracePeriod, Delay
<1> QED
  BY <1>1, <1>2 DEF Grace

\* What StartTimer makes of a stop time and a timeout in range.
LEMMA StartTimerInForce ==
  ASSUME NEW stop \in Int \cup {NoTime}, stop # NoTime => stop <= MaxDuration,
         NEW timeout \in Delay, StartTimer(stop, timeout)
  PROVE  /\ ~(stop # NoTime /\ stop < 0) => Timer' \in Delay
         /\ TimeoutReason' = "Normal" => Timer' = timeout
<1>1. CASE stop # NoTime /\ stop < timeout
  <2>1. TimeoutReason' = "StopTime" /\ Timer' = TimerDelay(stop)
    BY <1>1 DEF StartTimer, GetComputedTimeout
  <2>2. ~(stop < 0) => Timer' \in Delay
    BY <1>1, <2>1, ChildAssumption, SMTT(30) DEF TimerDelay, Delay
  <2> QED
    BY <1>1, <2>1, <2>2
<1>2. CASE ~(stop # NoTime /\ stop < timeout)
  <2>1. Timer' = TimerDelay(timeout)
    BY <1>2 DEF StartTimer, GetComputedTimeout
  <2>2. TimerDelay(timeout) = timeout
    BY ChildAssumption, SMTT(30) DEF TimerDelay, Delay
  <2> QED
    BY <2>1, <2>2
<1> QED
  BY <1>1, <1>2

LEMMA ForkTimeoutInRange ==
  ASSUME TypeOK, TimerInv, untilStop # NoTime => untilStop \in Delay
  PROVE  ForkTimeout \in Delay
<1>1. TimeRemaining \in Delay
  BY ChildAssumption, SMTT(30) DEF TimerInv, TimeRemaining, TypeOK, Buffer, Delay
<1>2. RequestedTimeout \in Delay \cup {NoTime}
  BY ConfigFacts, ChildAssumption DEF RequestedTimeout, Config, Optional, Delay
<1> QED
  BY <1>1, <1>2 DEF ForkTimeout, GetComputedTimeout, Delay

LEMMA InitTimerInv == Init => TimerInv
<1> SUFFICES ASSUME Init PROVE TimerInv
  OBVIOUS
<1>1. TypeOK
  BY InitIInv DEF IInv
<1> QED
  BY <1>1, ConfigRanges DEF Init, TimerInv, TimeoutInForce, GraceInForce,
                             SignalCounts

LEMMA StartTimerInv ==
  ASSUME IInv, TimerInv, StartProcess
  PROVE  TimerInv'
<1>1. CASE untilStop # NoTime /\ untilStop < 0
  BY <1>1 DEF TimerInv, TimeoutInForce, StartedLate, GraceInForce,
              SignalCounts, StartProcess, clock
<1>2. CASE ~(untilStop # NoTime /\ untilStop < 0)
  <2>1. untilStop # NoTime => untilStop \in Delay
    BY <1>2, SMTT(30) DEF IInv, TypeOK, TimerInv, Delay
  <2>2. ForkTimeout \in Delay
    BY <2>1, ForkTimeoutInRange DEF IInv
  <2>3. Timer' \in Delay
    BY <1>2, <2>2, StartTimerInForce DEF StartProcess, IInv, TypeOK, TimerInv
  <2> QED
    BY <2>3 DEF TimerInv, TimeoutInForce, GraceInForce, SignalCounts,
                StartProcess, clock, Delay
<1> QED
  BY <1>1, <1>2

\* A match starts a timer in range, and what the child is owed shrinks to it.
LEMMA MatchTimerInv ==
  ASSUME IInv, TimerInv, regexPending, MatchInGrace,
         StartTimer(StopTimeout, config.AlternateTimeout),
         UNCHANGED <<StopTimeout, TerminationStyle, child, clock>>
  PROVE  TimerInv'
<1>1. config.AlternateTimeout \in Delay
  BY ConfigRanges DEF IInv, PendingHasTimeout
<1>2. /\ ~StartedLate => Timer' \in Delay
      /\ TimeoutReason' = "Normal" => Timer' = config.AlternateTimeout
  BY <1>1, StartTimerInForce DEF IInv, TypeOK, TimerInv, StartedLate
<1>3. GraceInForce'
  <2> SUFFICES ASSUME child = "running", TerminationStyle = "Custom",
                      TimeoutReason' = "Normal"
               PROVE  Timer' # NoTime /\ graceLeft' <= Timer'
    BY DEF GraceInForce
  <2>1. graceLeft \in Nat
    BY DEF TimerInv, SignalCounts
  <2>2. Timer' = config.AlternateTimeout
    BY <1>2
  <2>3. CASE config.AlternateTimeout < graceLeft
    BY <1>1, <2>1, <2>2, <2>3, ChildAssumption, SMTT(30) DEF MatchInGrace, Delay
  <2>4. CASE ~(config.AlternateTimeout < graceLeft)
    BY <1>1, <2>1, <2>2, <2>4, ChildAssumption, SMTT(30) DEF MatchInGrace, Delay
  <2> QED
    BY <2>3, <2>4
<1>4. SignalCounts'
  BY <1>1, ChildAssumption, SMTT(30) DEF TimerInv, SignalCounts, MatchInGrace, Delay
<1> QED
  BY <1>2, <1>3, <1>4 DEF TimerInv, TimeoutInForce, StartedLate, clock, Delay

LEMMA NextTimerInv ==
  ASSUME IInv, TimerInv, [Next]_vars
  PROVE  TimerInv'
<1> USE DEF IInv
<1>1. CASE StartTest \/ StartAgain
  BY <1>1, StartTimerInv DEF StartTest, StartAgain
<1>2. CASE StartTestFails \/ StartAgainFails
  BY <1>2 DEF StartTestFails, StartAgainFails, TimerInv, TimeoutInForce,
              StartedLate, GraceInForce, SignalCounts, world, clock
<1>3. CASE OnReadLine
  BY <1>3, MatchTimerInv DEF OnReadLine, world
<1>4. CASE OnReadEnd
  <2>1. CASE ProcessHandleClosed
    <3>1. child' # "running"
      BY <1>4, <2>1 DEF OnReadEnd, Underway, world
    <3> QED
      BY <1>4, <3>1 DEF OnReadEnd, TimerInv, TimeoutInForce, GraceInForce,
                        SignalCounts, clock, world
  <2>2. CASE ~ProcessHandleClosed
    <3>1. PICK match \in {FALSE, regexPending} :
            IF match
            THEN /\ StartTimer(StopTimeout, config.AlternateTimeout)
                 /\ MatchInGrace
            ELSE UNCHANGED <<TimeoutReason, Timer, graceLeft>>
      BY <1>4, <2>2 DEF OnReadEnd
    <3>2. UNCHANGED <<StopTimeout, TerminationStyle, child, clock>>
      BY <1>4 DEF OnReadEnd, world
    <3>3. CASE match
      BY <3>1, <3>2, <3>3, MatchTimerInv
    <3>4. CASE ~match
      BY <3>1, <3>2, <3>4 DEF TimerInv, TimeoutInForce, StartedLate,
                              GraceInForce, SignalCounts, clock
    <3> QED
      BY <3>3, <3>4
  <2> QED
    BY <2>1, <2>2
<1>5. CASE OnTimeout
  <2>1. CASE SendTimeoutSignal
    <3>1. Grace \in Delay
      BY ConfigRanges
    <3>2. /\ ~StartedLate => Timer' \in Delay
          /\ TimeoutReason' = "Normal" => Timer' = Grace
      BY <2>1, <3>1, StartTimerInForce
      DEF SendTimeoutSignal, TypeOK, TimerInv, StartedLate
    <3>3. GraceInForce' /\ SignalCounts'
      BY <2>1, <3>1, <3>2, ChildAssumption, SMTT(30)
      DEF SendTimeoutSignal, GraceInForce, SignalCounts, Delay
    <3> QED
      BY <1>5, <2>1, <3>2, <3>3 DEF OnTimeout, SendTimeoutSignal, TimerInv,
                              TimeoutInForce, StartedLate, clock, Delay
  <2>2. CASE ForceTermination
    <3>1. child' # "running"
      BY <1>5, <2>2 DEF OnTimeout, ForceTermination, KillChild, Underway
    <3> QED
      BY <1>5, <2>2, <3>1 DEF OnTimeout, ForceTermination, TimerInv,
                         TimeoutInForce, GraceInForce, SignalCounts, clock
  <2> QED
    BY <1>5, <2>1, <2>2 DEF OnTimeout
<1>6. CASE OnExit
  BY <1>6 DEF OnExit, TimerInv, TimeoutInForce, GraceInForce, SignalCounts, clock
<1>7. CASE ChildExits
  BY <1>7 DEF ChildExits, TimerInv, TimeoutInForce, GraceInForce,
              SignalCounts, process, clock
<1>8. CASE Tick
  <2>1. /\ untilStop' # NoTime => untilStop' <= MaxDuration
        /\ allowed' # NoTime => allowed' <= MaxDuration
        /\ UNCHANGED <<StopTimeout, child, TerminationStyle, TimeoutReason>>
    BY <1>8, ChildAssumption, SMTT(30)
    DEF Tick, CountDown, TypeOK, TimerInv, world
  <2>2. TimeoutInForce'
    BY <1>8, <2>1, ChildAssumption, SMTT(30)
    DEF Tick, CountDown, Never, TypeOK, TimerInv, TimeoutInForce, StartedLate
  <2>3. GraceInForce'
    BY <1>8, <2>1, ChildAssumption, SMTT(30)
    DEF Tick, CountDown, Never, TypeOK, TimerInv, GraceInForce
  <2>4. SignalCounts'
    BY <1>8, <2>1, ChildAssumption, SMTT(30)
    DEF Tick, CountDown, TypeOK, TimerInv, SignalCounts
  <2> QED
    BY <2>1, <2>2, <2>3, <2>4 DEF TimerInv
<1>9. CASE ChooseTest \/ CheckStopTimePassed \/ Terminated \/ UNCHANGED vars
  BY <1>9 DEF ChooseTest, CheckStopTimePassed, Terminated, TimerInv,
              TimeoutInForce, StartedLate, GraceInForce, SignalCounts, vars,
              process, world, clock
<1> QED
  BY <1>1, <1>2, <1>3, <1>4, <1>5, <1>6, <1>7, <1>8, <1>9 DEF Next

LEMMA AlwaysTimerInv == Spec => [](IInv /\ TimerInv)
<1>1. Init => IInv /\ TimerInv
  BY InitIInv, InitTimerInv
<1>2. IInv /\ TimerInv /\ [Next]_vars => (IInv /\ TimerInv)'
  BY NextIInv, NextTimerInv
<1> QED
  BY <1>1, <1>2, PTL DEF Spec

\* While a child runs that was not killed, a timer is counting down that will
\* end it, unless the child was started after the stop time.
THEOREM TimeoutsInForce == Spec => []TimeoutInForce
<1>1. IInv /\ TimerInv => TimeoutInForce
  BY DEF TimerInv
<1> QED
  BY <1>1, AlwaysTimerInv, PTL

\* A child with a custom timeout signal is not killed before the grace period
\* since that signal, or TIMEOUT_AFTER_MATCH since a match in it, has run out,
\* except for the stop time.
THEOREM GraceIsGiven == Spec => GraceGiven
<1>1. ASSUME IInv, TimerInv, [Next]_vars,
             child = "running", child' = "dying", config.TimeoutSignal
      PROVE  graceLeft = 0 \/ TimeoutReason = "StopTime"
  <2>1. OnTimeout
    BY <1>1 DEF Next, ChooseTest, StartTest, StartAgain, StartProcess,
                StartTestFails, StartAgainFails, OnReadLine, OnReadEnd, OnExit,
                ChildExits, Tick, CheckStopTimePassed, Terminated, vars, world
  <2> SUFFICES ASSUME TimeoutReason = "Normal" PROVE graceLeft = 0
    BY <1>1 DEF IInv, TypeOK
  <2>2. ProcessState # "Executing"
    BY <1>1, <2>1 DEF OnTimeout, SignalFirst, SendTimeoutSignal
  <2>3. TerminationStyle = "Custom"
    BY <1>1, <2>1, <2>2 DEF IInv, TypeOK, Underway, OnTimeout
  <2>4. graceLeft \in Nat /\ graceLeft <= Timer /\ Timer = 0
    BY <1>1, <2>1, <2>3 DEF TimerInv, GraceInForce, SignalCounts, OnTimeout
  <2> QED
    BY <2>4, SMTT(30)
<1>2. IInv /\ TimerInv /\ [Next]_vars =>
        [child = "running" /\ child' = "dying" /\ config.TimeoutSignal
           => graceLeft = 0 \/ TimeoutReason = "StopTime"]_vars
  BY <1>1
<1> QED
  BY <1>2, AlwaysTimerInv, PTL DEF Spec, GraceGiven
==============================================================================
