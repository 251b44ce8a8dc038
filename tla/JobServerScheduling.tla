------------------------- MODULE JobServerScheduling -------------------------
(***************************************************************************)
(* The scheduler and the job server client together: ctest run by a build  *)
(* tool that shares its jobs.  StartTest asks the client for a token and   *)
(* queues the test, OnToken is JobServerReceivedToken, FinishTestProcess   *)
(* releases the token, and the loop of libuv decides which callback may    *)
(* run when and whether there is anything left to wait for.                *)
(***************************************************************************)
EXTENDS MultiProcessHandler

CONSTANTS
  Slots, MayDisconnect,  \* see JobServerClient
  PosixSuites            \* the suites that are run on POSIX; on Windows all are

\* ctest found a job server, so every test waits for a token.
ASSUME SchedulingAssumption ==
  /\ Slots \in Nat
  /\ MayDisconnect \in BOOLEAN
  /\ \A su \in Suites : su.JobServer

VARIABLES
  platform,
  cl, pool, others, phase, idleQueued,  \* see JobServerClient
  startQueued,  \* StartNextTestsOnIdle_ is due in this idle phase
  newborn       \* tests whose process was started since the i/o phase began

\* The client's own environment is replaced by the scheduler: the requests
\* that wait are the queued tests.
Posix == INSTANCE JobServerClient WITH
  Platform <- "posix", waiting <- Len(queued), fresh <- 0, requests <- 0,
  MaxRequests <- 0, SyncRelease <- TRUE
Win32 == INSTANCE JobServerClient WITH
  Platform <- "win32", waiting <- Len(queued), fresh <- 0, requests <- 0,
  MaxRequests <- 0, SyncRelease <- TRUE

\* What the two clients do not share: when and where tokens are received.
MayReceive(c) ==
  IF platform = "posix" THEN Posix!MayReceive(c) ELSE Win32!MayReceive(c)
ClientBreaks ==
  IF platform = "posix" THEN Posix!ConnectionBreaks ELSE Win32!ConnectionBreaks

server == <<pool, others>>
loop == <<phase, idleQueued, startQueued, newborn>>
clVars == <<platform, cl, server, loop>>
allVars == <<vars, clVars>>

JInit ==
  /\ Init
  /\ platform \in {"posix", "win32"}
  /\ platform = "posix" => suite \in PosixSuites
  /\ cl = Posix!Connected
  /\ pool \in 0 .. Slots
  /\ others = Slots - pool
  /\ phase = "idle"
  /\ idleQueued = FALSE
  /\ startQueued = FALSE
  /\ newborn = {}

\* A release in the client, and what it sends back to the server.
ReleaseToken(c, p) ==
  \E ok \in Posix!Outcomes :
    /\ cl' = Posix!ReleaseTokenOp(c, ok)
    /\ pool' = IF Posix!SendsToken(c) /\ ok THEN p + 1 ELSE p

\* OnToken with the client holding the token: the callback gives it back at
\* once if ctest was interrupted, else StartTestProcess goes on with it.
OnToken(c, p) ==
  /\ JobServerReceivedToken
  /\ IF interrupted THEN ReleaseToken(c, p) ELSE cl' = c /\ pool' = p

JRunTests ==
  /\ RunTests
  /\ cl' = Posix!Connected
  /\ UNCHANGED <<platform, server, loop>>

\* The handle of StartNextTestsOnIdle_ or of StartNextTestsOnTimer_ is due.
JStartNextTests ==
  /\ \/ phase = "idle" /\ startQueued /\ idle
     \/ phase = "timers" /\ timer
  /\ StartNextTests
  /\ startQueued' = FALSE
  /\ UNCHANGED <<platform, cl, server, phase, idleQueued, newborn>>

\* Mutant: no token is asked for.
JScanStarts_NoRequest ==
  /\ ScanStarts
  /\ UNCHANGED <<platform, cl, server, loop>>

JScanStarts ==
  /\ ScanStarts
  /\ \E ok \in Posix!Outcomes : cl' = Posix!RequestTokenOp(cl, ok)
  /\ UNCHANGED <<platform, server, loop>>

JScanGoesOn ==
  /\ ScanSkips \/ ScanEnds
  /\ UNCHANGED clVars

ImplicitToken ==
  /\ InLoop
  /\ phase = "idle" /\ idleQueued
  /\ idleQueued' = FALSE
  /\ OnToken(Posix!HoldToken([cl EXCEPT !.implicit = FALSE]), pool)
  /\ UNCHANGED <<platform, others, phase, startQueued, newborn>>

ExplicitToken ==
  /\ InLoop
  /\ phase = IF platform = "posix" THEN "poll" ELSE "timers"
  /\ MayReceive(cl)
  /\ pool > 0
  /\ OnToken(Posix!ReceivedToken(cl), pool - 1)
  /\ UNCHANGED <<platform, others, loop>>

JTestStarts ==
  /\ TestStarts
  /\ newborn' = IF phase = "idle" THEN newborn ELSE newborn \cup starting
  /\ UNCHANGED <<platform, cl, server, phase, idleQueued, startQueued>>

\* Mutant: a test that is not run keeps its token.
JTestNotStarted_KeepsToken ==
  /\ TestNotStarted
  /\ UNCHANGED <<platform, cl, pool, others, loop>>

JTestNotStarted ==
  /\ TestNotStarted
  /\ ReleaseToken(cl, pool)
  /\ UNCHANGED <<platform, others, loop>>

\* OnExit and OnRead finish a test in the i/o phase, OnTimeout among the timers:
\* a child that was reaped while its output stayed open.
EndsWith ==
  IF phase = "timers" THEN {"TIMEOUT"}
  ELSE {"COMPLETED", "FAILED", "TIMEOUT", "SKIPPED"}

\* Mutant: the token is not released.
JTestEnds_KeepsToken(t) ==
  /\ phase # "idle"
  /\ t \notin newborn
  /\ \E st \in EndsWith :
       \/ ProcessEnds(t, st) /\ UNCHANGED <<cl, pool>>
       \/ ProcessRunsAgain(t, st) /\ UNCHANGED <<cl, pool>>
  /\ UNCHANGED <<platform, others, loop>>

\* A child is reaped in an i/o phase after the one it was started in.
JTestEnds(t) ==
  /\ phase # "idle"
  /\ t \notin newborn
  /\ \E st \in EndsWith :
       \/ ProcessEnds(t, st) /\ ReleaseToken(cl, pool)
       \/ ProcessRunsAgain(t, st) /\ UNCHANGED <<cl, pool>>
  /\ UNCHANGED <<platform, others, loop>>

ConnectionBreaks ==
  /\ InLoop
  /\ UNCHANGED <<vars, platform, startQueued, newborn>>
  /\ ClientBreaks

\* One phase of the loop is over.
EnterPhase ==
  /\ InLoop
  /\ ~idleQueued /\ ~startQueued
  /\ phase' = CASE phase = "idle" -> "poll"
                [] phase = "poll" -> "timers"
                [] phase = "timers" -> "idle"
  /\ idleQueued' = (phase = "timers" /\ cl.implicit)
  /\ startQueued' = (phase = "timers" /\ idle)
  /\ newborn' = IF phase = "poll" THEN newborn ELSE {}
  /\ UNCHANGED <<vars, platform, cl, server>>

OtherClients ==
  /\ UNCHANGED <<vars, platform, startQueued, newborn>>
  /\ Posix!OtherTakes \/ Posix!OtherReturns

JInterrupt == Interrupt /\ UNCHANGED clVars

\* uv_run returns when no handle is active.  Whether tests are queued for
\* tokens is not asked.
JRunTestsReturns ==
  /\ InLoop
  /\ ~idle /\ ~timer
  /\ running = {}
  /\ ~cl.implicit /\ ~cl.receiving
  /\ FinalizeLoop
  /\ UNCHANGED clVars

JNext ==
  \/ JRunTests
  \/ JStartNextTests
  \/ JScanStarts
  \/ JScanGoesOn
  \/ ImplicitToken
  \/ ExplicitToken
  \/ JTestStarts
  \/ JTestNotStarted
  \/ \E t \in running : JTestEnds(t)
  \/ ConnectionBreaks
  \/ EnterPhase
  \/ OtherClients
  \/ JInterrupt
  \/ JRunTestsReturns
  \/ pc = "done" /\ UNCHANGED allVars

JSpec == JInit /\ [][JNext]_allVars

\* The loop turns, its callbacks run and every child ends.  The other
\* clients of the server may keep every token for ever.
JFairSpec ==
  /\ JSpec
  /\ WF_allVars(JRunTests)
  /\ SF_allVars(JStartNextTests)
  /\ WF_allVars(JScanStarts \/ JScanGoesOn)
  /\ WF_allVars(ImplicitToken)
  /\ WF_allVars(JTestStarts \/ JTestNotStarted)
  /\ \A t \in AllTests : SF_allVars(JTestEnds(t))
  /\ WF_allVars(EnterPhase)
  /\ WF_allVars(JRunTestsReturns)

-----------------------------------------------------------------------------
(* Properties.                                                             *)

\* Every test whose process runs, or is being started, holds one token: the
\* scheduler and the client count the same jobs.
OneTokenPerTest ==
  cl.held = Cardinality(running \cup lost \cup starting)

\* Every queued test has a request in the client that will be answered.
QueueBacked == Posix!NoRequestLost

\* When ctest returns it has given every token back, if it still could.
TokensGivenBack ==
  pc = "done" /\ cl.open => cl.held = 0 /\ pool + others = Slots
=============================================================================
