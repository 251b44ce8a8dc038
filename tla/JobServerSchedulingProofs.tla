---------------------- MODULE JobServerSchedulingProofs ----------------------
(***************************************************************************)
(* The scheduler on a job server, for every suite and every server: each   *)
(* test that runs holds one token, no queued test is forgotten, every      *)
(* token goes back, and the composition implements the scheduler whose     *)
(* tokens come from nowhere.                                               *)
(***************************************************************************)
EXTENDS JobServerSchedulingLemmas, MultiProcessHandlerProofs

\* The provers tried on a step that names none.
USE ZenonT(60), SMTT(30)

\* The scheduler's own invariant does not depend on where tokens come from.
JInv == IInv /\ Counted

LEMMA IInvFit == IInv => Fit
BY DEF IInv, Placement, Fit

LEMMA JInitInv == JInit => JInv
<1> SUFFICES ASSUME JInit PROVE JInv
  OBVIOUS
<1>1. IInv
  BY InitInv DEF JInit
<1> QED BY <1>1, IInvFit, JInitCounted DEF JInv

LEMMA JStepInv == JInv /\ [JNext]_allVars => JInv'
<1> SUFFICES ASSUME IInv, Counted, [JNext]_allVars PROVE IInv' /\ Counted'
  BY DEF JInv
<1>1. IInv'
  BY JStepIsStep, IInvInductive, FinalizeLoopKeeps DEF JRunTestsReturns
<1>2. Fit'
  BY <1>1 DEF IInv, Placement, Fit
<1> QED BY <1>1, <1>2, JStepCounted

-----------------------------------------------------------------------------
(* Theorems.                                                               *)

\* Every test that runs or is being started holds exactly one token, however
\* the server, the other clients and the connection behave: the scheduler and
\* the client count the same jobs.
THEOREM OneTokenAlwaysPerTest == JSpec => []OneTokenPerTest
<1>1. JInv => OneTokenPerTest
  BY DEF JInv, Counted
<1> QED BY <1>1, JInitInv, JStepInv, PTL DEF JSpec

\* The tokens come on top of the -j level, the locks and RUN_SERIAL, and
\* replace none of them.
THEOREM LimitsHoldWithTokens ==
  JSpec => [](LevelRespected /\ LocksExclusive /\ SerialAlone)
<1>1. JInv => LevelRespected /\ LocksExclusive /\ SerialAlone
  BY IInvImplies DEF JInv
<1> QED BY <1>1, JInitInv, JStepInv, PTL DEF JSpec

\* Every test that waits in JobServerQueuedTests has a request in the client
\* that will be answered: a needed token or the implicit one on its way.  On
\* POSIX this needs that no token is released before OnToken returns.
THEOREM QueueAlwaysBacked == JSpec => [](Orderly => QueueBacked)
<1> DEFINE Inv == JInv /\ (Orderly => Exact)
<1>1. JInit => Inv
  BY JInitInv, JInitExact
<1>2. Inv /\ [JNext]_allVars => Inv'
  <2>1. Orderly' = Orderly
    BY DEF Orderly
  <2> QED BY <2>1, JStepInv, JStepExact DEF JInv
<1>3. Inv => (Orderly => QueueBacked)
  BY DEF Exact
<1> QED BY <1>1, <1>2, <1>3, PTL DEF JSpec

\* When ctest returns it holds no token and has sent back every one it took,
\* if the connection lasted.  A test that is lost to a repetition keeps its
\* token, and so does an earlier run whose connection broke.
THEOREM TokensAlwaysGivenBack ==
  JSpec => [](Orderly /\ Repeatable /\ SameServer => TokensGivenBack)
<1> DEFINE Given == Orderly /\ Repeatable /\ SameServer
           Inv == JInv /\ (Given => Exact /\ Returned)
<1>1. JInit => Inv
  BY JInitInv, JInitExact, JInitReturned
<1>2. Inv /\ [JNext]_allVars => Inv'
  <2>1. Given' = Given
    BY DEF Orderly, Repeatable, SameServer
  <2> QED BY <2>1, JStepInv, JStepExact, JStepReturned DEF JInv
<1>3. Inv => (Given => TokensGivenBack)
  BY ReturnedImplies DEF JInv
<1> QED BY <1>1, <1>2, <1>3, PTL DEF JSpec

\* The scheduler on a job server implements the scheduler whose tokens come
\* from nowhere, although nothing but the client's handles keeps its loop
\* alive.  So what is proved of the scheduler holds on a job server.  On POSIX
\* a token that is released too early leaves a test queued, and without a
\* connection a test lost to a repetition does.
THEOREM JobServerImplements == Orderly /\ Repeatable => (JSpec => Spec)
<1> SUFFICES ASSUME Orderly, Repeatable PROVE JSpec => Spec
  OBVIOUS
<1> DEFINE Inv == JInv /\ Exact /\ lost = {}
<1>1. JInit => Inv /\ Init
  BY JInitInv, JInitExact DEF JInit, Init
<1>2. Inv /\ [JNext]_allVars => Inv' /\ [Next]_vars
  BY JStepInv, JStepExact, JStepNoneLost, JStepImplements DEF JInv
<1> QED BY <1>1, <1>2, PTL DEF JSpec, Spec

\* On a job server, too, RunTests returns only when every test is over and
\* counted, unless the run was cut short.  There are three conditions.  On
\* POSIX no test is disabled or needs a fixture, none fails to start and nobody
\* interrupts the run (Orderly); the run tokens_neverrun shows a test that is
\* never run otherwise.  No repetition fails to start (Repeatable).  There is no
\* cycle of dependencies, and no dependency at all in a run that resumes from a
\* checkpoint (Sensible).
THEOREM CompleteWithTokens ==
  Orderly /\ Repeatable => (JSpec => [](Sensible => CompleteAtEnd))
<1> SUFFICES ASSUME Orderly, Repeatable
             PROVE  JSpec => [](Sensible => CompleteAtEnd)
  OBVIOUS
<1> DEFINE Inv == JInv /\ lost = {}
<1>1. JInit => Inv
  BY JInitInv DEF JInit, Init
<1>2. Inv /\ [JNext]_allVars => Inv'
  BY JStepInv, JStepNoneLost DEF JInv
<1>3. JSpec => Spec
  BY JobServerImplements
<1> QED BY <1>1, <1>2, <1>3, AlwaysCompleteAtEnd, PTL DEF JSpec
==============================================================================
