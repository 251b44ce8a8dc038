---------------------- MODULE JobServerSchedulingLemmas ----------------------
(***************************************************************************)
(* The steps of the scheduler on a job server: what the functions of the   *)
(* client do to its members, what a step of the composition can be to the  *)
(* client (Moves), and the three layers of the invariant: Counted, Exact   *)
(* and Returned.  Of the scheduler only Fit is used here, which follows    *)
(* from its own invariant: see JobServerSchedulingProofs.                  *)
(***************************************************************************)
EXTENDS JobServerScheduling, FiniteSetTheorems, TLAPS

\* The provers tried on a step that names none.
USE ZenonT(60), SMTT(30)

-----------------------------------------------------------------------------
(* The functions of the client.                                            *)

\* Reading is on exactly while tokens are needed and the connection lasts.
Reading(c) == c \in Posix!Client /\ (c.receiving <=> c.open /\ c.need > 0)

\* A token of c is released: the last one goes to a request that waits.
Released(c, d) ==
  /\ Reading(d) /\ d.held = c.held - 1
  /\ d.open => c.open
  /\ IF c.held = 1 /\ c.need > 0
     THEN d.implicit /\ d.need = c.need - 1
     ELSE (d.implicit <=> c.implicit) /\ d.need = c.need

\* A token is requested: the implicit one if nobody has it or waits for it.
Requested(c, d) ==
  /\ Reading(d) /\ d.held = c.held
  /\ d.open => c.open
  /\ IF c.held = 0 /\ ~c.implicit
     THEN d.implicit /\ d.need = c.need
     ELSE (d.implicit <=> c.implicit) /\ d.need = c.need + 1

\* Assigning one member leaves the others alone.
LEMMA NeedSet ==
  ASSUME NEW c \in Posix!Client, NEW n \in Nat, NEW d,
         d = [c EXCEPT !.need = n]
  PROVE  /\ d \in Posix!Client /\ d.held = c.held /\ d.need = n
         /\ (d.open <=> c.open) /\ (d.receiving <=> c.receiving)
         /\ (d.implicit <=> c.implicit)
BY SMTT(30) DEF Posix!Client

LEMMA HeldSet ==
  ASSUME NEW c \in Posix!Client, NEW n \in Nat, NEW d,
         d = [c EXCEPT !.held = n]
  PROVE  /\ d \in Posix!Client /\ d.held = n /\ d.need = c.need
         /\ (d.open <=> c.open) /\ (d.receiving <=> c.receiving)
         /\ (d.implicit <=> c.implicit)
BY SMTT(30) DEF Posix!Client

LEMMA ReceivingSet ==
  ASSUME NEW c \in Posix!Client, NEW b \in BOOLEAN, NEW d,
         d = [c EXCEPT !.receiving = b]
  PROVE  /\ d \in Posix!Client /\ d.held = c.held /\ d.need = c.need
         /\ (d.open <=> c.open) /\ (d.receiving <=> b)
         /\ (d.implicit <=> c.implicit)
BY SMTT(30) DEF Posix!Client

LEMMA OpenSet ==
  ASSUME NEW c \in Posix!Client, NEW b \in BOOLEAN, NEW d,
         d = [c EXCEPT !.open = b]
  PROVE  /\ d \in Posix!Client /\ d.held = c.held /\ d.need = c.need
         /\ (d.open <=> b) /\ (d.receiving <=> c.receiving)
         /\ (d.implicit <=> c.implicit)
BY SMTT(30) DEF Posix!Client

LEMMA ImplicitSet ==
  ASSUME NEW c \in Posix!Client, NEW b \in BOOLEAN, NEW d,
         d = [c EXCEPT !.implicit = b]
  PROVE  /\ d \in Posix!Client /\ d.held = c.held /\ d.need = c.need
         /\ (d.open <=> c.open) /\ (d.receiving <=> c.receiving)
         /\ (d.implicit <=> b)
BY SMTT(30) DEF Posix!Client

\* Disconnect ends the reading.
LEMMA Disconnects ==
  ASSUME NEW c, c \in Posix!Client
  PROVE  LET d == Posix!Disconnect(c)
         IN  /\ d \in Posix!Client /\ ~d.open
             /\ (d.receiving <=> ~c.open /\ c.receiving)
             /\ (d.implicit <=> c.implicit)
             /\ d.held = c.held /\ d.need = c.need
<1>1. CASE c.open
  <2> DEFINE e == [c EXCEPT !.receiving = FALSE]
  <2>1. Posix!Disconnect(c) = [e EXCEPT !.open = FALSE]
    BY <1>1 DEF Posix!Disconnect, Posix!StopReceivingTokens
  <2>2. /\ e \in Posix!Client /\ e.need = c.need /\ e.held = c.held
        /\ ~e.receiving /\ (e.implicit <=> c.implicit)
    BY ReceivingSet
  <2> HIDE DEF e
  <2> QED BY <1>1, <2>1, <2>2, OpenSet
<1>2. CASE ~c.open
  BY <1>2 DEF Posix!Disconnect
<1> QED BY <1>1, <1>2

\* DecrementNeedTokens turns reading off with the last needed token.
LEMMA Decrements ==
  ASSUME NEW c, Reading(c), c.need > 0
  PROVE  LET d == Posix!DecrementNeedTokens(c)
         IN  /\ Reading(d) /\ (d.open <=> c.open)
             /\ (d.implicit <=> c.implicit)
             /\ d.held = c.held /\ d.need = c.need - 1
<1> DEFINE n == c.need - 1
           e == [c EXCEPT !.need = n]
<1>1. c \in Posix!Client /\ n \in Nat /\ c.need \in Nat
  BY SMTT(30) DEF Reading, Posix!Client
<1>2. Posix!DecrementNeedTokens(c) =
        IF c.need = 1 THEN Posix!StopReceivingTokens(e) ELSE e
  BY SMTT(30) DEF Posix!DecrementNeedTokens
<1> HIDE DEF n
<1>3. /\ e \in Posix!Client /\ e.need = n /\ e.held = c.held
      /\ (e.open <=> c.open) /\ (e.receiving <=> c.receiving)
      /\ (e.implicit <=> c.implicit)
  BY <1>1, NeedSet, SMTT(30)
<1> HIDE DEF e
<1>4. CASE c.need = 1
  <2>1. Posix!DecrementNeedTokens(c) =
          IF c.open THEN [e EXCEPT !.receiving = FALSE] ELSE e
    BY <1>2, <1>3, <1>4 DEF Posix!StopReceivingTokens
  <2>2. n = 0 /\ n = c.need - 1
    BY <1>4, SMTT(30) DEF n
  <2>3. CASE c.open
    <3> DEFINE f == [e EXCEPT !.receiving = FALSE]
    <3>1. /\ f \in Posix!Client /\ f.held = e.held /\ f.need = e.need
          /\ (f.open <=> e.open) /\ ~f.receiving
          /\ (f.implicit <=> e.implicit)
      BY <1>3, ReceivingSet
    <3>2. Posix!DecrementNeedTokens(c) = f
      BY <2>1, <2>3
    <3> HIDE DEF f
    <3>3. Reading(f)
      BY <1>3, <2>2, <3>1, SMTT(30) DEF Reading
    <3> QED BY <1>3, <2>2, <3>1, <3>2, <3>3
  <2>4. CASE ~c.open
    BY <1>3, <2>1, <2>2, <2>4 DEF Reading
  <2> QED BY <2>3, <2>4
<1>5. CASE c.need # 1
  <2>1. n > 0 /\ n = c.need - 1
    BY <1>1, <1>5, SMTT(30) DEF n
  <2> QED BY <1>2, <1>3, <1>5, <2>1 DEF Reading
<1> QED BY <1>4, <1>5

\* RequestToken.
LEMMA Requests ==
  ASSUME NEW c, Reading(c), NEW ok \in BOOLEAN
  PROVE  LET d == Posix!RequestTokenOp(c, ok)
         IN  Requested(c, d) /\ (ok => (d.open <=> c.open))
<1>1. c \in Posix!Client /\ c.need \in Nat /\ c.held \in Nat
  BY DEF Reading, Posix!Client
<1>2. CASE c.held = 0 /\ ~c.implicit
  <2>1. Posix!RequestTokenOp(c, ok) = [c EXCEPT !.implicit = TRUE]
    BY <1>2 DEF Posix!RequestTokenOp, Posix!RequestImplicitToken
  <2> DEFINE d == [c EXCEPT !.implicit = TRUE]
  <2>2. /\ d \in Posix!Client /\ d.held = c.held /\ d.need = c.need
        /\ (d.open <=> c.open) /\ (d.receiving <=> c.receiving) /\ d.implicit
    BY <1>1, ImplicitSet
  <2> HIDE DEF d
  <2>3. Requested(c, d) /\ (d.open <=> c.open)
    BY <1>2, <2>2 DEF Requested, Reading
  <2> QED BY <2>1, <2>3 DEF d
<1>3. CASE ~(c.held = 0 /\ ~c.implicit)
  <2> DEFINE n == c.need + 1
             e == [c EXCEPT !.need = n]
             d == Posix!RequestTokenOp(c, ok)
  <2>1. d = Posix!StartReceivingTokens(e, ok)
    BY <1>3 DEF Posix!RequestTokenOp, Posix!RequestExplicitToken
  <2>2. n \in Nat /\ n > 0
    BY <1>1, SMTT(30)
  <2> HIDE DEF n, d
  <2>3. /\ e \in Posix!Client /\ e.need = n /\ e.held = c.held
        /\ (e.open <=> c.open) /\ (e.receiving <=> c.receiving)
        /\ (e.implicit <=> c.implicit)
    BY <1>1, <2>2, NeedSet, SMTT(30)
  <2> HIDE DEF e
  <2>4. CASE ~e.open \/ e.receiving
    <3>1. d = e
      BY <2>1, <2>4 DEF Posix!StartReceivingTokens
    <3> QED BY <1>3, <2>2, <2>3, <2>4, <3>1 DEF Requested, Reading, n, d
  <2>5. CASE e.open /\ ~e.receiving /\ ok
    <3>1. d = [e EXCEPT !.receiving = TRUE]
      BY <2>1, <2>5 DEF Posix!StartReceivingTokens
    <3>2. /\ d \in Posix!Client /\ d.need = n /\ d.held = c.held
          /\ (d.open <=> c.open) /\ d.receiving /\ (d.implicit <=> c.implicit)
      BY <2>3, <3>1, ReceivingSet
    <3> QED BY <1>3, <2>2, <2>3, <2>5, <3>2 DEF Requested, Reading, n, d
  <2>6. CASE e.open /\ ~e.receiving /\ ~ok
    <3>1. d = Posix!Disconnect(e)
      BY <2>1, <2>6 DEF Posix!StartReceivingTokens
    <3>2. /\ d \in Posix!Client /\ d.need = n /\ d.held = c.held
          /\ ~d.open /\ ~d.receiving /\ (d.implicit <=> c.implicit)
      BY <2>3, <2>6, <3>1, Disconnects
    <3> QED BY <1>3, <2>2, <2>3, <2>6, <3>2 DEF Requested, Reading, n, d
  <2> QED BY <2>4, <2>5, <2>6
<1> QED BY <1>2, <1>3

\* ReleaseToken.
LEMMA Releases ==
  ASSUME NEW c, Reading(c), c.held > 0, NEW ok \in BOOLEAN
  PROVE  LET d == Posix!ReleaseTokenOp(c, ok)
         IN  /\ Released(c, d)
             /\ ok \/ c.held = 1 => (d.open <=> c.open)
             /\ ~ok /\ c.held # 1 => ~d.open
<1> DEFINE n == c.held - 1
           e == [c EXCEPT !.held = n]
           d == Posix!ReleaseTokenOp(c, ok)
<1>1. c \in Posix!Client /\ c.need \in Nat /\ c.held \in Nat /\ n \in Nat
  BY SMTT(30) DEF Reading, Posix!Client
<1>2. d = IF e.held = 0 THEN Posix!ReleaseImplicitToken(e)
          ELSE IF ok THEN e ELSE Posix!Disconnect(e)
  BY DEF Posix!ReleaseTokenOp
<1>3. n = 0 <=> c.held = 1
  BY <1>1, SMTT(30)
<1>4. n = c.held - 1
  OBVIOUS
<1> HIDE DEF n, d
<1>5. /\ e \in Posix!Client /\ e.need = c.need /\ e.held = n
      /\ (e.open <=> c.open) /\ (e.receiving <=> c.receiving)
      /\ (e.implicit <=> c.implicit)
  BY <1>1, HeldSet, SMTT(30)
<1>6. Reading(e)
  BY <1>5 DEF Reading
<1> HIDE DEF e
<1>7. CASE c.held = 1 /\ c.need > 0
  <2> DEFINE f == Posix!DecrementNeedTokens(e)
  <2>1. d = [f EXCEPT !.implicit = TRUE]
    BY <1>2, <1>3, <1>5, <1>7
       DEF Posix!ReleaseImplicitToken, Posix!RequestImplicitToken
  <2>2. /\ Reading(f) /\ (f.open <=> c.open)
        /\ f.held = n /\ f.need = c.need - 1
    BY <1>5, <1>6, <1>7, Decrements
  <2> HIDE DEF f
  <2>3. /\ d \in Posix!Client /\ d.need = f.need /\ d.held = f.held
        /\ (d.open <=> f.open) /\ (d.receiving <=> f.receiving) /\ d.implicit
    BY <2>1, <2>2, ImplicitSet DEF Reading
  <2>4. Reading(d)
    BY <2>2, <2>3 DEF Reading
  <2> QED BY <1>4, <1>7, <2>2, <2>3, <2>4 DEF Released, d
<1>8. CASE ~(c.held = 1 /\ c.need > 0) /\ (c.held = 1 \/ ok)
  <2>1. d = e
    BY <1>2, <1>3, <1>5, <1>8 DEF Posix!ReleaseImplicitToken
  <2> QED BY <1>4, <1>5, <1>6, <1>8, <2>1 DEF Released, d
<1>9. CASE c.held # 1 /\ ~ok
  <2>1. d = Posix!Disconnect(e)
    BY <1>2, <1>3, <1>5, <1>9
  <2>2. /\ d \in Posix!Client /\ ~d.open /\ (d.implicit <=> c.implicit)
        /\ d.held = n /\ d.need = c.need /\ ~d.receiving
    BY <1>5, <1>6, <2>1, Disconnects DEF Reading
  <2>3. Reading(d)
    BY <2>2 DEF Reading
  <2> QED BY <1>4, <1>9, <2>2, <2>3 DEF Released, d
<1> QED BY <1>7, <1>8, <1>9

\* A token that is received: the implicit one, or one from the server.
LEMMA Receives ==
  ASSUME NEW c, Reading(c)
  PROVE  /\ LET d == Posix!HoldToken([c EXCEPT !.implicit = FALSE]) IN
              /\ Reading(d) /\ ~d.implicit /\ (d.open <=> c.open)
              /\ d.held = c.held + 1 /\ d.need = c.need
         /\ c.need > 0 =>
              LET d == Posix!ReceivedToken(c) IN
              /\ Reading(d) /\ (d.implicit <=> c.implicit)
              /\ (d.open <=> c.open)
              /\ d.held = c.held + 1 /\ d.need = c.need - 1
<1> DEFINE n == c.held + 1
<1>1. c \in Posix!Client /\ n \in Nat
  BY SMTT(30) DEF Reading, Posix!Client
<1>2. ASSUME NEW e, Reading(e), e.held = c.held
      PROVE  LET d == Posix!HoldToken(e)
             IN  /\ Reading(d) /\ (d.implicit <=> e.implicit)
                 /\ (d.open <=> e.open) /\ d.held = n /\ d.need = e.need
  <2>1. Posix!HoldToken(e) = [e EXCEPT !.held = n]
    BY <1>2 DEF Posix!HoldToken
  <2> DEFINE d == Posix!HoldToken(e)
  <2>2. e \in Posix!Client
    BY <1>2 DEF Reading
  <2> HIDE DEF n, d
  <2>3. /\ d \in Posix!Client /\ d.held = n /\ d.need = e.need
        /\ (d.open <=> e.open) /\ (d.receiving <=> e.receiving)
        /\ (d.implicit <=> e.implicit)
    BY <1>1, <2>1, <2>2, HeldSet DEF d
  <2>4. Reading(d)
    BY <1>2, <2>3 DEF Reading
  <2> QED BY <2>3, <2>4 DEF d
<1> HIDE DEF n
<1>3. LET d == Posix!HoldToken([c EXCEPT !.implicit = FALSE]) IN
        /\ Reading(d) /\ ~d.implicit /\ (d.open <=> c.open)
        /\ d.held = n /\ d.need = c.need
  <2> DEFINE e == [c EXCEPT !.implicit = FALSE]
  <2>1. /\ e \in Posix!Client /\ e.need = c.need /\ e.held = c.held
        /\ (e.open <=> c.open) /\ (e.receiving <=> c.receiving) /\ ~e.implicit
    BY <1>1, ImplicitSet
  <2>2. Reading(e)
    BY <2>1 DEF Reading
  <2> HIDE DEF e
  <2>3. LET d == Posix!HoldToken(e) IN
          /\ Reading(d) /\ ~d.implicit /\ (d.open <=> c.open)
          /\ d.held = n /\ d.need = c.need
    BY <1>2, <2>1, <2>2
  <2> QED BY <2>3 DEF e
<1>4. ASSUME c.need > 0
      PROVE  LET d == Posix!ReceivedToken(c) IN
             /\ Reading(d) /\ (d.implicit <=> c.implicit)
             /\ (d.open <=> c.open) /\ d.held = n /\ d.need = c.need - 1
  <2> DEFINE e == Posix!DecrementNeedTokens(c)
  <2>1. /\ Reading(e) /\ (e.open <=> c.open) /\ (e.implicit <=> c.implicit)
        /\ e.held = c.held /\ e.need = c.need - 1
    BY <1>4, Decrements
  <2>2. Posix!ReceivedToken(c) = Posix!HoldToken(e)
    BY DEF Posix!ReceivedToken
  <2> HIDE DEF e
  <2> QED BY <1>2, <2>1, <2>2, SMTT(30)
<1> QED BY <1>3, <1>4 DEF n

-----------------------------------------------------------------------------
(* The invariant.                                                          *)

\* The tests that hold a token.
Busy == running \cup lost \cup starting

\* What is needed of the scheduler: a test is in one place at a time.
Fit ==
  /\ TypeOK
  /\ \A t, u \in starting : t = u
  /\ running \cap lost = {}
  /\ (running \cup lost) \cap (Entries(queued) \cup starting) = {}

\* The scheduler and the client are in order, and count the same jobs.
Counted ==
  /\ Fit
  /\ Reading(cl)
  /\ pool \in Nat /\ others \in Nat
  /\ phase \in {"idle", "poll", "timers"}
  /\ platform \in {"posix", "win32"}
  /\ OneTokenPerTest
  /\ Posix!NeedIsBacked

\* On POSIX no token is released before OnToken returns: no test is skipped,
\* none fails to start, and nobody interrupts the run.
Orderly ==
  \A su \in PosixSuites :
    /\ su.Events \cap {"interrupt", "start failure", "spawn failure"} = {}
    /\ \A t \in DOMAIN su.Properties :
         /\ ~su.Properties[t].Disabled
         /\ su.Properties[t].RequireSuccessDepends = {}

\* The implicit token on its way: while it is, no test ends that would ask
\* for it again.  Windows hands out no other token meanwhile; on POSIX those
\* handed out in the same i/o phase start tests that end in a later one.
ImplicitDue ==
  /\ idleQueued => phase = "idle" /\ cl.implicit
  /\ pc \in {"off", "done"} => ~cl.implicit /\ starting = {}
  /\ platform = "win32" /\ cl.implicit => cl.held = 0
  /\ platform = "posix" /\ cl.implicit =>
       /\ phase # "idle" => running \cup lost \subseteq newborn
       /\ phase = "idle" /\ ~idleQueued => cl.held = 0

OnPosix == platform = "posix" => suite \in PosixSuites /\ ~interrupted

Exact == QueueBacked /\ ImplicitDue /\ OnPosix

\* The tokens taken are those of the tests that run.
Returned ==
  /\ Posix!TokensReturned
  /\ lost = {}
  /\ pc \in {"off", "done"} => Busy = {}
  /\ session = 0 => pc \in {"off", "done"} /\ Posix!Taken = 0
  /\ ~MayDisconnect => cl.open

-----------------------------------------------------------------------------
(* Every busy test has a token.                                            *)

LEMMA BusyFacts ==
  ASSUME Fit
  PROVE  Busy \subseteq Tests /\ IsFiniteSet(Busy) /\ Cardinality(Busy) \in Nat
<1>1. Busy \subseteq Tests /\ suite \in Suites
  BY DEF Fit, TypeOK, Busy
<1>2. IsFiniteSet(Tests)
  BY <1>1, HandlerAssumption DEF Tests
<1>3. IsFiniteSet(Busy)
  BY <1>1, <1>2, FS_Subset
<1> QED BY <1>1, <1>3, FS_CardinalityType

\* One more or one less of finitely many.
LEMMA OneMore ==
  ASSUME NEW S, IsFiniteSet(S), NEW t
  PROVE  /\ t \notin S => Cardinality(S \cup {t}) = Cardinality(S) + 1
         /\ t \in S => /\ Cardinality(S \ {t}) = Cardinality(S) - 1
                       /\ Cardinality(S) > 0
                       /\ Cardinality(S) = 1 => S = {t}
<1>1. Cardinality(S) \in Nat
  BY FS_CardinalityType
<1>2. t \notin S => Cardinality(S \cup {t}) = Cardinality(S) + 1
  BY FS_AddElement
<1>3. ASSUME t \in S
      PROVE  /\ Cardinality(S \ {t}) = Cardinality(S) - 1
             /\ IsFiniteSet(S \ {t})
  BY <1>3, FS_RemoveElement
<1>4. ASSUME t \in S PROVE Cardinality(S) > 0
  <2>1. Cardinality(S) # 0
    BY <1>4, FS_EmptySet
  <2> QED BY <1>1, <2>1, SMTT(30)
<1>5. ASSUME t \in S, Cardinality(S) = 1 PROVE S = {t}
  <2>1. Cardinality(S \ {t}) = 0
    BY <1>3, <1>5, SMTT(30)
  <2>2. S \ {t} = {}
    BY <1>3, <1>5, <2>1, FS_EmptySet
  <2> QED BY <1>5, <2>2
<1> QED BY <1>2, <1>3, <1>4, <1>5

\* ReleaseToken of the composition.
LEMMA ReleaseEffect ==
  ASSUME NEW c, Reading(c), c.held > 0, NEW p \in Nat, ReleaseToken(c, p)
  PROVE  /\ Released(c, cl') /\ pool' \in Nat
         /\ cl'.open => pool' = IF c.held # 1 THEN p + 1 ELSE p
         /\ ~MayDisconnect /\ c.open => cl'.open
<1>1. PICK ok \in Posix!Outcomes :
        /\ cl' = Posix!ReleaseTokenOp(c, ok)
        /\ pool' = IF Posix!SendsToken(c) /\ ok THEN p + 1 ELSE p
  BY DEF ReleaseToken
<1>2. ok \in BOOLEAN /\ (~MayDisconnect => ok)
  BY DEF Posix!Outcomes
<1>3. /\ Released(c, cl')
      /\ ok \/ c.held = 1 => (cl'.open <=> c.open)
      /\ ~ok /\ c.held # 1 => ~cl'.open
  BY <1>1, <1>2, Releases
<1>4. p + 1 \in Nat
  BY SMTT(30)
<1>5. pool' \in Nat
  BY <1>1, <1>4
<1>6. cl'.open => c.open
  BY <1>3 DEF Released
<1>7. ASSUME cl'.open PROVE pool' = IF c.held # 1 THEN p + 1 ELSE p
  BY <1>1, <1>3, <1>6, <1>7 DEF Posix!SendsToken
<1> QED BY <1>2, <1>3, <1>5, <1>7

\* What a step has to keep.
LEMMA CountedBy ==
  ASSUME Counted, Fit', Reading(cl'), cl'.held = Cardinality(Busy'),
         cl'.need > 0 => cl'.held > 0 \/ cl'.implicit,
         platform' = platform, pool' \in Nat, others' \in Nat,
         phase' \in {"idle", "poll", "timers"}
  PROVE  Counted'
BY DEF Counted, OneTokenPerTest, Busy, Posix!NeedIsBacked

\* Nobody gets or loses a token.
LEMMA StillCounted ==
  ASSUME Counted, Fit', cl' = cl, Busy' = Busy, platform' = platform,
         pool' \in Nat, others' \in Nat, phase' \in {"idle", "poll", "timers"}
  PROVE  Counted'
<1>1. /\ Reading(cl) /\ cl.held = Cardinality(Busy)
      /\ cl.need > 0 => cl.held > 0 \/ cl.implicit
  BY DEF Counted, OneTokenPerTest, Busy, Posix!NeedIsBacked
<1> QED BY <1>1, CountedBy

\* A released token, in the words of CountedBy.
LEMMA ReleasedCounts ==
  ASSUME NEW c, Reading(c), c.held > 0, NEW d, Released(c, d),
         c.need > 0 => c.held > 0 \/ c.implicit
  PROVE  /\ Reading(d) /\ d.held = c.held - 1
         /\ d.need > 0 => d.held > 0 \/ d.implicit
<1>1. /\ c.held \in Nat /\ c.need \in Nat /\ Reading(d)
      /\ d.held = c.held - 1
  BY DEF Reading, Released, Posix!Client
<1>2. CASE c.held = 1 /\ c.need > 0
  BY <1>1, <1>2 DEF Released
<1>3. CASE c.held = 1 /\ ~(c.need > 0)
  BY <1>1, <1>3 DEF Released
<1>4. CASE c.held # 1
  <2>1. d.held > 0
    BY <1>1, <1>4, SMTT(30)
  <2> QED BY <1>1, <2>1
<1> QED BY <1>2, <1>3, <1>4

\* A test is queued and asks for a token.
Asks ==
  /\ Requested(cl, cl') /\ (~MayDisconnect /\ cl.open => cl'.open)
  /\ pc = "scan"
  /\ Len(queued') = Len(queued) + 1
  /\ UNCHANGED <<suite, running, lost, starting, interrupted, pc, session,
                 platform, server, loop>>

LEMMA JScanStartsAsks ==
  ASSUME Counted, JScanStarts
  PROVE  Asks
<1>1. PICK ok \in Posix!Outcomes : cl' = Posix!RequestTokenOp(cl, ok)
  BY DEF JScanStarts
<1>2. ok \in BOOLEAN /\ (~MayDisconnect => ok) /\ Reading(cl)
  BY DEF Posix!Outcomes, Counted
<1>3. Requested(cl, cl') /\ (ok => (cl'.open <=> cl.open))
  BY <1>1, <1>2, Requests
<1>4. suite.JobServer /\ queued \in Seq(Tests)
  BY SchedulingAssumption DEF Counted, Fit, TypeOK
<1>5. /\ queued' = Append(queued, Head(scan.todo)) /\ starting' = starting
      /\ UNCHANGED <<suite, running, lost, interrupted, pc, session>>
  BY <1>4 DEF JScanStarts, ScanStarts, disk
<1>6. Len(queued') = Len(queued) + 1
  BY <1>4, <1>5, SMTT(30)
<1> QED BY <1>2, <1>3, <1>5, <1>6
        DEF Asks, JScanStarts, ScanStarts, InScan

LEMMA AsksCounted ==
  ASSUME Counted, Fit', Asks
  PROVE  Counted'
<1>1. /\ cl.held \in Nat /\ cl.need \in Nat /\ Reading(cl)
      /\ cl.held = Cardinality(Busy)
      /\ cl.need > 0 => cl.held > 0 \/ cl.implicit
  BY DEF Counted, Reading, Posix!Client, OneTokenPerTest, Busy,
         Posix!NeedIsBacked
<1>2. Reading(cl') /\ cl'.held = cl.held
  BY DEF Asks, Requested
<1>3. cl'.need > 0 => cl'.held > 0 \/ cl'.implicit
  <2>1. CASE cl.held = 0 /\ ~cl.implicit
    BY <1>2, <2>1 DEF Asks, Requested
  <2>2. CASE cl.implicit
    BY <1>2, <2>2 DEF Asks, Requested
  <2>3. CASE cl.held # 0
    BY <1>1, <1>2, <2>3, SMTT(30)
  <2> QED BY <2>1, <2>2, <2>3
<1>4. Busy' = Busy
  BY DEF Asks, Busy
<1> QED BY <1>1, <1>2, <1>3, <1>4, CountedBy DEF Asks, Counted, server, loop

\* A token comes in: the client would be c and the pool p, were it kept.
Gives(c, p) ==
  /\ queued # <<>> /\ Len(queued') = Len(queued) - 1
  /\ starting = {} /\ pc = "loop"
  /\ UNCHANGED <<suite, running, lost, interrupted, pc, session>>
  /\ IF interrupted
     THEN starting' = {} /\ ReleaseToken(c, p)
     ELSE /\ cl' = c /\ pool' = p
          /\ \E t : t \notin Busy /\ starting' = {t}

LEMMA OnTokenGives ==
  ASSUME Fit, NEW c, NEW p, OnToken(c, p)
  PROVE  Gives(c, p)
<1>1. /\ queued \in Seq(Tests) /\ queued # <<>> /\ queued' = Tail(queued)
      /\ starting = {} /\ pc = "loop"
      /\ UNCHANGED <<suite, running, lost, interrupted, pc, session>>
  BY DEF Fit, TypeOK, OnToken, JobServerReceivedToken, InLoop, disk
<1>2. Len(queued') = Len(queued) - 1 /\ Head(queued) \in Entries(queued)
  BY <1>1, SMTT(30) DEF Entries
<1>3. Head(queued) \notin Busy
  BY <1>1, <1>2 DEF Fit, Busy
<1>4. CASE interrupted
  BY <1>1, <1>2, <1>4 DEF Gives, OnToken, JobServerReceivedToken
<1>5. CASE ~interrupted
  <2>1. starting' = {Head(queued)} /\ cl' = c /\ pool' = p
    BY <1>5 DEF OnToken, JobServerReceivedToken
  <2> QED BY <1>1, <1>2, <1>3, <1>5, <2>1 DEF Gives
<1> QED BY <1>4, <1>5

\* The two places where tokens come from.
LEMMA TokenGiven ==
  ASSUME Counted, ImplicitToken \/ ExplicitToken
  PROVE  \E c : \E p \in Nat :
           /\ Gives(c, p) /\ Reading(c) /\ c.held = cl.held + 1
           /\ (c.open <=> cl.open)
           /\ UNCHANGED <<platform, others, phase, newborn>>
           /\ \/ /\ phase = "idle" /\ idleQueued /\ ~idleQueued'
                 /\ p = pool /\ ~c.implicit /\ c.need = cl.need
              \/ /\ phase = IF platform = "posix" THEN "poll" ELSE "timers"
                 /\ p = pool - 1 /\ idleQueued' = idleQueued
                 /\ cl.need > 0 /\ cl.open
                 /\ platform = "win32" => ~cl.implicit
                 /\ (c.implicit <=> cl.implicit) /\ c.need = cl.need - 1
<1>1. /\ Fit /\ Reading(cl) /\ pool \in Nat
      /\ platform \in {"posix", "win32"}
  BY DEF Counted
<1>2. CASE ImplicitToken
  <2> DEFINE c == Posix!HoldToken([cl EXCEPT !.implicit = FALSE])
  <2>1. Gives(c, pool)
    BY <1>1, <1>2, OnTokenGives DEF ImplicitToken
  <2>2. /\ Reading(c) /\ ~c.implicit /\ (c.open <=> cl.open)
        /\ c.held = cl.held + 1 /\ c.need = cl.need
    BY <1>1, Receives
  <2> HIDE DEF c
  <2> QED BY <1>1, <1>2, <2>1, <2>2 DEF ImplicitToken
<1>3. CASE ExplicitToken
  <2> DEFINE c == Posix!ReceivedToken(cl)
  <2>1. Gives(c, pool - 1)
    BY <1>1, <1>3, OnTokenGives DEF ExplicitToken
  <2>2. /\ cl.receiving /\ cl.open
        /\ platform = "win32" => ~cl.implicit
    BY <1>1, <1>3
       DEF ExplicitToken, MayReceive, Posix!MayReceive, Win32!MayReceive
  <2>3. cl.need > 0
    BY <1>1, <2>2 DEF Reading
  <2>4. /\ Reading(c) /\ (c.implicit <=> cl.implicit) /\ (c.open <=> cl.open)
        /\ c.held = cl.held + 1 /\ c.need = cl.need - 1
    BY <1>1, <2>3, Receives
  <2> HIDE DEF c
  <2>5. pool - 1 \in Nat
    BY <1>1, <1>3, SMTT(30) DEF ExplicitToken
  <2> QED BY <1>1, <1>3, <2>1, <2>2, <2>3, <2>4, <2>5 DEF ExplicitToken, loop
<1> QED BY <1>2, <1>3

LEMMA GivenCounted ==
  ASSUME Counted, Fit', ImplicitToken \/ ExplicitToken
  PROVE  Counted'
<1>1. PICK c, p : /\ Gives(c, p) /\ Reading(c) /\ c.held = cl.held + 1
                  /\ p \in Nat
                  /\ UNCHANGED <<platform, others, phase>>
  BY TokenGiven
<1>2. /\ cl.held \in Nat /\ c.held \in Nat /\ cl.held = Cardinality(Busy)
      /\ IsFiniteSet(Busy) /\ others' \in Nat
      /\ phase' \in {"idle", "poll", "timers"}
  BY <1>1, BusyFacts
     DEF Counted, Reading, Posix!Client, OneTokenPerTest, Busy
<1>3. c.held > 0 /\ c.held - 1 = cl.held
  BY <1>1, <1>2, SMTT(30)
<1>4. CASE interrupted
  <2>1. Released(c, cl') /\ pool' \in Nat
    BY <1>1, <1>3, <1>4, ReleaseEffect DEF Gives
  <2>2. /\ Reading(cl') /\ cl'.held = c.held - 1
        /\ cl'.need > 0 => cl'.held > 0 \/ cl'.implicit
    BY <1>1, <1>3, <2>1, ReleasedCounts
  <2>3. Busy' = Busy
    BY <1>1, <1>4 DEF Gives, Busy
  <2> QED BY <1>1, <1>2, <1>3, <2>1, <2>2, <2>3, CountedBy
<1>5. CASE ~interrupted
  <2>1. PICK t : /\ cl' = c /\ pool' = p /\ t \notin Busy /\ starting' = {t}
                 /\ starting = {} /\ UNCHANGED <<running, lost>>
    BY <1>1, <1>5 DEF Gives
  <2>2. Busy' = Busy \cup {t}
    BY <2>1 DEF Busy
  <2>3. cl'.held = Cardinality(Busy')
    BY <1>1, <1>2, <2>1, <2>2, OneMore
  <2> QED BY <1>1, <1>2, <1>3, <2>1, <2>3, CountedBy
<1> QED BY <1>4, <1>5

\* Test t is over, and its token released.
Frees(t) ==
  /\ t \in Busy /\ Busy' = Busy \ {t} /\ running' = running \ {t}
  /\ t \in starting \/ pc = "loop"
  /\ pc' = pc /\ starting' \subseteq starting
  /\ ReleaseToken(cl, pool)
  /\ UNCHANGED <<suite, queued, lost, interrupted, session, platform, others,
                 loop>>

LEMMA JTestNotStartedFrees ==
  ASSUME Fit, JTestNotStarted
  PROVE  \E t \in starting : Frees(t)
<1>1. PICK t \in starting, st \in {"NOT_RUN", "SKIPPED", "BAD_COMMAND"} :
        FinishTestProcess(t, st)
  BY DEF JTestNotStarted, TestNotStarted
<1>2. starting = {t} /\ t \notin running /\ t \notin lost
  BY <1>1 DEF Fit
<1>3. /\ running' = running \ {t} /\ starting' = {} /\ ReleaseToken(cl, pool)
      /\ UNCHANGED <<suite, queued, lost, interrupted, pc, session, platform,
                     others, loop>>
  BY <1>1 DEF FinishTestProcess, JTestNotStarted, TestNotStarted
<1>4. Busy' = Busy \ {t} /\ t \in Busy
  BY <1>2, <1>3 DEF Busy
<1> QED BY <1>1, <1>2, <1>3, <1>4 DEF Frees

LEMMA ProcessEndsFrees ==
  ASSUME Fit, NEW t, NEW st, ProcessEnds(t, st), ReleaseToken(cl, pool),
         UNCHANGED <<platform, others, loop>>
  PROVE  Frees(t)
<1>1. /\ t \in running /\ running' = running \ {t}
      /\ UNCHANGED <<suite, queued, lost, interrupted, pc, session, starting>>
  BY DEF ProcessEnds, FinishTestProcess
<1>2. t \notin lost /\ t \notin starting
  BY <1>1 DEF Fit
<1>3. Busy' = Busy \ {t} /\ t \in Busy
  BY <1>1, <1>2 DEF Busy
<1> QED BY <1>1, <1>2, <1>3 DEF Frees, ProcessEnds, InLoop

LEMMA FreesCounted ==
  ASSUME Counted, Fit', NEW t, Frees(t)
  PROVE  Counted'
<1>1. /\ Reading(cl) /\ cl.held = Cardinality(Busy) /\ pool \in Nat
      /\ cl.need > 0 => cl.held > 0 \/ cl.implicit
      /\ IsFiniteSet(Busy)
  BY BusyFacts DEF Counted, OneTokenPerTest, Busy, Posix!NeedIsBacked
<1>2. cl.held > 0 /\ Cardinality(Busy') = cl.held - 1
  BY <1>1, OneMore DEF Frees
<1>3. Released(cl, cl') /\ pool' \in Nat
  BY <1>1, <1>2, ReleaseEffect DEF Frees
<1>4. /\ Reading(cl') /\ cl'.held = cl.held - 1
      /\ cl'.need > 0 => cl'.held > 0 \/ cl'.implicit
  BY <1>1, <1>2, <1>3, ReleasedCounts
<1> QED BY <1>2, <1>3, <1>4, CountedBy DEF Frees, Counted, loop

\* A step that moves no token and no test to or from them.
Idles ==
  /\ cl' = cl /\ Busy' = Busy
  /\ UNCHANGED <<suite, queued, platform, phase, idleQueued, session>>
  /\ pool' \in Nat /\ others' \in Nat /\ pool' + others' = pool + others
  /\ pc' \in {"off", "done"} <=> pc \in {"off", "done"}
  /\ starting' \subseteq starting
  /\ phase # "idle" /\ running \cup lost \subseteq newborn
       => running' \cup lost' \subseteq newborn'
  /\ interrupted' => interrupted \/ "interrupt" \in Events
  /\ lost' # lost => "rerun failure" \in Events

LEMMA SchedulerIdles ==
  ASSUME Counted,
         \/ JStartNextTests \/ JScanGoesOn \/ JInterrupt
         \/ UNCHANGED allVars
  PROVE  Idles
<1>1. /\ UNCHANGED <<cl, platform, server, phase, idleQueued, newborn>>
      /\ UNCHANGED <<suite, sched, starting, session>>
  <2>1. CASE JStartNextTests
    BY <2>1 DEF JStartNextTests, StartNextTests, disk
  <2>2. CASE JScanGoesOn
    BY <2>2 DEF JScanGoesOn, ScanSkips, ScanEnds, clVars, loop, disk
  <2>3. CASE JInterrupt
    BY <2>3 DEF JInterrupt, Interrupt, clVars, loop, disk
  <2>4. CASE UNCHANGED allVars
    BY <2>4 DEF allVars, vars, clVars, loop, disk, control
  <2> QED BY <2>1, <2>2, <2>3, <2>4
<1>2. pc' \in {"off", "done"} <=> pc \in {"off", "done"}
  BY DEF JStartNextTests, StartNextTests, JScanGoesOn, ScanSkips, ScanEnds,
         JInterrupt, Interrupt, allVars, vars, control, InLoop, InScan
<1>3. interrupted' => interrupted \/ "interrupt" \in Events
  BY DEF JStartNextTests, StartNextTests, JScanGoesOn, ScanSkips, ScanEnds,
         JInterrupt, Interrupt, allVars, vars, control
<1>4. pool \in Nat /\ others \in Nat
  BY DEF Counted
<1> QED BY <1>1, <1>2, <1>3, <1>4 DEF Idles, sched, server, Busy

LEMMA TestStartsIdles ==
  ASSUME Counted, JTestStarts
  PROVE  Idles
<1>1. PICK t \in starting : running' = running \cup {t}
  BY DEF JTestStarts, TestStarts
<1>2. starting = {t} /\ starting' = {}
  BY DEF JTestStarts, TestStarts, Counted, Fit
<1>3. /\ UNCHANGED <<suite, queued, lost, interrupted, pc, session>>
      /\ UNCHANGED <<cl, platform, server, phase, idleQueued>>
      /\ newborn' = IF phase = "idle" THEN newborn ELSE newborn \cup starting
  BY DEF JTestStarts, TestStarts, disk
<1>4. Busy' = Busy
  BY <1>1, <1>2, <1>3 DEF Busy
<1>5. pool \in Nat /\ others \in Nat
  BY DEF Counted
<1> QED BY <1>1, <1>2, <1>3, <1>4, <1>5 DEF Idles, server

LEMMA RunsAgainIdles ==
  ASSUME Counted, NEW t \in running, NEW st, ProcessRunsAgain(t, st),
         UNCHANGED <<cl, pool, platform, others, loop>>
  PROVE  Idles
<1>1. UNCHANGED <<suite, queued, starting, interrupted, pc, session>>
  BY DEF ProcessRunsAgain, disk
<1>2. \/ running' = running /\ lost' = lost
      \/ /\ running' = running \ {t} /\ lost' = lost \cup {t}
         /\ "rerun failure" \in Events
  BY DEF ProcessRunsAgain
<1>3. running' \cup lost' = running \cup lost
  BY <1>2
<1>4. Busy' = Busy
  BY <1>1, <1>3 DEF Busy
<1>5. pool \in Nat /\ others \in Nat
  BY DEF Counted
<1> QED BY <1>1, <1>2, <1>3, <1>4, <1>5 DEF Idles, loop

LEMMA OtherClientsIdle ==
  ASSUME Counted, OtherClients
  PROVE  Idles
<1>1. /\ UNCHANGED <<suite, sched, starting, interrupted, pc, session>>
      /\ UNCHANGED <<cl, platform, phase, idleQueued, newborn>>
  BY DEF OtherClients, Posix!OtherTakes, Posix!OtherReturns, vars, control,
         disk
<1>2. pool \in Nat /\ others \in Nat
  BY DEF Counted
<1>3. \/ pool > 0 /\ pool' = pool - 1 /\ others' = others + 1
      \/ others > 0 /\ pool' = pool + 1 /\ others' = others - 1
  BY DEF OtherClients, Posix!OtherTakes, Posix!OtherReturns
<1>4. pool' \in Nat /\ others' \in Nat /\ pool' + others' = pool + others
  BY <1>2, <1>3, SMTT(30)
<1> QED BY <1>1, <1>4 DEF Idles, sched, Busy

\* One phase of the loop is over, or the connection breaks.
Turns ==
  /\ UNCHANGED <<vars, platform, server>>
  /\ \/ /\ cl' = cl /\ ~idleQueued
        /\ newborn' = IF phase = "poll" THEN newborn ELSE {}
        /\ phase' = CASE phase = "idle" -> "poll"
                      [] phase = "poll" -> "timers"
                      [] phase = "timers" -> "idle"
        /\ idleQueued' = (phase = "timers" /\ cl.implicit)
     \/ /\ cl' = Posix!Disconnect(cl) /\ cl.open /\ MayDisconnect
        /\ UNCHANGED <<phase, idleQueued, newborn>>

LEMMA LoopTurns ==
  ASSUME EnterPhase \/ ConnectionBreaks
  PROVE  Turns
<1>1. CASE EnterPhase
  BY <1>1 DEF EnterPhase, Turns
<1>2. CASE ConnectionBreaks
  <2>1. ClientBreaks /\ UNCHANGED <<vars, platform, newborn>>
    BY <1>2 DEF ConnectionBreaks
  <2>2. /\ cl' = Posix!Disconnect(cl) /\ cl.open /\ MayDisconnect
        /\ UNCHANGED <<pool, others, phase, idleQueued>>
    <3>1. CASE platform = "posix"
      BY <2>1, <3>1
         DEF ClientBreaks, Posix!ConnectionBreaks, Posix!MayReceive
    <3>2. CASE platform # "posix"
      BY <2>1, <3>2
         DEF ClientBreaks, Win32!ConnectionBreaks, Win32!MayReceive,
             Win32!Disconnect, Win32!StopReceivingTokens,
             Posix!Disconnect, Posix!StopReceivingTokens
    <3> QED BY <3>1, <3>2
  <2> QED BY <2>1, <2>2 DEF Turns, server
<1> QED BY <1>1, <1>2

\* A run of ctest begins.
Begins ==
  /\ pc \in {"off", "done"} /\ pc' = "loop" /\ ~interrupted'
  /\ cl' = Posix!Connected /\ Busy' = {} /\ queued' = <<>> /\ lost' = {}
  /\ starting' = {}
  /\ session' = session + 1 /\ session < suite.MaxSessions
  /\ UNCHANGED <<suite, platform, server, loop>>

LEMMA JRunTestsBegins ==
  ASSUME JRunTests
  PROVE  Begins
BY DEF JRunTests, RunTests, Resume, Begin, Begins, Busy

\* A run of ctest ends.
Leaves ==
  /\ pc' = "done" /\ running = {} /\ starting = {} /\ ~cl.implicit
  /\ UNCHANGED <<suite, queued, running, lost, starting, interrupted, session,
                 clVars>>

LEMMA JRunTestsReturnsLeaves ==
  ASSUME JRunTestsReturns
  PROVE  Leaves
BY DEF JRunTestsReturns, FinalizeLoop, InLoop, Leaves, sched

\* What a step can be to the client and to the loop.
Moves ==
  \/ Idles \/ Asks \/ Turns \/ Begins \/ Leaves
  \/ ImplicitToken \/ ExplicitToken
  \/ \E t : /\ Frees(t)
            /\ \/ JTestNotStarted
               \/ phase # "idle" /\ t \in running /\ t \notin newborn

LEMMA JStepMoves ==
  ASSUME Counted, [JNext]_allVars
  PROVE  Moves
<1>1. ASSUME NEW t \in running, JTestEnds(t) PROVE Moves
  <2>1. PICK st : \/ ProcessEnds(t, st) /\ ReleaseToken(cl, pool)
                  \/ ProcessRunsAgain(t, st) /\ UNCHANGED <<cl, pool>>
    BY <1>1 DEF JTestEnds
  <2>2. /\ phase # "idle" /\ t \notin newborn
        /\ UNCHANGED <<platform, others, loop>>
    BY <1>1 DEF JTestEnds
  <2>3. CASE ProcessEnds(t, st) /\ ReleaseToken(cl, pool)
    <3>1. Frees(t)
      BY <2>2, <2>3, ProcessEndsFrees DEF Counted
    <3> QED BY <2>2, <3>1 DEF Moves
  <2>4. CASE ProcessRunsAgain(t, st) /\ UNCHANGED <<cl, pool>>
    BY <2>2, <2>4, RunsAgainIdles DEF Moves
  <2> QED BY <2>1, <2>3, <2>4
<1>2. CASE JTestNotStarted
  <2>1. PICK t \in starting : Frees(t)
    BY <1>2, JTestNotStartedFrees DEF Counted
  <2> QED BY <1>2, <2>1 DEF Moves
<1>3. CASE \/ JStartNextTests \/ JScanGoesOn \/ JInterrupt \/ JTestStarts
           \/ OtherClients \/ UNCHANGED allVars
  BY <1>3, SchedulerIdles, TestStartsIdles, OtherClientsIdle DEF Moves
<1>4. CASE \/ JScanStarts \/ EnterPhase \/ ConnectionBreaks \/ JRunTests
           \/ JRunTestsReturns
  BY <1>4, JScanStartsAsks, LoopTurns, JRunTestsBegins,
     JRunTestsReturnsLeaves DEF Moves
<1> QED BY <1>1, <1>2, <1>3, <1>4 DEF JNext, Moves

\* A client that has just connected.
LEMMA ConnectedFacts ==
  LET c == Posix!Connected
  IN  Reading(c) /\ c.open /\ ~c.implicit /\ c.held = 0 /\ c.need = 0
BY SMTT(30) DEF Reading, Posix!Connected, Posix!Client

LEMMA JInitCounted ==
  ASSUME JInit, Fit
  PROVE  Counted
<1>1. /\ cl = Posix!Connected /\ phase = "idle"
      /\ platform \in {"posix", "win32"} /\ Busy = {}
  BY DEF JInit, Init, Busy
<1>2. pool \in Nat /\ others \in Nat
  BY SchedulingAssumption, SMTT(30) DEF JInit
<1>3. Reading(cl) /\ cl.held = 0 /\ ~(cl.need > 0) /\ Cardinality(Busy) = 0
  <2>1. ~(0 > 0)
    BY SMTT(30)
  <2> QED BY <1>1, <2>1, ConnectedFacts, FS_EmptySet
<1> QED BY <1>1, <1>2, <1>3
        DEF Counted, OneTokenPerTest, Busy, Posix!NeedIsBacked

LEMMA TurnsCounted ==
  ASSUME Counted, Fit', Turns
  PROVE  Counted'
<1>1. /\ Reading(cl) /\ cl.held = Cardinality(Busy)
      /\ cl.need > 0 => cl.held > 0 \/ cl.implicit
      /\ pool \in Nat /\ others \in Nat /\ cl \in Posix!Client
      /\ phase \in {"idle", "poll", "timers"}
  BY DEF Counted, OneTokenPerTest, Busy, Posix!NeedIsBacked, Reading
<1>2. /\ Busy' = Busy /\ pool' = pool /\ others' = others
      /\ platform' = platform
  BY DEF Turns, vars, sched, control, server, Busy
<1>3. phase' \in {"idle", "poll", "timers"}
  BY <1>1 DEF Turns
<1>4. CASE cl' = cl
  BY <1>1, <1>2, <1>3, <1>4, StillCounted
<1>5. CASE cl' = Posix!Disconnect(cl) /\ cl.open
  <2>1. /\ cl' \in Posix!Client /\ ~cl'.open /\ ~cl'.receiving
        /\ (cl'.implicit <=> cl.implicit)
        /\ cl'.held = cl.held /\ cl'.need = cl.need
    BY <1>1, <1>5, Disconnects
  <2>2. Reading(cl')
    BY <2>1 DEF Reading
  <2> QED BY <1>1, <1>2, <1>3, <2>1, <2>2, CountedBy
<1> QED BY <1>4, <1>5 DEF Turns

LEMMA JStepCounted ==
  ASSUME Counted, Fit', [JNext]_allVars
  PROVE  Counted'
<1>1. Moves
  BY JStepMoves
<1>2. /\ pool \in Nat /\ others \in Nat
      /\ phase \in {"idle", "poll", "timers"}
  BY DEF Counted
<1>3. CASE Idles
  BY <1>1, <1>2, <1>3, StillCounted DEF Idles
<1>4. CASE Leaves
  BY <1>1, <1>2, <1>4, StillCounted DEF Leaves, clVars, loop, server, Busy
<1>5. CASE Begins
  <2>1. ~(0 > 0)
    BY SMTT(30)
  <2>2. /\ Reading(cl') /\ cl'.held = 0 /\ ~(cl'.need > 0)
        /\ Cardinality(Busy') = 0
    BY <1>5, <2>1, ConnectedFacts, FS_EmptySet DEF Begins
  <2> QED BY <1>1, <1>2, <1>5, <2>2, CountedBy DEF Begins, loop, server
<1> QED BY <1>1, <1>3, <1>4, <1>5, AsksCounted, TurnsCounted, GivenCounted,
           FreesCounted DEF Moves

-----------------------------------------------------------------------------
(* No queued test is forgotten.                                            *)

\* QueueBacked without its arithmetic.
Backs(l, c) ==
  (c.implicit => l = c.need + 1) /\ (~c.implicit => l = c.need)

LEMMA BacksIs ==
  ASSUME NEW l, NEW c, c.need \in Nat
  PROVE  l = c.need + Posix!B2N(c.implicit) <=> Backs(l, c)
<1>1. c.need + 0 = c.need
  BY SMTT(30)
<1> QED BY <1>1 DEF Backs, Posix!B2N

\* What is known of the client, in one place.
LEMMA Known ==
  ASSUME Counted, Exact
  PROVE  /\ Backs(Len(queued), cl) /\ Reading(cl)
         /\ cl.need \in Nat /\ cl.held \in Nat
         /\ pool \in Nat /\ others \in Nat
         /\ cl.held = Cardinality(Busy) /\ (cl.held = 0 <=> Busy = {})
         /\ ~cl.implicit /\ cl.need > 0 => cl.held > 0
<1>1. /\ Reading(cl) /\ cl.need \in Nat /\ cl.held \in Nat
      /\ pool \in Nat /\ others \in Nat /\ cl.held = Cardinality(Busy)
      /\ ~cl.implicit /\ cl.need > 0 => cl.held > 0
  BY DEF Counted, Reading, Posix!Client, OneTokenPerTest, Busy,
         Posix!NeedIsBacked
<1>2. Backs(Len(queued), cl)
  BY <1>1, BacksIs DEF Exact, QueueBacked, Posix!NoRequestLost
<1>3. cl.held = 0 <=> Busy = {}
  BY <1>1, BusyFacts, FS_EmptySet DEF Counted
<1> QED BY <1>1, <1>2, <1>3

LEMMA ExactBy ==
  ASSUME Counted', Backs(Len(queued'), cl'), ImplicitDue', OnPosix'
  PROVE  Exact'
<1>1. cl'.need \in Nat
  BY DEF Counted, Reading, Posix!Client
<1>2. Len(queued') = cl'.need + Posix!B2N(cl'.implicit)
  BY <1>1, BacksIs
<1>3. QueueBacked'
  BY <1>2 DEF QueueBacked, Posix!NoRequestLost, Posix!B2N
<1> QED BY <1>3 DEF Exact

LEMMA IdlesExact ==
  ASSUME Orderly, Counted, Exact, Counted', Idles
  PROVE  Exact'
<1>1. Backs(Len(queued'), cl')
  BY Known DEF Idles
<1>2. ImplicitDue'
  BY DEF Idles, Exact, ImplicitDue
<1>3. OnPosix'
  BY DEF Idles, Exact, OnPosix, Orderly, Events
<1> QED BY <1>1, <1>2, <1>3, ExactBy

LEMMA AsksExact ==
  ASSUME Counted, Exact, Counted', Asks
  PROVE  Exact'
<1>1. /\ Requested(cl, cl') /\ pc = "scan"
      /\ Len(queued') = Len(queued) + 1
      /\ UNCHANGED <<suite, running, lost, starting, interrupted, pc,
                     platform, phase, idleQueued, newborn>>
  BY DEF Asks, loop
<1>2. Backs(Len(queued'), cl')
  <2>1. CASE cl.held = 0 /\ ~cl.implicit
    BY <1>1, <2>1, Known DEF Backs, Requested
  <2>2. CASE ~(cl.held = 0 /\ ~cl.implicit)
    BY <1>1, <2>2, Known DEF Backs, Requested
  <2> QED BY <2>1, <2>2
<1>3. ImplicitDue'
  <2>1. CASE cl.held = 0 /\ ~cl.implicit
    <3>1. cl'.held = 0 /\ running \cup lost = {} /\ cl'.implicit
      BY <1>1, <2>1, Known DEF Requested, Busy
    <3> QED BY <1>1, <3>1 DEF ImplicitDue, Exact
  <2>2. CASE ~(cl.held = 0 /\ ~cl.implicit)
    <3>1. cl'.held = cl.held /\ (cl'.implicit <=> cl.implicit)
      BY <1>1, <2>2 DEF Requested
    <3> QED BY <1>1, <3>1 DEF ImplicitDue, Exact
  <2> QED BY <2>1, <2>2
<1>4. OnPosix'
  BY <1>1 DEF Exact, OnPosix
<1> QED BY <1>2, <1>3, <1>4, ExactBy

LEMMA TurnsExact ==
  ASSUME Counted, Exact, Counted', Turns
  PROVE  Exact'
<1>1. UNCHANGED <<suite, queued, running, lost, starting, interrupted, pc,
                  platform>>
  BY DEF Turns, vars, sched, control
<1>2. /\ cl'.held = cl.held /\ cl'.need = cl.need
      /\ (cl'.implicit <=> cl.implicit)
  <2>1. cl \in Posix!Client
    BY Known DEF Reading
  <2>2. cl' = cl \/ cl' = Posix!Disconnect(cl)
    BY DEF Turns
  <2>3. CASE cl' = Posix!Disconnect(cl)
    BY <2>1, <2>3, Disconnects
  <2> QED BY <2>2, <2>3
<1>3. Backs(Len(queued'), cl')
  BY <1>1, <1>2, Known DEF Backs
<1>4. OnPosix'
  BY <1>1 DEF Exact, OnPosix
<1>5. ImplicitDue'
  <2>1. CASE UNCHANGED <<phase, idleQueued, newborn>>
    BY <1>1, <1>2, <2>1 DEF Exact, ImplicitDue
  <2>2. CASE ~UNCHANGED <<phase, idleQueued, newborn>>
    <3>1. /\ ~idleQueued
          /\ phase' = CASE phase = "idle" -> "poll"
                        [] phase = "poll" -> "timers"
                        [] phase = "timers" -> "idle"
          /\ idleQueued' = (phase = "timers" /\ cl.implicit)
          /\ newborn' = IF phase = "poll" THEN newborn ELSE {}
      BY <2>2 DEF Turns
    <3>2. CASE phase = "idle"
      <4>1. phase' = "poll" /\ ~idleQueued'
        BY <3>1, <3>2
      <4>2. ASSUME platform = "posix", cl.implicit PROVE running \cup lost = {}
        BY <3>1, <3>2, <4>2, Known DEF Exact, ImplicitDue, Busy
      <4> QED BY <1>1, <1>2, <4>1, <4>2 DEF Exact, ImplicitDue
    <3>3. CASE phase = "poll"
      <4>1. phase' = "timers" /\ ~idleQueued' /\ newborn' = newborn
        BY <3>1, <3>3
      <4> QED BY <1>1, <1>2, <3>3, <4>1 DEF Exact, ImplicitDue
    <3>4. CASE phase = "timers"
      <4>1. phase' = "idle" /\ (idleQueued' <=> cl.implicit)
        BY <3>1, <3>4
      <4> QED BY <1>1, <1>2, <4>1 DEF Exact, ImplicitDue
    <3> QED BY <3>2, <3>3, <3>4 DEF Counted
  <2> QED BY <2>1, <2>2
<1> QED BY <1>3, <1>4, <1>5, ExactBy

LEMMA BeginsExact ==
  ASSUME Counted, Exact, Counted', Begins
  PROVE  Exact'
<1>1. /\ ~cl'.implicit /\ cl'.need = 0 /\ Len(queued') = 0
  <2>1. Len(<<>>) = 0
    BY SMTT(30)
  <2> QED BY <2>1, ConnectedFacts DEF Begins
<1>2. ~idleQueued /\ idleQueued' = idleQueued
  BY DEF Begins, Exact, ImplicitDue, loop
<1>3. ImplicitDue' /\ OnPosix' /\ Backs(Len(queued'), cl')
  BY <1>1, <1>2 DEF ImplicitDue, OnPosix, Backs, Begins, Exact
<1> QED BY <1>3, ExactBy

LEMMA LeavesExact ==
  ASSUME Counted, Exact, Counted', Leaves
  PROVE  Exact'
<1>1. UNCHANGED <<suite, queued, starting, interrupted, cl, phase, idleQueued,
                  platform>>
  BY DEF Leaves, clVars, loop
<1>2. ~cl.implicit /\ starting = {}
  BY DEF Leaves
<1>3. Backs(Len(queued'), cl')
  BY <1>1, Known
<1>4. ImplicitDue' /\ OnPosix'
  BY <1>1, <1>2 DEF ImplicitDue, OnPosix, Exact
<1> QED BY <1>3, <1>4, ExactBy

\* No test is over while the implicit token is on its way.
LEMMA FreesOnlyThen ==
  ASSUME Orderly, Counted, Exact, NEW t, Frees(t),
         \/ JTestNotStarted
         \/ phase # "idle" /\ t \in running /\ t \notin newborn
  PROVE  ~cl.implicit
<1>1. CASE platform = "win32"
  <2>1. cl.held # 0
    BY Known DEF Frees
  <2> QED BY <1>1, <2>1 DEF Exact, ImplicitDue
<1>2. CASE platform = "posix" /\ JTestNotStarted
  <2>1. PICK u \in starting, st \in {"NOT_RUN", "SKIPPED", "BAD_COMMAND"} :
          \/ st = "NOT_RUN" /\ ~MayStart(u)
          \/ st # "BAD_COMMAND" /\ "start failure" \in Events
          \/ st = "BAD_COMMAND" /\ MayStart(u) /\ "spawn failure" \in Events
    BY <1>2 DEF JTestNotStarted, TestNotStarted
  <2>2. suite \in PosixSuites /\ u \in Tests
    BY <1>2 DEF Exact, OnPosix, Counted, Fit, TypeOK
  <2>3. MayStart(u)
    BY <2>2 DEF Orderly, MayStart, FailedDependencies, Props, Tests
  <2>4. "start failure" \notin Events /\ "spawn failure" \notin Events
    BY <2>2 DEF Orderly, Events
  <2> QED BY <2>1, <2>3, <2>4
<1>3. CASE /\ platform = "posix" /\ phase # "idle"
           /\ t \in running /\ t \notin newborn
  BY <1>3 DEF Exact, ImplicitDue
<1> QED BY <1>1, <1>2, <1>3 DEF Counted

LEMMA FreesExact ==
  ASSUME Counted, Exact, Counted', NEW t, Frees(t), ~cl.implicit
  PROVE  Exact'
<1>1. Reading(cl) /\ cl.need \in Nat /\ cl.held \in Nat /\ cl.held > 0
  <2>1. cl.held # 0
    BY Known DEF Frees
  <2> QED BY <2>1, Known, SMTT(30)
<1>2. Released(cl, cl')
  BY <1>1, ReleaseEffect DEF Frees, Counted
<1>3. /\ pc' = pc /\ starting' \subseteq starting
      /\ running' = running \ {t} /\ Busy' = Busy \ {t}
      /\ UNCHANGED <<suite, queued, lost, interrupted, platform, phase,
                     idleQueued, newborn>>
  BY DEF Frees, loop
<1>4. Backs(Len(queued'), cl')
  <2>1. Len(queued) = cl.need
    BY Known DEF Backs
  <2>2. CASE cl.held = 1 /\ cl.need > 0
    <3>1. cl'.implicit /\ cl'.need = cl.need - 1
      BY <1>2, <2>2 DEF Released
    <3>2. cl.need = cl.need - 1 + 1
      BY <1>1, SMTT(30)
    <3> QED BY <1>3, <2>1, <3>1, <3>2 DEF Backs
  <2>3. CASE ~(cl.held = 1 /\ cl.need > 0)
    BY <1>2, <1>3, <2>1, <2>3 DEF Released, Backs
  <2> QED BY <2>2, <2>3
<1>5. ImplicitDue'
  <2>1. ~idleQueued /\ pc \notin {"off", "done"}
    BY DEF Exact, ImplicitDue, Frees
  <2>2. ASSUME cl'.implicit PROVE cl'.held = 0 /\ running' \cup lost' = {}
    <3>1. cl.held = 1
      BY <1>2, <2>2 DEF Released
    <3>2. Busy = {t}
      BY <3>1, BusyFacts, Known, OneMore DEF Frees, Counted
    <3>3. cl'.held = 0
      BY <1>2, <3>1, SMTT(30) DEF Released
    <3> QED BY <1>3, <3>2, <3>3 DEF Busy
  <2> QED BY <1>3, <2>1, <2>2 DEF ImplicitDue
<1>6. OnPosix'
  BY <1>3 DEF Exact, OnPosix
<1> QED BY <1>4, <1>5, <1>6, ExactBy

LEMMA GivenExact ==
  ASSUME Counted, Exact, Counted', ImplicitToken \/ ExplicitToken
  PROVE  Exact'
<1>1. PICK c, p :
        /\ Gives(c, p) /\ Reading(c) /\ c.held = cl.held + 1 /\ p \in Nat
        /\ UNCHANGED <<platform, others, phase, newborn>>
        /\ \/ /\ phase = "idle" /\ idleQueued /\ ~idleQueued'
              /\ ~c.implicit /\ c.need = cl.need
           \/ /\ phase = IF platform = "posix" THEN "poll" ELSE "timers"
              /\ idleQueued' = idleQueued
              /\ cl.need > 0
              /\ platform = "win32" => ~cl.implicit
              /\ (c.implicit <=> cl.implicit) /\ c.need = cl.need - 1
  BY TokenGiven
<1>2. /\ UNCHANGED <<suite, running, lost, interrupted, pc>>
      /\ pc = "loop" /\ Len(queued') = Len(queued) - 1
  BY <1>1 DEF Gives
<1>3. OnPosix'
  BY <1>1, <1>2 DEF Exact, OnPosix
<1>4. /\ cl.need \in Nat /\ cl.held \in Nat /\ Backs(Len(queued), cl)
      /\ platform \in {"posix", "win32"}
  BY Known DEF Counted
\* The implicit token: one request less.
<1>5. CASE phase = "idle" /\ idleQueued /\ ~idleQueued' /\ ~c.implicit
           /\ c.need = cl.need
  <2>1. cl.implicit
    BY <1>5 DEF Exact, ImplicitDue
  <2>2. Len(queued') = cl.need
    BY <1>2, <1>4, <2>1, SMTT(30) DEF Backs
  <2>3. CASE ~interrupted
    <3>1. cl' = c
      BY <1>1, <2>3 DEF Gives
    <3>2. Backs(Len(queued'), cl')
      BY <1>5, <2>2, <3>1 DEF Backs
    <3>3. ImplicitDue'
      BY <1>2, <1>5, <3>1 DEF ImplicitDue
    <3> QED BY <1>3, <3>2, <3>3, ExactBy
  <2>4. CASE interrupted
    <3>1. platform = "win32" /\ cl.held = 0
      BY <1>4, <2>1, <2>4 DEF Exact, OnPosix, ImplicitDue
    <3>2. c.held = 1 /\ c.held > 0
      BY <1>1, <3>1, SMTT(30)
    <3>3. Released(c, cl')
      BY <1>1, <2>4, <3>2, ReleaseEffect DEF Gives
    <3>4. cl'.held = 0
      BY <3>2, <3>3, SMTT(30) DEF Released
    <3>5. Backs(Len(queued'), cl')
      <4>1. CASE cl.need > 0
        <5>1. cl'.implicit /\ cl'.need = cl.need - 1
          BY <1>5, <3>2, <3>3, <4>1 DEF Released
        <5>2. cl.need = cl.need - 1 + 1
          BY <1>4, SMTT(30)
        <5> QED BY <2>2, <5>1, <5>2 DEF Backs
      <4>2. CASE ~(cl.need > 0)
        BY <1>5, <2>2, <3>3, <4>2 DEF Released, Backs
      <4> QED BY <4>1, <4>2
    <3>6. ImplicitDue'
      BY <1>1, <1>2, <1>5, <3>1, <3>4 DEF ImplicitDue
    <3> QED BY <1>3, <3>5, <3>6, ExactBy
  <2> QED BY <2>3, <2>4
\* A token of the server: one needed token less.
<1>6. CASE /\ phase = IF platform = "posix" THEN "poll" ELSE "timers"
           /\ idleQueued' = idleQueued
           /\ cl.need > 0
           /\ platform = "win32" => ~cl.implicit
           /\ (c.implicit <=> cl.implicit) /\ c.need = cl.need - 1
  <2>1. Backs(Len(queued'), c)
    <3>1. CASE cl.implicit
      BY <1>2, <1>4, <1>6, <3>1, SMTT(30) DEF Backs
    <3>2. CASE ~cl.implicit
      BY <1>2, <1>4, <1>6, <3>2 DEF Backs
    <3> QED BY <3>1, <3>2
  <2>2. /\ (cl'.implicit <=> c.implicit) /\ cl'.need = c.need
    <3>1. CASE ~interrupted
      BY <1>1, <3>1 DEF Gives
    <3>2. CASE interrupted
      <4>1. ~cl.implicit
        BY <1>4, <1>6, <3>2 DEF Exact, OnPosix
      <4>2. cl.held > 0
        BY <1>6, <4>1, Known
      <4>3. c.held # 1 /\ c.held > 0
        BY <1>1, <1>4, <4>2, SMTT(30)
      <4>4. Released(c, cl')
        BY <1>1, <3>2, <4>3, ReleaseEffect DEF Gives
      <4> QED BY <4>3, <4>4 DEF Released
    <3> QED BY <3>1, <3>2
  <2>3. Backs(Len(queued'), cl')
    BY <2>1, <2>2 DEF Backs
  <2>4. CASE platform = "win32"
    <3>1. ~cl'.implicit /\ ~cl.implicit
      BY <1>6, <2>2, <2>4
    <3>2. ImplicitDue'
      BY <1>1, <1>2, <1>6, <3>1 DEF Exact, ImplicitDue
    <3> QED BY <1>3, <2>3, <3>2, ExactBy
  <2>5. CASE platform = "posix"
    <3>1. phase = "poll" /\ ~idleQueued
      BY <1>6, <2>5 DEF Exact, ImplicitDue
    <3>2. ImplicitDue'
      BY <1>1, <1>2, <1>6, <2>2, <2>5, <3>1 DEF Exact, ImplicitDue
    <3> QED BY <1>3, <2>3, <3>2, ExactBy
  <2> QED BY <1>4, <2>4, <2>5
<1> QED BY <1>1, <1>5, <1>6

LEMMA JStepExact ==
  ASSUME Orderly, Counted, Exact, Counted', [JNext]_allVars
  PROVE  Exact'
<1>1. Moves
  BY JStepMoves
<1>2. ASSUME NEW t, Frees(t),
             \/ JTestNotStarted
             \/ phase # "idle" /\ t \in running /\ t \notin newborn
      PROVE  Exact'
  BY <1>1, <1>2, FreesOnlyThen, FreesExact
<1> QED BY <1>1, <1>2, IdlesExact, AsksExact, TurnsExact, BeginsExact,
           LeavesExact, GivenExact DEF Moves

LEMMA JInitExact == JInit => Exact
<1> SUFFICES ASSUME JInit PROVE Exact
  OBVIOUS
<1>1. /\ ~cl.implicit /\ cl.need = 0 /\ Len(queued) = 0 /\ starting = {}
      /\ ~idleQueued /\ ~interrupted
      /\ platform = "posix" => suite \in PosixSuites
  <2>1. Len(<<>>) = 0
    BY SMTT(30)
  <2> QED BY <2>1, ConnectedFacts DEF JInit, Init
<1>2. QueueBacked
  <2>1. 0 = 0 + 0
    BY SMTT(30)
  <2> QED BY <1>1, <2>1 DEF QueueBacked, Posix!NoRequestLost, Posix!B2N
<1> QED BY <1>1, <1>2 DEF Exact, ImplicitDue, OnPosix

-----------------------------------------------------------------------------
(* The tokens go back, and the composition implements the scheduler.       *)

\* No repetition of a test fails to start.
Repeatable == \A su \in Suites : "rerun failure" \notin su.Events

\* A broken connection keeps the tokens that are out: they are missing in
\* later runs of ctest, if there are any.
SameServer == MayDisconnect => \A su \in Suites : su.MaxSessions <= 1

\* TokensReturned without its arithmetic.
Owes(c, n) ==
  /\ c.held = 0 => n = 0
  /\ c.held # 0 => n = IF c.implicit THEN c.held ELSE c.held - 1

LEMMA OwesIs ==
  ASSUME NEW c, c.held \in Nat, NEW n
  PROVE  n = (IF c.held = 0 THEN 0 ELSE c.held + Posix!B2N(c.implicit) - 1)
           <=> Owes(c, n)
<1>1. c.held + 1 - 1 = c.held /\ c.held + 0 - 1 = c.held - 1
  BY SMTT(30)
<1>2. CASE c.implicit
  BY <1>1, <1>2 DEF Owes, Posix!B2N
<1>3. CASE ~c.implicit
  BY <1>1, <1>3 DEF Owes, Posix!B2N
<1> QED BY <1>2, <1>3

LEMMA OwesKnown ==
  ASSUME Counted, Exact, Returned, cl.open
  PROVE  Owes(cl, Slots - pool - others)
BY Known, OwesIs DEF Returned, Posix!TokensReturned, Posix!Taken

LEMMA ReturnedBy ==
  ASSUME Counted', cl'.open => Owes(cl', Slots - pool' - others'), lost' = {},
         pc' \in {"off", "done"} => Busy' = {},
         session' = 0 => /\ pc' \in {"off", "done"}
                         /\ Slots - pool' - others' = 0,
         ~MayDisconnect => cl'.open
  PROVE  Returned'
<1>1. cl'.held \in Nat
  BY DEF Counted, Reading, Posix!Client
<1>2. cl'.open => Slots - pool' - others' =
        IF cl'.held = 0 THEN 0 ELSE cl'.held + Posix!B2N(cl'.implicit) - 1
  BY <1>1, OwesIs
<1>3. Posix!TokensReturned'
  BY <1>2 DEF Posix!TokensReturned, Posix!Taken, Posix!B2N
<1>4. session' = 0 => pc' \in {"off", "done"} /\ Posix!Taken' = 0
  BY DEF Posix!Taken
<1> QED BY <1>3, <1>4 DEF Returned

LEMMA IdlesReturned ==
  ASSUME Repeatable, Counted, Exact, Returned, Counted', Idles
  PROVE  Returned'
<1>1. Slots - pool' - others' = Slots - pool - others
  <2>1. /\ pool \in Nat /\ others \in Nat /\ pool' \in Nat /\ others' \in Nat
        /\ pool' + others' = pool + others /\ Slots \in Nat
    BY SchedulingAssumption DEF Idles, Counted
  <2>2. /\ Slots - pool - others = Slots - (pool + others)
        /\ Slots - pool' - others' = Slots - (pool' + others')
    BY <2>1, SMTT(30)
  <2> QED BY <2>1, <2>2
<1>2. lost' = {}
  <2>1. "rerun failure" \notin Events
    BY DEF Repeatable, Counted, Fit, TypeOK, Events
  <2> QED BY <2>1 DEF Idles, Returned
<1>3. cl'.open => Owes(cl', Slots - pool' - others')
  BY <1>1, OwesKnown DEF Idles
<1>4. pc' \in {"off", "done"} => Busy' = {}
  BY DEF Idles, Returned
<1>5. session' = 0 =>
        pc' \in {"off", "done"} /\ Slots - pool' - others' = 0
  BY <1>1 DEF Idles, Returned, Posix!Taken
<1>6. ~MayDisconnect => cl'.open
  BY DEF Idles, Returned
<1> QED BY <1>2, <1>3, <1>4, <1>5, <1>6, ReturnedBy

LEMMA AsksReturned ==
  ASSUME Counted, Exact, Returned, Counted', Asks
  PROVE  Returned'
<1>1. /\ Requested(cl, cl') /\ (~MayDisconnect /\ cl.open => cl'.open)
      /\ UNCHANGED <<lost, pc, session, pool, others>>
      /\ pc = "scan"
  BY DEF Asks, server
<1>2. ASSUME cl'.open PROVE Owes(cl', Slots - pool' - others')
  <2>1. Owes(cl, Slots - pool - others)
    BY <1>1, <1>2, OwesKnown DEF Requested
  <2> QED BY <1>1, <2>1 DEF Requested, Owes
<1> QED BY <1>1, <1>2, ReturnedBy DEF Returned

LEMMA TurnsReturned ==
  ASSUME Counted, Exact, Returned, Counted', Turns
  PROVE  Returned'
<1>1. UNCHANGED <<pool, others, running, lost, starting, pc, session>>
  BY DEF Turns, vars, sched, control, disk, server
<1>2. Busy' = Busy
  BY <1>1 DEF Busy
<1>3. \/ cl' = cl
      \/ cl' = Posix!Disconnect(cl) /\ MayDisconnect
  BY DEF Turns
<1>4. cl \in Posix!Client
  BY Known DEF Reading
<1>5. CASE cl' = cl
  BY <1>1, <1>2, <1>5, OwesKnown, ReturnedBy DEF Returned, Posix!Taken
<1>6. CASE cl' = Posix!Disconnect(cl) /\ MayDisconnect
  <2>1. ~cl'.open
    BY <1>4, <1>6, Disconnects
  <2> QED BY <1>1, <1>2, <1>6, <2>1, ReturnedBy DEF Returned, Posix!Taken
<1> QED BY <1>3, <1>5, <1>6

LEMMA LeavesReturned ==
  ASSUME Counted, Exact, Returned, Counted', Leaves
  PROVE  Returned'
<1>1. UNCHANGED <<running, lost, starting, session, cl, pool, others>>
  BY DEF Leaves, clVars, server
<1>2. pc' = "done" /\ Busy' = {}
  BY <1>1 DEF Leaves, Returned, Busy
<1> QED BY <1>1, <1>2, OwesKnown, ReturnedBy DEF Returned, Posix!Taken

LEMMA BeginsReturned ==
  ASSUME SameServer, Counted, Exact, Returned, Counted', Begins
  PROVE  Returned'
<1>1. /\ pc \in {"off", "done"} /\ pc' = "loop" /\ cl' = Posix!Connected
      /\ lost' = {} /\ session' = session + 1 /\ session < suite.MaxSessions
      /\ UNCHANGED <<pool, others>>
  BY DEF Begins, server
<1>2. session \in Nat /\ suite \in Suites
  BY DEF Counted, Fit, TypeOK
<1>3. suite.MaxSessions \in Nat
  BY <1>2, HandlerAssumption DEF Suite
<1>4. Slots - pool - others = 0
  <2>1. CASE session = 0
    BY <2>1 DEF Returned, Posix!Taken
  <2>2. CASE session # 0
    <3>1. ~(suite.MaxSessions <= 1)
      BY <1>1, <1>2, <1>3, <2>2, SMTT(30)
    <3>2. ~MayDisconnect
      BY <1>2, <3>1 DEF SameServer
    <3>3. cl.open /\ cl.held = 0
      BY <1>1, <3>2, Known DEF Returned
    <3> QED BY <3>3, OwesKnown DEF Owes
  <2> QED BY <2>1, <2>2
<1>5. cl'.open /\ cl'.held = 0 /\ session' # 0
  BY <1>1, <1>2, ConnectedFacts, SMTT(30)
<1>6. Owes(cl', Slots - pool' - others')
  BY <1>1, <1>4, <1>5 DEF Owes
<1> QED BY <1>1, <1>5, <1>6, ReturnedBy

LEMMA FreesReturned ==
  ASSUME Counted, Exact, Returned, Counted', NEW t, Frees(t), ~cl.implicit
  PROVE  Returned'
<1>1. Reading(cl) /\ cl.need \in Nat /\ cl.held \in Nat /\ cl.held > 0
  <2>1. cl.held # 0
    BY Known DEF Frees
  <2> QED BY <2>1, Known, SMTT(30)
<1>2. /\ Released(cl, cl') /\ (~MayDisconnect /\ cl.open => cl'.open)
      /\ cl'.open => pool' = IF cl.held # 1 THEN pool + 1 ELSE pool
  BY <1>1, ReleaseEffect DEF Frees, Counted
<1>3. pc' = pc /\ t \in Busy /\ UNCHANGED <<lost, session, others>>
  BY DEF Frees
<1>4. pc \notin {"off", "done"}
  BY <1>3 DEF Returned
<1>5. /\ pool \in Nat /\ others \in Nat /\ Slots \in Nat /\ others' = others
  BY <1>3, SchedulingAssumption DEF Counted
<1>6. ASSUME cl'.open PROVE Owes(cl', Slots - pool' - others')
  <2>1. Slots - pool - others = cl.held - 1
    BY <1>1, <1>2, <1>6, OwesKnown, SMTT(30) DEF Owes, Released
  <2>2. cl'.held = cl.held - 1
    BY <1>2 DEF Released
  <2>3. CASE cl.held = 1
    BY <1>2, <1>5, <1>6, <2>1, <2>2, <2>3, SMTT(30) DEF Owes
  <2>4. CASE cl.held # 1
    <3>1. pool' = pool + 1 /\ ~cl'.implicit
      BY <1>2, <1>6, <2>4 DEF Released
    <3>2. Slots - pool' - others' = cl.held - 1 - 1 /\ cl'.held # 0
      BY <1>1, <1>5, <2>1, <2>2, <2>4, <3>1, SMTT(30)
    <3> QED BY <2>2, <3>1, <3>2 DEF Owes
  <2> QED BY <2>3, <2>4
<1> QED BY <1>2, <1>3, <1>4, <1>6, ReturnedBy DEF Returned

LEMMA GivenReturned ==
  ASSUME Counted, Exact, Returned, Counted', ImplicitToken \/ ExplicitToken
  PROVE  Returned'
<1>1. PICK c, p :
        /\ Gives(c, p) /\ Reading(c) /\ c.held = cl.held + 1 /\ p \in Nat
        /\ (c.open <=> cl.open) /\ others' = others /\ platform' = platform
        /\ \/ /\ phase = "idle" /\ idleQueued
              /\ p = pool /\ ~c.implicit /\ c.need = cl.need
           \/ /\ phase = IF platform = "posix" THEN "poll" ELSE "timers"
              /\ p = pool - 1 /\ cl.need > 0
              /\ platform = "win32" => ~cl.implicit
              /\ (c.implicit <=> cl.implicit) /\ c.need = cl.need - 1
  BY TokenGiven
<1>2. /\ UNCHANGED <<lost, interrupted, pc, session>> /\ pc = "loop"
  BY <1>1 DEF Gives
<1>3. /\ cl.held \in Nat /\ cl.need \in Nat /\ pool \in Nat /\ others \in Nat
      /\ Slots \in Nat /\ platform \in {"posix", "win32"}
      /\ ~cl.implicit /\ cl.need > 0 => cl.held > 0
  BY Known, SchedulingAssumption DEF Counted
\* Before the token is released, if it is.
<1>4. ASSUME cl.open PROVE Owes(c, Slots - p - others)
  <2>1. Owes(cl, Slots - pool - others)
    BY <1>4, OwesKnown
  <2>2. c.held # 0
    BY <1>1, <1>3, SMTT(30)
  <2>3. CASE idleQueued /\ p = pool /\ ~c.implicit
    <3>1. cl.implicit
      BY <2>3 DEF Exact, ImplicitDue
    <3>2. Slots - p - others = cl.held
      BY <2>1, <2>3, <3>1 DEF Owes
    <3>3. c.held - 1 = cl.held
      BY <1>1, <1>3, SMTT(30)
    <3> QED BY <2>2, <2>3, <3>2, <3>3 DEF Owes
  <2>4. CASE p = pool - 1 /\ cl.need > 0 /\ (c.implicit <=> cl.implicit)
    <3>1. Slots - p - others = Slots - pool - others + 1
      BY <1>3, <2>4, SMTT(30)
    <3>2. CASE cl.implicit
      <4>1. Slots - pool - others = cl.held
        BY <2>1, <3>2 DEF Owes
      <4> QED BY <1>1, <2>2, <2>4, <3>1, <3>2, <4>1 DEF Owes
    <3>3. CASE ~cl.implicit
      <4>1. cl.held # 0
        BY <1>3, <2>4, <3>3, SMTT(30)
      <4>2. Slots - pool - others = cl.held - 1
        BY <2>1, <3>3, <4>1 DEF Owes
      <4>3. (cl.held - 1) + 1 = (cl.held + 1) - 1
        BY <1>3, SMTT(30)
      <4>4. c.held = cl.held + 1
        BY <1>1
      <4>5. Slots - p - others = c.held - 1
        BY <3>1, <4>2, <4>3, <4>4
      <4> QED BY <2>2, <2>4, <3>3, <4>5 DEF Owes
    <3> QED BY <3>2, <3>3
  <2> QED BY <1>1, <2>3, <2>4
<1>5. CASE ~interrupted
  <2>1. cl' = c /\ pool' = p
    BY <1>1, <1>5 DEF Gives
  <2> QED BY <1>1, <1>2, <1>4, <2>1, ReturnedBy DEF Returned
<1>6. CASE interrupted
  <2>1. c.held > 0 /\ c.held \in Nat
    BY <1>1, <1>3, SMTT(30)
  <2>2. /\ Released(c, cl') /\ (~MayDisconnect /\ c.open => cl'.open)
        /\ cl'.open => pool' = IF c.held # 1 THEN p + 1 ELSE p
    BY <1>1, <1>6, <2>1, ReleaseEffect DEF Gives
  <2>3. ~c.implicit
    BY <1>1, <1>3, <1>6 DEF Exact, OnPosix
  <2>4. ASSUME cl'.open PROVE Owes(cl', Slots - pool' - others')
    <3>1. Slots - p - others = c.held - 1
      BY <1>1, <1>4, <2>1, <2>2, <2>3, <2>4, SMTT(30) DEF Owes, Released
    <3>2. cl'.held = c.held - 1 /\ others' = others
      BY <1>1, <2>2 DEF Released
    <3>3. CASE c.held = 1
      BY <1>3, <2>2, <2>4, <3>1, <3>2, <3>3, SMTT(30) DEF Owes
    <3>4. CASE c.held # 1
      <4>1. pool' = p + 1 /\ ~cl'.implicit
        BY <2>2, <2>3, <2>4, <3>4 DEF Released
      <4>2. Slots - pool' - others' = c.held - 1 - 1 /\ cl'.held # 0
        BY <1>1, <1>3, <2>1, <3>1, <3>2, <3>4, <4>1, SMTT(30)
      <4> QED BY <3>2, <4>1, <4>2 DEF Owes
    <3> QED BY <3>3, <3>4
  <2> QED BY <1>1, <1>2, <2>2, <2>4, ReturnedBy DEF Returned
<1> QED BY <1>5, <1>6

LEMMA JStepReturned ==
  ASSUME Orderly, Repeatable, SameServer, Counted, Exact, Returned, Counted',
         [JNext]_allVars
  PROVE  Returned'
<1>1. Moves
  BY JStepMoves
<1>2. ASSUME NEW t, Frees(t),
             \/ JTestNotStarted
             \/ phase # "idle" /\ t \in running /\ t \notin newborn
      PROVE  Returned'
  BY <1>1, <1>2, FreesOnlyThen, FreesReturned
<1> QED BY <1>1, <1>2, IdlesReturned, AsksReturned, TurnsReturned,
           BeginsReturned, LeavesReturned, GivenReturned DEF Moves

LEMMA JInitReturned == JInit => Returned
<1> SUFFICES ASSUME JInit PROVE Returned
  OBVIOUS
<1>1. /\ cl = Posix!Connected /\ others = Slots - pool /\ pool \in 0 .. Slots
      /\ lost = {} /\ Busy = {} /\ pc = "off"
  BY DEF JInit, Init, Busy
<1>2. cl.open /\ cl.held = 0
  BY <1>1, ConnectedFacts
<1>3. Slots - pool - others = 0
  BY <1>1, SchedulingAssumption, SMTT(30)
<1> QED BY <1>1, <1>2, <1>3 DEF Returned, Posix!TokensReturned, Posix!Taken

LEMMA ReturnedImplies ==
  ASSUME Counted, Exact, Returned
  PROVE  TokensGivenBack
<1> SUFFICES ASSUME pc = "done", cl.open
             PROVE  cl.held = 0 /\ pool + others = Slots
  BY DEF TokensGivenBack
<1>1. cl.held = 0 /\ pool \in Nat /\ others \in Nat /\ Slots \in Nat
  BY Known, SchedulingAssumption DEF Returned
<1>2. Slots - pool - others = 0
  BY <1>1, OwesKnown DEF Owes
<1> QED BY <1>1, <1>2, SMTT(30)

\* No test is lost to a repetition that does not start.
LEMMA JStepNoneLost ==
  ASSUME Repeatable, Counted, lost = {}, [JNext]_allVars
  PROVE  lost' = {}
<1>1. "rerun failure" \notin Events
  BY DEF Repeatable, Counted, Fit, TypeOK, Events
<1>2. CASE ImplicitToken \/ ExplicitToken
  BY <1>2, TokenGiven DEF Gives
<1>3. CASE ~(ImplicitToken \/ ExplicitToken)
  BY <1>1, <1>3, JStepMoves
     DEF Moves, Idles, Asks, Turns, Begins, Leaves, Frees, vars, sched
<1> QED BY <1>2, <1>3

\* A step of the composition is one of the scheduler, or uv_run returns.
LEMMA JStepIsStep ==
  ASSUME [JNext]_allVars
  PROVE  [Next]_vars \/ JRunTestsReturns
<1>1. ASSUME NEW t \in running, JTestEnds(t) PROVE TestEnds(t)
  BY <1>1 DEF JTestEnds, EndsWith, TestEnds
<1>2. ImplicitToken \/ ExplicitToken => JobServerReceivedToken
  BY DEF ImplicitToken, ExplicitToken, OnToken
<1>3. JScanGoesOn => ScanSkips \/ ScanEnds
  BY DEF JScanGoesOn
<1>4. /\ JRunTests => RunTests
      /\ JStartNextTests => StartNextTests
      /\ JScanStarts => ScanStarts
      /\ JTestStarts => TestStarts
      /\ JTestNotStarted => TestNotStarted
      /\ JInterrupt => Interrupt
  BY DEF JRunTests, JStartNextTests, JScanStarts, JTestStarts,
         JTestNotStarted, JInterrupt
<1>5. ConnectionBreaks \/ EnterPhase \/ OtherClients \/ UNCHANGED allVars
        => UNCHANGED vars
  BY DEF ConnectionBreaks, EnterPhase, OtherClients, allVars
<1> QED BY <1>1, <1>2, <1>3, <1>4, <1>5 DEF JNext, Next

\* uv_run returns with an empty queue although the code does not ask for it.
LEMMA JStepImplements ==
  ASSUME Counted, Exact, lost = {}, [JNext]_allVars
  PROVE  [Next]_vars
<1>1. ASSUME JRunTestsReturns PROVE RunTestsReturns
  <2>1. /\ InLoop /\ ~idle /\ ~timer /\ running = {} /\ FinalizeLoop
        /\ ~cl.implicit
    BY <1>1 DEF JRunTestsReturns
  <2>2. cl.held = 0 /\ ~(cl.held > 0)
    <3>1. cl.held = 0
      BY <2>1, Known DEF InLoop, Busy
    <3> QED BY <3>1, SMTT(30)
  <2>3. cl.need = 0 /\ Len(queued) = cl.need
    <3>1. ~(cl.need > 0) /\ cl.need \in Nat /\ Len(queued) = cl.need
      BY <2>1, <2>2, Known DEF Backs
    <3> QED BY <3>1, SMTT(30)
  <2>4. queued = <<>>
    <3>1. queued \in Seq(Tests)
      BY DEF Counted, Fit, TypeOK
    <3> QED BY <2>3, <3>1, SMTT(30)
  <2> QED BY <2>1, <2>4 DEF RunTestsReturns
<1> QED BY <1>1, JStepIsStep DEF Next
==============================================================================
