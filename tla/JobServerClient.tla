--------------------------- MODULE JobServerClient ---------------------------
(***************************************************************************)
(* The GNU make job server client that ctest uses to share its parallelism *)
(* with the build that started it (Source/CTest/cmUVJobServerClient.cxx).  *)
(*                                                                         *)
(* The members of the C++ object are one record `cl`.  The member          *)
(* functions are operators from such a record to such a record, so that a  *)
(* chain of calls is a composition of operators and a handler is one       *)
(* action.  The libuv loop is reduced to the order in which it runs the    *)
(* callbacks: idle handles, then i/o, then timers, then idle handles again.*)
(***************************************************************************)
EXTENDS Integers

CONSTANTS
  Platform,     \* "posix": tokens are bytes of a pipe, "win32": a semaphore
  Slots,        \* explicit tokens the job server owns
  MaxRequests,  \* bound: how often RequestToken is called
  SyncRelease,  \* may OnToken call ReleaseToken before it returns?
  MayDisconnect \* may a read or a write of the connection fail?

ASSUME ClientAssumption ==
  /\ Platform \in {"posix", "win32"}
  /\ Slots \in Nat
  /\ MaxRequests \in Nat
  /\ SyncRelease \in BOOLEAN
  /\ MayDisconnect \in BOOLEAN

VARIABLES
  cl,         \* the client: see Client
  pool,       \* tokens lying in the job server's pipe or semaphore
  others,     \* tokens taken by other clients of the same job server
  phase,      \* the phase of the libuv loop iteration
  idleQueued, \* the implicit token's idle handle is due in this idle phase
  fresh,      \* tokens handed out in this i/o phase
  requests,   \* calls of RequestToken so far
  waiting     \* calls of RequestToken that no OnToken has answered yet

vars == <<cl, pool, others, phase, idleQueued, fresh, requests, waiting>>

Client == [open: BOOLEAN,       \* Conn != Connection::None
           receiving: BOOLEAN,  \* ReceivingTokens: the read or timer is on
           implicit: BOOLEAN,   \* uv_is_active(ImplicitToken)
           held: Nat,           \* HeldTokens
           need: Nat]           \* NeedTokens

Connected == [open |-> TRUE, receiving |-> FALSE, implicit |-> FALSE,
              held |-> 0, need |-> 0]

-----------------------------------------------------------------------------
(* Member functions.                                                       *)

\* Does nothing once the connection is gone.
StopReceivingTokens(c) ==
  IF c.open THEN [c EXCEPT !.receiving = FALSE] ELSE c

Disconnect(c) ==
  IF c.open THEN [StopReceivingTokens(c) EXCEPT !.open = FALSE] ELSE c

\* `ok`: uv_read_start or uv_timer_start succeeds.
StartReceivingTokens(c, ok) ==
  IF ~c.open \/ c.receiving THEN c
  ELSE IF ok THEN [c EXCEPT !.receiving = TRUE]
  ELSE Disconnect(c)

DecrementNeedTokens(c) ==
  IF c.need = 1 THEN StopReceivingTokens([c EXCEPT !.need = 0])
  ELSE [c EXCEPT !.need = @ - 1]

\* uv_idle_start on a handle that is active already changes nothing.
RequestImplicitToken(c) == [c EXCEPT !.implicit = TRUE]

RequestExplicitToken(c, ok) ==
  StartReceivingTokens([c EXCEPT !.need = @ + 1], ok)

\* Mutant: the implicit token is asked for while it is in use.
RequestTokenOp_Twice(c, ok) ==
  IF ~c.implicit THEN RequestImplicitToken(c) ELSE RequestExplicitToken(c, ok)

RequestTokenOp(c, ok) ==
  IF c.held = 0 /\ ~c.implicit
  THEN RequestImplicitToken(c)
  ELSE RequestExplicitToken(c, ok)

\* Mutants: no restart of the idle handle; the implicit token is not
\* offered to the waiting requests.
ReleaseImplicitToken_NoRestart(c) ==
  IF c.need > 0 THEN DecrementNeedTokens(c) ELSE c
ReleaseImplicitToken_Keeps(c) == c

ReleaseImplicitToken(c) ==
  IF c.need > 0 THEN RequestImplicitToken(DecrementNeedTokens(c)) ELSE c

\* Mutant: off by one, the last explicit token is kept.
SendsToken_OffByOne(c) == c.held > 2 /\ c.open

\* A released token goes back to the job server unless it is the last one.
SendsToken(c) == c.held # 1 /\ c.open

ReleaseTokenOp(c, ok) ==
  LET d == [c EXCEPT !.held = @ - 1]
  IN  IF d.held = 0 THEN ReleaseImplicitToken(d)
      ELSE IF ok THEN d
      ELSE Disconnect(d)

HoldToken(c) == [c EXCEPT !.held = @ + 1]

ReceivedToken(c) == HoldToken(DecrementNeedTokens(c))

\* PollTokens leaves the semaphore alone while the implicit token is on its
\* way; the pipe of the POSIX client is read whenever reading is on.
MayReceive(c) ==
  /\ c.open /\ c.receiving
  /\ Platform = "win32" => c.need > 0 /\ ~c.implicit

-----------------------------------------------------------------------------
(* The loop and the code that uses the client.                             *)

Init ==
  /\ cl = Connected
  /\ pool \in 0 .. Slots
  /\ others = Slots - pool
  /\ phase = "idle"
  /\ idleQueued = FALSE
  /\ fresh = 0
  /\ requests = 0
  /\ waiting = 0

Outcomes == IF MayDisconnect THEN BOOLEAN ELSE {TRUE}

\* OnToken runs with the token of `c`; it may be done with it at once.
OnToken(c, p) ==
  /\ waiting' = waiting - 1
  /\ \/ /\ cl' = c
        /\ pool' = p
        /\ fresh' = IF phase = "poll" THEN fresh + 1 ELSE fresh
     \/ /\ SyncRelease
        /\ \E ok \in Outcomes :
             /\ cl' = ReleaseTokenOp(c, ok)
             /\ pool' = IF SendsToken(c) /\ ok THEN p + 1 ELSE p
        /\ UNCHANGED fresh

\* The scheduler asks for tokens from idle and timer callbacks.
RequestToken ==
  /\ phase \in {"idle", "timers"}
  /\ requests < MaxRequests
  /\ \E ok \in Outcomes : cl' = RequestTokenOp(cl, ok)
  /\ requests' = requests + 1
  /\ waiting' = waiting + 1
  /\ UNCHANGED <<pool, others, phase, idleQueued, fresh>>

\* The end of a child process that runs on a token.  A child started in this
\* i/o phase is not reaped before the next one.
ReleaseToken ==
  /\ phase = "poll"
  /\ cl.held > fresh
  /\ \E ok \in Outcomes :
       /\ cl' = ReleaseTokenOp(cl, ok)
       /\ pool' = IF SendsToken(cl) /\ ok THEN pool + 1 ELSE pool
  /\ UNCHANGED <<others, phase, idleQueued, fresh, requests, waiting>>

\* The idle callback of RequestImplicitToken.
ImplicitTokenIdle ==
  /\ phase = "idle" /\ idleQueued
  /\ idleQueued' = FALSE
  /\ OnToken(HoldToken([cl EXCEPT !.implicit = FALSE]), pool)
  /\ UNCHANGED <<others, phase, requests>>

\* OnRead (POSIX, i/o phase) or one turn of PollTokens (Windows, timers).
ReceiveToken ==
  /\ phase = IF Platform = "posix" THEN "poll" ELSE "timers"
  /\ MayReceive(cl)
  /\ pool > 0
  /\ OnToken(ReceivedToken(cl), pool - 1)
  /\ UNCHANGED <<others, phase, idleQueued, requests>>

\* A failed read or wait closes the connection.
ConnectionBreaks ==
  /\ MayDisconnect
  /\ phase = IF Platform = "posix" THEN "poll" ELSE "timers"
  /\ MayReceive(cl)
  /\ cl' = Disconnect(cl)
  /\ UNCHANGED <<pool, others, phase, idleQueued, fresh, requests, waiting>>

\* libuv: the idle phase runs the handles that were active when it began.
EnterPhase ==
  /\ ~idleQueued
  /\ phase' = CASE phase = "idle" -> "poll"
                [] phase = "poll" -> "timers"
                [] phase = "timers" -> "idle"
  /\ idleQueued' = (phase = "timers" /\ cl.implicit)
  /\ fresh' = 0
  /\ UNCHANGED <<cl, pool, others, requests, waiting>>

OtherTakes ==
  /\ pool > 0
  /\ pool' = pool - 1
  /\ others' = others + 1
  /\ UNCHANGED <<cl, phase, idleQueued, fresh, requests, waiting>>

OtherReturns ==
  /\ others > 0
  /\ pool' = pool + 1
  /\ others' = others - 1
  /\ UNCHANGED <<cl, phase, idleQueued, fresh, requests, waiting>>

Next ==
  \/ RequestToken
  \/ ReleaseToken
  \/ ImplicitTokenIdle
  \/ ReceiveToken
  \/ ConnectionBreaks
  \/ EnterPhase
  \/ OtherTakes
  \/ OtherReturns

Spec == Init /\ [][Next]_vars

\* The loop runs, and every child process ends.  Nobody promises that the
\* other clients leave a token for this one.
FairSpec ==
  /\ Spec
  /\ WF_vars(EnterPhase)
  /\ WF_vars(ImplicitTokenIdle)
  /\ SF_vars(ReleaseToken)

-----------------------------------------------------------------------------
(* Properties.                                                             *)

B2N(b) == IF b THEN 1 ELSE 0

\* The explicit tokens this client took and has not sent back.
Taken == Slots - pool - others

\* The members of the client and the state of the loop have their types.
TypeOK ==
  /\ cl \in Client
  /\ pool \in 0 .. Slots
  /\ others \in 0 .. Slots
  /\ phase \in {"idle", "poll", "timers"}
  /\ idleQueued \in BOOLEAN
  /\ fresh \in Nat
  /\ requests \in 0 .. MaxRequests
  /\ waiting \in Nat

\* Every RequestToken that OnToken has not answered is either the implicit
\* token on its way or counted by NeedTokens, so that it will be answered.
NoRequestLost == waiting = cl.need + B2N(cl.implicit)

\* A client that waits for explicit tokens has a token in hand or the
\* implicit one on its way: ReleaseImplicitToken will serve it even if the
\* job server never does.
NeedIsBacked == cl.need > 0 => cl.held > 0 \/ cl.implicit

\* Tokens held never exceed the explicit ones plus the implicit one: ctest
\* never runs more jobs than the job server granted.
NoOvercommit == cl.held <= Taken + 1

\* While connected, the client keeps exactly the explicit tokens that its
\* held tokens need beside the implicit one, and none when it holds nothing.
TokensReturned ==
  cl.open => Taken = IF cl.held = 0 THEN 0
                     ELSE cl.held + B2N(cl.implicit) - 1

\* Every request is answered in the end, even if the other clients keep all
\* the tokens or the connection breaks: the implicit token is enough.
AllRequestsServed == (waiting > 0) ~> (waiting = 0)
=============================================================================
