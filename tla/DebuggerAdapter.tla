-------------------------- MODULE DebuggerAdapter -------------------------
(***************************************************************************)
(* The debugger adapter: Source/cmDebuggerAdapter.cxx, with the breakpoint *)
(* and exception managers it shares between two threads.                   *)
(*                                                                         *)
(* The script thread runs the project and calls the adapter back at every  *)
(* function call and message; it may stop there until the client resumes   *)
(* it.  The session thread serves the client's requests in the order they  *)
(* arrive.  The two meet in the semaphore ContinueSem, two events, atomic  *)
(* step requests and the mutex of the breakpoint manager.  What the        *)
(* adapter's own Mutex protects is one step here.                          *)
(*                                                                         *)
(* The client is external.  It keeps to the protocol: it resumes or        *)
(* inspects the script only while it is stopped, and leaves in the end,    *)
(* with a disconnect request or by closing the connection.                 *)
(***************************************************************************)
EXTENDS Integers, Sequences

CONSTANTS MaxCalls,     \* callbacks of one behaviour
          MaxDepth,     \* stack frames
          MaxSent,      \* requests the client sends besides resuming
          Clients       \* what clients may do, see ClientType

ClientType == [breakpoints : BOOLEAN,   \* sends setBreakpoints
               closes : BOOLEAN,        \* closes without disconnecting
               early : BOOLEAN]         \* leaves before configurationDone is served

ASSUME ConstantsAssumption ==
  /\ MaxCalls \in Nat /\ MaxDepth \in Nat /\ MaxSent \in Nat
  /\ Clients \subseteq ClientType

VARIABLES
  client, view, inbox, sent, \* the client, its view of the script, requests
  peerClosed, open,          \* either end of the connection
  pc, ret, request,          \* of the two threads
  SessionActive, ContinueSem, ConfigurationDone, Disconnected, sendMutex,
  NextStepFrom, StepInRequest, StepOutDepth, PauseRequest,
  Breakpoints, fileLoaded, BreakpointMutex, RaiseExceptions,
  DefaultThread, depth, calls, waitSem,
  want, wantDepth            \* history: how the client last resumed

steps == <<NextStepFrom, StepInRequest, StepOutDepth, PauseRequest>>
manager == <<Breakpoints, fileLoaded, BreakpointMutex, RaiseExceptions>>
frames == <<DefaultThread, depth, calls, waitSem>>
wire == <<view, inbox, sent, peerClosed, open, want, wantDepth>>
sync == <<SessionActive, ContinueSem, ConfigurationDone, Disconnected>>
held == <<ret, sendMutex>>
control == <<pc, held>>
vars == <<client, wire, control, request, sync, steps, manager, frames>>

NoStep == -1

Resumes == {"continue", "next", "stepIn", "stepOut"}

Init ==
  /\ client \in Clients
  /\ view = "connecting" /\ inbox = <<>> /\ sent = 0
  /\ peerClosed = FALSE /\ open = TRUE
  /\ pc = [script |-> "config", session |-> "loop"]
  /\ ret = [script |-> "idle", session |-> "loop"]
  /\ request = "none" /\ sendMutex = "none"
  /\ SessionActive = TRUE /\ ContinueSem = 0
  /\ ConfigurationDone = FALSE /\ Disconnected = FALSE
  /\ NextStepFrom = NoStep /\ StepInRequest = FALSE
  /\ StepOutDepth = NoStep /\ PauseRequest = FALSE
  /\ Breakpoints = "none" /\ fileLoaded = FALSE
  /\ BreakpointMutex = FALSE /\ RaiseExceptions = TRUE
  /\ DefaultThread = FALSE /\ depth = 0 /\ calls = 0 /\ waitSem = FALSE
  /\ want = "none" /\ wantDepth = 0

GoTo(th, label) == pc' = [pc EXCEPT ![th] = label]

ClearStepRequests ==
  /\ NextStepFrom' = NoStep /\ StepInRequest' = FALSE
  /\ StepOutDepth' = NoStep /\ PauseRequest' = FALSE

---------------------------------------------------------------------------
(* The client                                                              *)

Send(r) == inbox' = Append(inbox, r)

ClientConfigured ==
  /\ view = "connecting"
  /\ view' = "running"
  /\ Send("configurationDone")
  /\ UNCHANGED <<client, sent, peerClosed, open, want, wantDepth, control,
                 request, sync, steps, manager, frames>>

ClientResumes(r) ==
  /\ view = "stopped"
  /\ view' = "running"
  /\ Send(r)
  /\ want' = r /\ wantDepth' = depth
  /\ UNCHANGED <<client, sent, peerClosed, open, control, request, sync,
                 steps, manager, frames>>

\* Requests that leave the client's view as it is.
ClientAsks(r) ==
  /\ sent < MaxSent
  /\ view # "gone"
  /\ r = "pause" => view = "running"
  /\ r = "inspect" => view = "stopped"
  /\ r = "setBreakpoints" => client.breakpoints
  /\ sent' = sent + 1
  /\ Send(r)
  /\ UNCHANGED <<client, view, peerClosed, open, want, wantDepth, control,
                 request, sync, steps, manager, frames>>

ClientLeaves ==
  /\ view # "gone"
  /\ ConfigurationDone \/ client.early
  /\ view' = "gone"
  /\ IF client.closes THEN peerClosed' = TRUE /\ UNCHANGED inbox
                      ELSE Send("disconnect") /\ UNCHANGED peerClosed
  /\ UNCHANGED <<client, sent, open, want, wantDepth, control, request, sync,
                 steps, manager, frames>>

---------------------------------------------------------------------------
(* Ending the session: a disconnect request, a closed connection and an    *)
(* error the session reports run the same steps; the error is reported on  *)
(* the thread that sends to a closed connection, which holds sendMutex     *)

\* Session->send on thread th, which then goes on at label next: to a closed
\* connection it reports the error, and a write the client no longer reads
\* closes the connection.  A client that runs the script sees it as seen.
SendOn(th, seen, next) ==
  /\ sendMutex = "none"
  /\ \/ /\ ~open
        /\ sendMutex' = th
        /\ ret' = [ret EXCEPT ![th] = next]
        /\ GoTo(th, "clearBreakpoints")
        /\ UNCHANGED <<view, open>>
     \/ /\ open
        /\ open' = ~peerClosed
        /\ view' = IF view = "running" THEN seen ELSE view
        /\ GoTo(th, next)
        /\ UNCHANGED <<ret, sendMutex>>

LeaveClearBreakpoints(th) ==
  /\ pc[th] = "clearBreakpoints"
  /\ ~BreakpointMutex
  /\ Breakpoints' = "none"
  /\ GoTo(th, "clearExceptions")
  /\ UNCHANGED <<client, wire, held, request, sync, steps, fileLoaded,
                 BreakpointMutex, RaiseExceptions, frames>>

LeaveClearExceptions(th) ==
  /\ pc[th] = "clearExceptions"
  /\ RaiseExceptions' = FALSE
  /\ GoTo(th, "clearSteps")
  /\ UNCHANGED <<client, wire, held, request, sync, steps, Breakpoints,
                 fileLoaded, BreakpointMutex, frames>>

LeaveClearSteps(th) ==
  /\ pc[th] = "clearSteps"
  /\ ClearStepRequests
  /\ GoTo(th, "leaveNotify")
  /\ UNCHANGED <<client, wire, held, request, sync, manager, frames>>

\* Mutant: the waiting script is not woken.
LeaveNotify_Forgotten(th) ==
  /\ pc[th] = "leaveNotify"
  /\ GoTo(th, "fire")
  /\ UNCHANGED <<client, wire, held, request, sync, steps, manager, frames>>

LeaveNotify(th) ==
  /\ pc[th] = "leaveNotify"
  /\ ContinueSem' = ContinueSem + 1
  /\ GoTo(th, "fire")
  /\ UNCHANGED <<client, wire, held, request, SessionActive,
                 ConfigurationDone, Disconnected, steps, manager, frames>>

LeaveFire(th) ==
  /\ pc[th] = "fire"
  /\ Disconnected' = TRUE
  /\ GoTo(th, "inactive")
  /\ UNCHANGED <<client, wire, held, request, SessionActive, ContinueSem,
                 ConfigurationDone, steps, manager, frames>>

LeaveInactive(th) ==
  /\ pc[th] = "inactive"
  /\ SessionActive' = FALSE
  /\ GoTo(th, ret[th])
  /\ sendMutex' = IF sendMutex = th THEN "none" ELSE sendMutex
  /\ UNCHANGED <<client, wire, ret, request, ContinueSem, ConfigurationDone,
                 Disconnected, steps, manager, frames>>

Leave(th) ==
  \/ LeaveClearBreakpoints(th) \/ LeaveClearExceptions(th)
  \/ LeaveClearSteps(th) \/ LeaveNotify(th) \/ LeaveFire(th)
  \/ LeaveInactive(th)
---------------------------------------------------------------------------
(* The session thread                                                      *)

\* Where the handler of a request begins.
Handler(r) ==
  CASE r \in {"next", "stepIn", "stepOut"} -> "store"
    [] r = "continue" -> "notify"
    [] r = "disconnect" -> "clearBreakpoints"
    [] OTHER -> "serve"

SessionLoops ==
  /\ pc["session"] = "loop"
  /\ GoTo("session", IF SessionActive THEN "read" ELSE "ended")
  /\ UNCHANGED <<client, wire, held, request, sync, steps, manager,
                 frames>>

SessionReads ==
  /\ pc["session"] = "read"
  /\ open /\ inbox # <<>>
  /\ request' = Head(inbox)
  /\ inbox' = Tail(inbox)
  /\ GoTo("session", Handler(Head(inbox)))
  /\ ret' = [ret EXCEPT !["session"] = "respond"]
  /\ UNCHANGED <<client, view, sent, peerClosed, open, want, wantDepth,
                 sendMutex, sync, steps, manager, frames>>

\* "Connection closed or unrecoverable error."
SessionFindsClosed ==
  /\ pc["session"] = "read"
  /\ ~open \/ (peerClosed /\ inbox = <<>>)
  /\ open' = FALSE
  /\ GoTo("session", "clearBreakpoints")
  /\ ret' = [ret EXCEPT !["session"] = "loop"]
  /\ UNCHANGED <<client, view, inbox, sent, peerClosed, want, wantDepth,
                 sendMutex, request, sync, steps, manager, frames>>

\* The session sends what the handler returned.
SessionResponds ==
  /\ pc["session"] = "respond"
  /\ SendOn("session", "running", "loop")
  /\ request' = "none"
  /\ UNCHANGED <<client, inbox, sent, peerClosed, want, wantDepth, sync,
                 steps, manager, frames>>

HandleSetBreakpoints ==
  /\ ~BreakpointMutex
  /\ Breakpoints' \in {"none", IF fileLoaded THEN "set" ELSE "pending"}
  /\ UNCHANGED <<sync, steps, fileLoaded, BreakpointMutex, RaiseExceptions>>

HandleSetExceptions ==
  /\ RaiseExceptions' \in BOOLEAN
  /\ UNCHANGED <<sync, steps, Breakpoints, fileLoaded, BreakpointMutex>>

HandlePause ==
  /\ PauseRequest' = TRUE
  /\ UNCHANGED <<sync, NextStepFrom, StepInRequest, StepOutDepth, manager>>

HandleConfigurationDone ==
  /\ ConfigurationDone' = TRUE
  /\ UNCHANGED <<SessionActive, ContinueSem, Disconnected, steps, manager>>

\* Requests whose handler is one step.
SessionServes ==
  /\ pc["session"] = "serve"
  /\ \/ request = "setBreakpoints" /\ HandleSetBreakpoints
     \/ request = "setExceptions" /\ HandleSetExceptions
     \/ request = "pause" /\ HandlePause
     \/ request = "configurationDone" /\ HandleConfigurationDone
     \/ request = "inspect" /\ UNCHANGED <<sync, steps, manager>>
  /\ GoTo("session", "respond")
  /\ UNCHANGED <<client, wire, held, request, frames>>

\* Next, StepIn and StepOut record the step first and then notify.
SessionStoresStep ==
  /\ pc["session"] = "store"
  /\ NextStepFrom' = IF request = "next" THEN depth ELSE NextStepFrom
  /\ StepInRequest' = (request = "stepIn" \/ StepInRequest)
  /\ StepOutDepth' = IF request = "stepOut" THEN depth - 1 ELSE StepOutDepth
  /\ GoTo("session", "notify")
  /\ UNCHANGED <<client, wire, held, request, sync, PauseRequest, manager,
                 frames>>

SessionNotifies ==
  /\ pc["session"] = "notify"
  /\ ContinueSem' = ContinueSem + 1
  /\ GoTo("session", "respond")
  /\ UNCHANGED <<client, wire, held, request, SessionActive,
                 ConfigurationDone, Disconnected, steps, manager, frames>>

Session ==
  \/ SessionLoops \/ SessionReads \/ SessionFindsClosed \/ SessionServes
  \/ SessionStoresStep \/ SessionNotifies \/ SessionResponds
  \/ Leave("session")

---------------------------------------------------------------------------
(* The script thread                                                       *)

\* The last part of the constructor.
ScriptStarts ==
  /\ pc["script"] = "config"
  /\ ConfigurationDone
  /\ DefaultThread' = TRUE
  /\ GoTo("script", "started")
  /\ UNCHANGED <<client, wire, held, request, sync, steps, manager, depth,
                 calls, waitSem>>

ScriptAnnounces ==
  /\ pc["script"] = "started"
  /\ SendOn("script", "running", "idle")
  /\ UNCHANGED <<client, inbox, sent, peerClosed, want, wantDepth, request,
                 sync, steps, manager, frames>>

\* OnBeginFileParse, and OnBeginFunctionCall for line 0.
OnBeginFileParse ==
  /\ pc["script"] = "idle"
  /\ calls < MaxCalls /\ depth < MaxDepth
  /\ calls' = calls + 1 /\ depth' = depth + 1
  /\ UNCHANGED <<client, wire, control, request, sync, steps, manager,
                 DefaultThread, waitSem>>

OnEndCall ==
  /\ pc["script"] = "idle"
  /\ depth > 0
  /\ depth' = depth - 1
  /\ UNCHANGED <<client, wire, control, request, sync, steps, manager,
                 DefaultThread, calls, waitSem>>

\* OnFileParsedSuccessfully: SourceFileLoaded keeps the breakpoint mutex
\* while it sends an event for every breakpoint set before.
OnFileParsedSuccessfully ==
  /\ pc["script"] = "idle"
  /\ ~fileLoaded /\ ~BreakpointMutex
  /\ fileLoaded' = TRUE
  /\ IF Breakpoints = "pending"
       THEN BreakpointMutex' = TRUE /\ GoTo("script", "validate")
       ELSE UNCHANGED <<BreakpointMutex, pc>>
  /\ UNCHANGED <<client, wire, held, request, sync, steps, Breakpoints,
                 RaiseExceptions, frames>>

ScriptValidates ==
  /\ pc["script"] = "validate"
  /\ SendOn("script", "running", "validated")
  /\ UNCHANGED <<client, inbox, sent, peerClosed, want, wantDepth, request,
                 sync, steps, manager, frames>>

ScriptValidated ==
  /\ pc["script"] = "validated"
  /\ Breakpoints' = "set"
  /\ BreakpointMutex' = FALSE
  /\ GoTo("script", "idle")
  /\ UNCHANGED <<client, wire, held, request, sync, steps, fileLoaded,
                 RaiseExceptions, frames>>

\* OnBeginFunctionCall: the frame, and whether a breakpoint is hit.
OnBeginFunctionCall ==
  /\ pc["script"] = "idle"
  /\ calls < MaxCalls /\ depth < MaxDepth
  /\ ~BreakpointMutex
  /\ calls' = calls + 1 /\ depth' = depth + 1
  /\ waitSem' \in {FALSE, Breakpoints = "set"}
  /\ GoTo("script", "check")
  /\ UNCHANGED <<client, wire, held, request, sync, steps, manager,
                 DefaultThread>>

StepReached ==
  depth <= NextStepFrom \/ StepInRequest \/ depth <= StepOutDepth

ScriptChecksSteps ==
  /\ pc["script"] = "check"
  /\ IF waitSem \/ StepReached
       THEN ClearStepRequests /\ waitSem' = TRUE
       ELSE UNCHANGED <<steps, waitSem>>
  /\ GoTo("script", "checkPause")
  /\ UNCHANGED <<client, wire, held, request, sync, manager, DefaultThread,
                 depth, calls>>

ScriptChecksPause ==
  /\ pc["script"] = "checkPause"
  /\ IF PauseRequest THEN ClearStepRequests ELSE UNCHANGED steps
  /\ GoTo("script", IF waitSem \/ PauseRequest THEN "stop" ELSE "idle")
  /\ waitSem' = FALSE
  /\ UNCHANGED <<client, wire, held, request, sync, manager, DefaultThread,
                 depth, calls>>

\* OnMessageOutput: a message of a kind the client wants to stop at.
OnMessageOutput ==
  /\ pc["script"] = "idle"
  /\ calls < MaxCalls
  /\ calls' = calls + 1
  /\ RaiseExceptions
  /\ GoTo("script", "stop")
  /\ UNCHANGED <<client, wire, held, request, sync, steps, manager,
                 DefaultThread, depth, waitSem>>

ScriptStops ==
  /\ pc["script"] = "stop"
  /\ SendOn("script", "stopped", "wait")
  /\ UNCHANGED <<client, inbox, sent, peerClosed, want, wantDepth, request,
                 sync, steps, manager, frames>>

\* Mutants: Wait does not take the count down; old step requests are cleared
\* on resuming instead of on stopping.
ScriptContinues_KeepsCount ==
  /\ pc["script"] = "wait"
  /\ ContinueSem > 0
  /\ GoTo("script", "idle")
  /\ UNCHANGED <<client, wire, held, request, sync, steps, manager, frames>>
ScriptContinues_ClearsSteps ==
  /\ pc["script"] = "wait"
  /\ ContinueSem > 0
  /\ ContinueSem' = ContinueSem - 1
  /\ ClearStepRequests
  /\ GoTo("script", "idle")
  /\ UNCHANGED <<client, wire, held, request, SessionActive,
                 ConfigurationDone, Disconnected, manager, frames>>

\* ContinueSem->Wait
ScriptContinues ==
  /\ pc["script"] = "wait"
  /\ ContinueSem > 0
  /\ ContinueSem' = ContinueSem - 1
  /\ GoTo("script", "idle")
  /\ UNCHANGED <<client, wire, held, request, SessionActive,
                 ConfigurationDone, Disconnected, steps, manager, frames>>

\* ReportExitCode, and the destructor.
ReportExitCode ==
  /\ pc["script"] = "idle"
  /\ depth = 0
  /\ DefaultThread' = FALSE
  /\ GoTo("script", "exited")
  /\ UNCHANGED <<client, wire, held, request, sync, steps, manager, depth,
                 calls, waitSem>>

\* The three events, if the session is active before the first.
ScriptReportsExit ==
  /\ pc["script"] = "exited"
  /\ GoTo("script", IF SessionActive THEN "event1" ELSE "disconnected")
  /\ UNCHANGED <<client, wire, held, request, sync, steps, manager,
                 frames>>

ScriptSendsExit ==
  /\ \/ pc["script"] = "event1" /\ SendOn("script", "running", "event2")
     \/ pc["script"] = "event2" /\ SendOn("script", "running", "event3")
     \/ pc["script"] = "event3" /\ SendOn("script", "running", "disconnected")
  /\ UNCHANGED <<client, inbox, sent, peerClosed, want, wantDepth, request,
                 sync, steps, manager, frames>>

ScriptDisconnects ==
  /\ pc["script"] = "disconnected"
  /\ Disconnected
  /\ GoTo("script", "join")
  /\ UNCHANGED <<client, wire, held, request, sync, steps, manager, frames>>

ScriptJoins ==
  /\ pc["script"] = "join"
  /\ pc["session"] = "ended"
  /\ GoTo("script", "finished")
  /\ UNCHANGED <<client, wire, held, request, sync, steps, manager, frames>>

Script ==
  \/ ScriptStarts \/ ScriptAnnounces \/ OnBeginFileParse \/ OnEndCall
  \/ OnFileParsedSuccessfully \/ ScriptValidates \/ ScriptValidated
  \/ OnBeginFunctionCall \/ ScriptChecksSteps \/ ScriptChecksPause
  \/ OnMessageOutput \/ ScriptStops \/ ScriptContinues \/ ReportExitCode
  \/ ScriptReportsExit \/ ScriptSendsExit \/ ScriptDisconnects \/ ScriptJoins
  \/ Leave("script")

Client ==
  \/ ClientConfigured \/ ClientLeaves
  \/ \E r \in Resumes : ClientResumes(r)
  \/ \E r \in {"pause", "inspect", "setBreakpoints", "setExceptions"} :
       ClientAsks(r)

Next == Client \/ Session \/ Script

Spec == Init /\ [][Next]_vars

\* Both threads keep running, a script comes to its end, and the client
\* configures the session and leaves.
FairSpec ==
  /\ Spec
  /\ WF_vars(Session) /\ WF_vars(Script)
  /\ WF_vars(ClientConfigured) /\ WF_vars(ClientLeaves)

---------------------------------------------------------------------------
(* Properties                                                              *)

\* What the adapter tells the client is true: while the client believes the
\* script stopped it waits on the semaphore, whose count is zero, so that
\* nothing but the client's answer lets it run; and a request that uses
\* DefaultThread without a check finds it set.
StopHolds ==
  /\ view = "stopped" => pc["script"] = "wait" /\ ContinueSem = 0
  /\ pc["session"] \in {"store", "serve"}
       /\ request \in {"inspect", "next", "stepOut"} => DefaultThread

\* The step the client asked for when it last resumed ends here.
StepOwed ==
  /\ view = "running"
  /\ \/ want = "next" /\ depth <= wantDepth
     \/ want = "stepIn"
     \/ want = "stepOut" /\ depth <= wantDepth - 1

\* No step is missed: the script does not pass a function call at which the
\* step the client asked for has ended (the handlers store the request before
\* they raise the semaphore, and the script clears old requests before it
\* tells the client that it stopped).
StepNotMissed ==
  [][pc["script"] = "checkPause" /\ pc'["script"] = "idle" => ~StepOwed]_vars

\* Whatever the two threads are doing when the client leaves, the script runs
\* to its end, the session thread ends and is joined.
EveryoneLeaves == <>(pc["script"] = "finished")
===========================================================================
