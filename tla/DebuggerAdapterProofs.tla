----------------------- MODULE DebuggerAdapterProofs ----------------------
(***************************************************************************)
(* StopHolds and StepNotMissed, for every number of calls, frames and      *)
(* requests, and for every client, also one that leaves early or closes    *)
(* the connection while breakpoints are pending.                           *)
(*                                                                         *)
(* The argument counts credits.  While the client is there, the resume     *)
(* requests in its inbox, the one the session serves and the count of the  *)
(* semaphore come to at most one, and to none unless the script waits and  *)
(* the client has resumed it.                                              *)
(***************************************************************************)
EXTENDS DebuggerAdapter, TLAPS

\* The provers tried on a step that names none.
USE ZenonT(60), SMTT(30)

Requests ==
  Resumes \cup {"configurationDone", "pause", "inspect", "setBreakpoints",
                "setExceptions", "disconnect"}

\* Requests whose handlers use DefaultThread without a check.
Using == {"inspect", "next", "stepOut"}

Leaving == {"clearBreakpoints", "clearExceptions", "clearSteps",
            "leaveNotify", "fire", "inactive"}

\* Where the script has its DefaultThread.
Running == {"started", "idle", "validate", "validated", "check", "checkPause",
            "stop", "wait"}

Labels ==
  Running \cup Leaving \cup
  {"loop", "read", "serve", "store", "notify", "respond", "ended", "config",
   "exited", "event1", "event2", "event3", "disconnected", "join", "finished"}

(* Inboxes, as sets of sequences *)

NoResume == {s \in Seq(Requests) : \A i \in 1..Len(s) : s[i] \notin Resumes}

NoDisconnect ==
  {s \in Seq(Requests) : \A i \in 1..Len(s) : s[i] # "disconnect"}

AtMostOneResume ==
  {s \in Seq(Requests) :
     \A i, j \in 1..Len(s) : s[i] \in Resumes /\ s[j] \in Resumes => i = j}

SomeUse == {s \in Seq(Requests) : \E i \in 1..Len(s) : s[i] \in Using}

\* Nothing that lets the script run comes before a request that uses it.
UsesFirst ==
  {s \in Seq(Requests) :
     \A i, j \in 1..Len(s) :
       s[i] \in Using /\ j < i => s[j] \notin Resumes \cup {"disconnect"}}

\* The resume requests are all w.
Only == [w \in Resumes \cup {"none"} |->
  {s \in Seq(Requests) :
     \A i \in 1..Len(s) : s[i] \in Resumes => s[i] = w}]

---------------------------------------------------------------------------
(* The inductive invariant                                                 *)

TypeInv ==
  /\ inbox \in Seq(Requests)
  /\ view \in {"connecting", "running", "stopped", "gone"}
  /\ pc \in [{"script", "session"} -> Labels]
  /\ ret \in [{"script", "session"} -> Labels]
  /\ ret["session"] \in {"respond", "loop"}
  /\ ContinueSem \in Nat
  /\ open \in BOOLEAN /\ peerClosed \in BOOLEAN
  /\ StepInRequest \in BOOLEAN /\ waitSem \in BOOLEAN
  /\ depth \in Int /\ wantDepth \in Int
  /\ NextStepFrom \in Int /\ StepOutDepth \in Int
  /\ want \in Resumes \cup {"none"}

\* As long as the client is there, nobody ends the session.
Present ==
  view # "gone" =>
    /\ open /\ ~peerClosed
    /\ inbox \in NoDisconnect
    /\ pc["session"] \notin Leaving /\ pc["script"] \notin Leaving

Resuming == pc["session"] \in {"store", "notify"}

Credit ==
  /\ view # "gone" /\ ~(view = "running" /\ pc["script"] = "wait") =>
       inbox \in NoResume /\ ~Resuming /\ ContinueSem = 0
  /\ view = "running" /\ pc["script"] = "wait" =>
       /\ inbox \in AtMostOneResume
       /\ Resuming => inbox \in NoResume /\ ContinueSem = 0
       /\ ContinueSem > 0 => inbox \in NoResume /\ ContinueSem = 1
  /\ view = "stopped" => pc["script"] = "wait"

\* The script waits for as long as requests that use it are to be served.
Used ==
  /\ inbox \in UsesFirst
  /\ open /\ inbox \in SomeUse =>
       /\ pc["script"] = "wait" /\ ContinueSem = 0
       /\ ~Resuming /\ pc["session"] \notin Leaving
  /\ pc["session"] \in {"store", "serve"} /\ request \in Using =>
       pc["script"] = "wait" /\ ContinueSem = 0

Alive ==
  /\ pc["script"] \in Running => DefaultThread
  /\ pc["script"] \in Leaving /\ ret["script"] \in Running => DefaultThread

\* The step the client asked for is where the script looks for it.
Recorded ==
  /\ want = "next" => NextStepFrom = wantDepth
  /\ want = "stepIn" => StepInRequest
  /\ want = "stepOut" => StepOutDepth = wantDepth - 1

Step ==
  /\ view = "connecting" => want = "none"
  /\ view = "running" /\ pc["script"] = "wait" =>
       /\ want # "none" => wantDepth = depth
       /\ inbox \in Only[want]
       /\ Resuming => request = want
       /\ inbox \in NoResume /\ pc["session"] # "store" => Recorded
  /\ view = "running" /\ pc["script"] \notin {"wait", "stop"}
       /\ ~(pc["script"] = "checkPause" /\ waitSem) => Recorded
  /\ view = "running" /\ pc["script"] = "checkPause" /\ ~waitSem => ~StepOwed

IInv == TypeInv /\ Present /\ Credit /\ Used /\ Alive /\ Step
---------------------------------------------------------------------------
(* Lemmas about inboxes                                                    *)

\* The elements of a longer sequence.
LEMMA AppendIndex ==
  ASSUME NEW s \in Seq(Requests), NEW e \in Requests
  PROVE  /\ Append(s, e) \in Seq(Requests)
         /\ Len(Append(s, e)) = Len(s) + 1
         /\ Append(s, e)[Len(s) + 1] = e
         /\ \A i \in 1..Len(s) : Append(s, e)[i] = s[i]
BY SMTT(30)

\* The elements of the rest of a sequence.
LEMMA TailIndex ==
  ASSUME NEW s \in Seq(Requests), s # <<>>
  PROVE  /\ Head(s) \in Requests /\ Tail(s) \in Seq(Requests)
         /\ Head(s) = s[1]
         /\ Len(s) \in Nat /\ Len(s) > 0 /\ Len(Tail(s)) = Len(s) - 1
         /\ \A i \in 1..(Len(s) - 1) : Tail(s)[i] = s[i + 1]
BY SMTT(30)

\* What a new request does to an inbox.
LEMMA AppendBox ==
  ASSUME NEW s \in Seq(Requests), NEW e \in Requests
  PROVE  LET t == Append(s, e) IN
         /\ t \in Seq(Requests)
         /\ s \in NoResume /\ e \notin Resumes => t \in NoResume
         /\ t \in NoResume => s \in NoResume
         /\ s \in NoResume => t \in AtMostOneResume
         /\ s \in AtMostOneResume /\ e \notin Resumes => t \in AtMostOneResume
         /\ s \in NoDisconnect /\ e # "disconnect" => t \in NoDisconnect
         /\ t \in SomeUse => s \in SomeUse \/ e \in Using
         /\ s \in UsesFirst /\ e \notin Using => t \in UsesFirst
         /\ s \in UsesFirst /\ s \in NoResume /\ s \in NoDisconnect =>
              t \in UsesFirst
         /\ \A w \in Resumes \cup {"none"} :
              s \in Only[w] /\ e \notin Resumes => t \in Only[w]
         /\ e \in Resumes /\ s \in NoResume => t \in Only[e]
         /\ e \in Resumes => t \notin NoResume
         /\ \A w \in Resumes \cup {"none"} :
              s \in NoResume /\ e \notin Resumes => t \in Only[w]
<1> DEFINE t == Append(s, e)
<1>1. /\ t \in Seq(Requests) /\ Len(s) \in Nat /\ Len(t) = Len(s) + 1
      /\ t[Len(s) + 1] = e
      /\ \A i \in 1..Len(s) : t[i] = s[i]
  BY AppendIndex, SMTT(30)
<1>2. \A i \in 1..Len(t) : i \in 1..Len(s) \/ i = Len(s) + 1
  BY <1>1, SMTT(30)
<1>3. \A i \in 1..Len(s) : i \in 1..Len(t)
  BY <1>1, SMTT(30)
<1>4. Len(s) + 1 \in 1..Len(t) /\ \A i \in 1..Len(s) : i < Len(s) + 1
  BY <1>1, SMTT(30)
<1> HIDE DEF t
<1>5. s \in NoResume /\ e \notin Resumes => t \in NoResume
  BY <1>1, <1>2 DEF NoResume
<1>6. t \in NoResume => s \in NoResume
  BY <1>1, <1>3 DEF NoResume
<1>7. s \in NoResume => t \in AtMostOneResume
  BY <1>1, <1>2 DEF NoResume, AtMostOneResume
<1>8. s \in AtMostOneResume /\ e \notin Resumes => t \in AtMostOneResume
  BY <1>1, <1>2 DEF AtMostOneResume
<1>9. s \in NoDisconnect /\ e # "disconnect" => t \in NoDisconnect
  BY <1>1, <1>2 DEF NoDisconnect
<1>10. t \in SomeUse => s \in SomeUse \/ e \in Using
  BY <1>1, <1>2 DEF SomeUse
<1>11. s \in UsesFirst /\ e \notin Using => t \in UsesFirst
  BY <1>1, <1>2, SMTT(30) DEF UsesFirst
<1>12. s \in UsesFirst /\ s \in NoResume /\ s \in NoDisconnect =>
         t \in UsesFirst
  BY <1>1, <1>2, SMTT(30) DEF UsesFirst, NoResume, NoDisconnect
<1>13. \A w \in Resumes \cup {"none"} :
         s \in Only[w] /\ e \notin Resumes => t \in Only[w]
  BY <1>1, <1>2 DEF Only
<1>14. e \in Resumes /\ s \in NoResume => t \in Only[e]
  BY <1>1, <1>2 DEF Only, NoResume
<1>15. e \in Resumes => t \notin NoResume
  BY <1>1, <1>4 DEF NoResume
<1>16. \A w \in Resumes \cup {"none"} :
         s \in NoResume /\ e \notin Resumes => t \in Only[w]
  BY <1>1, <1>2 DEF Only, NoResume
<1> QED
  BY <1>1, <1>5, <1>6, <1>7, <1>8, <1>9, <1>10, <1>11, <1>12, <1>13, <1>14,
     <1>15, <1>16 DEF t

\* What taking a request does to an inbox.
LEMMA TailBox ==
  ASSUME NEW s \in Seq(Requests), s # <<>>
  PROVE  LET t == Tail(s)
             r == Head(s) IN
         /\ t \in Seq(Requests) /\ r \in Requests
         /\ s \in NoResume => r \notin Resumes /\ t \in NoResume
         /\ r \notin Resumes /\ t \in NoResume => s \in NoResume
         /\ s \in AtMostOneResume => t \in AtMostOneResume
         /\ s \in AtMostOneResume /\ r \in Resumes => t \in NoResume
         /\ s \in NoDisconnect => r # "disconnect" /\ t \in NoDisconnect
         /\ t \in SomeUse => s \in SomeUse
         /\ r \in Using => s \in SomeUse
         /\ s \in UsesFirst => t \in UsesFirst
         /\ s \in UsesFirst /\ r \in Resumes \cup {"disconnect"} =>
              t \notin SomeUse
         /\ \A w \in Resumes \cup {"none"} :
              s \in Only[w] => t \in Only[w] /\ (r \in Resumes => r = w)
<1> DEFINE t == Tail(s)
           r == Head(s)
<1>1. /\ t \in Seq(Requests) /\ r \in Requests /\ r = s[1]
      /\ Len(s) \in Nat /\ Len(s) > 0 /\ Len(t) = Len(s) - 1
      /\ \A i \in 1..(Len(s) - 1) : t[i] = s[i + 1]
  BY TailIndex
<1>2. /\ 1 \in 1..Len(s)
      /\ \A i \in 1..Len(t) : i + 1 \in 1..Len(s) /\ t[i] = s[i + 1]
                              /\ 1 < i + 1 /\ i \in Int
  BY <1>1, SMTT(30)
<1>3. \A i \in 1..Len(s) : i = 1 \/ (i - 1 \in 1..Len(t) /\ s[i] = t[i - 1])
  BY <1>1, SMTT(30)
<1> HIDE DEF t, r
<1>4. s \in NoResume => r \notin Resumes /\ t \in NoResume
  BY <1>1, <1>2 DEF NoResume
<1>5. r \notin Resumes /\ t \in NoResume => s \in NoResume
  BY <1>1, <1>3 DEF NoResume
<1>6. s \in AtMostOneResume => t \in AtMostOneResume
  BY <1>1, <1>2, SMTT(30) DEF AtMostOneResume
<1>7. s \in AtMostOneResume /\ r \in Resumes => t \in NoResume
  BY <1>1, <1>2, SMTT(30) DEF AtMostOneResume, NoResume
<1>8. s \in NoDisconnect => r # "disconnect" /\ t \in NoDisconnect
  BY <1>1, <1>2 DEF NoDisconnect
<1>9. t \in SomeUse => s \in SomeUse
  BY <1>1, <1>2 DEF SomeUse
<1>10. r \in Using => s \in SomeUse
  BY <1>1, <1>2 DEF SomeUse
<1>11. s \in UsesFirst => t \in UsesFirst
  BY <1>1, <1>2, SMTT(30) DEF UsesFirst
<1>12. s \in UsesFirst /\ r \in Resumes \cup {"disconnect"} =>
         t \notin SomeUse
  BY <1>1, <1>2 DEF UsesFirst, SomeUse
<1>13. \A w \in Resumes \cup {"none"} :
         s \in Only[w] => t \in Only[w] /\ (r \in Resumes => r = w)
  BY <1>1, <1>2 DEF Only
<1> QED
  BY <1>1, <1>4, <1>5, <1>6, <1>7, <1>8, <1>9, <1>10, <1>11, <1>12, <1>13
  DEF t, r

\* Where the session goes with a request.
LEMMA HandlerLabel ==
  ASSUME NEW r \in Requests
  PROVE  /\ Handler(r) \in {"store", "notify", "clearBreakpoints", "serve"}
         /\ Handler(r) \in {"store", "notify"} <=> r \in Resumes
         /\ Handler(r) = "notify" <=> r = "continue"
         /\ Handler(r) = "clearBreakpoints" <=> r = "disconnect"
BY DEF Handler, Requests, Resumes
---------------------------------------------------------------------------
(* Every action preserves the invariant                                    *)

USE DEF wire, control, held, sync, steps, manager, frames

\* The client sends configurationDone.
LEMMA ClientConfiguredKeeps == ASSUME IInv, ClientConfigured PROVE IInv'
<1>1. /\ inbox \in Seq(Requests)
      /\ inbox' = Append(inbox, "configurationDone")
      /\ "configurationDone" \in Requests
  BY DEF IInv, TypeInv, ClientConfigured, Send, Requests
<1>2. /\ inbox' \in Seq(Requests)
      /\ inbox \in AtMostOneResume => inbox' \in AtMostOneResume
      /\ inbox \in NoResume => inbox' \in NoResume
      /\ inbox' \in NoResume => inbox \in NoResume
      /\ \A w \in Resumes \cup {"none"} :
           inbox \in Only[w] => inbox' \in Only[w]
      /\ inbox \in NoDisconnect => inbox' \in NoDisconnect
      /\ inbox \in NoResume => inbox' \in AtMostOneResume
      /\ \A w \in Resumes \cup {"none"} :
           inbox \in NoResume => inbox' \in Only[w]
      /\ inbox' \in SomeUse => inbox \in SomeUse
      /\ inbox \in UsesFirst => inbox' \in UsesFirst
  BY <1>1, AppendBox, SMTT(30) DEF Using, Resumes
<1>3. TypeInv'
  BY <1>1, <1>2 DEF IInv, TypeInv, ClientConfigured
<1>4. (Present /\ Alive)'
  BY <1>1, <1>2 DEF IInv, Present, Alive, ClientConfigured
<1>5. (Credit /\ Used)'
  BY <1>1, <1>2, SMTT(30) DEF IInv, Credit, Used, Resuming, ClientConfigured
<1>6. Step'
  BY <1>1, <1>2 DEF IInv, Step, Credit, Recorded, Resuming, StepOwed,
     ClientConfigured
<1> QED
  BY <1>3, <1>4, <1>5, <1>6 DEF IInv

\* The client resumes the stopped script: the one credit.
LEMMA ClientResumesKeeps ==
  ASSUME IInv, NEW r \in Resumes, ClientResumes(r) PROVE IInv'
<1>1. /\ inbox \in Seq(Requests)
      /\ inbox' = Append(inbox, r) /\ r \in Requests
  BY DEF IInv, TypeInv, ClientResumes, Send, Requests
<1>2. /\ inbox' \in Seq(Requests)
      /\ inbox \in NoResume =>
           inbox' \in AtMostOneResume /\ inbox' \in Only[r]
      /\ inbox' \notin NoResume
      /\ inbox \in NoDisconnect => inbox' \in NoDisconnect
      /\ inbox \in UsesFirst /\ inbox \in NoResume /\ inbox \in NoDisconnect =>
           inbox' \in UsesFirst
      /\ r \in Requests
  BY <1>1, AppendBox DEF Resumes
<1>3. TypeInv'
  BY <1>1, <1>2 DEF IInv, TypeInv, ClientResumes
<1>4. (Present /\ Alive)'
  BY <1>1, <1>2 DEF IInv, Present, Alive, ClientResumes
<1>5. (Credit /\ Used)'
  BY <1>1, <1>2, SMTT(30)
  DEF IInv, Present, Credit, Used, Resuming, ClientResumes
<1>6. Step'
  BY <1>1, <1>2 DEF IInv, Step, Credit, Resuming, ClientResumes
<1> QED
  BY <1>3, <1>4, <1>5, <1>6 DEF IInv

\* A request that resumes nothing; inspect is only sent to a stopped script.
LEMMA ClientAsksKeeps ==
  ASSUME IInv,
         NEW r \in {"pause", "inspect", "setBreakpoints", "setExceptions"},
         ClientAsks(r)
  PROVE  IInv'
<1>1. /\ inbox \in Seq(Requests)
      /\ inbox' = Append(inbox, r) /\ r \in Requests
  BY DEF IInv, TypeInv, ClientAsks, Send, Requests
<1>2. /\ inbox' \in Seq(Requests)
      /\ inbox \in AtMostOneResume => inbox' \in AtMostOneResume
      /\ inbox \in NoResume => inbox' \in NoResume
      /\ inbox' \in NoResume => inbox \in NoResume
      /\ \A w \in Resumes \cup {"none"} :
           inbox \in Only[w] => inbox' \in Only[w]
      /\ inbox \in NoDisconnect => inbox' \in NoDisconnect
      /\ inbox' \in SomeUse => inbox \in SomeUse \/ r = "inspect"
      /\ inbox \in UsesFirst /\ r # "inspect" => inbox' \in UsesFirst
      /\ inbox \in UsesFirst /\ inbox \in NoResume /\ inbox \in NoDisconnect =>
           inbox' \in UsesFirst
  BY <1>1, AppendBox DEF Using, Resumes
<1>3. TypeInv'
  BY <1>1, <1>2 DEF IInv, TypeInv, ClientAsks
<1>4. (Present /\ Alive)'
  BY <1>1, <1>2 DEF IInv, Present, Alive, ClientAsks
<1>5. (Credit /\ Used)'
  BY <1>1, <1>2 DEF IInv, Present, Credit, Used, Resuming, ClientAsks
<1>6. Step'
  BY <1>1, <1>2 DEF IInv, TypeInv, Step, Recorded, Resuming, StepOwed,
     ClientAsks
<1> QED
  BY <1>3, <1>4, <1>5, <1>6 DEF IInv

\* The client disconnects or closes the connection.
LEMMA ClientLeavesKeeps == ASSUME IInv, ClientLeaves PROVE IInv'
<1>1. /\ view' = "gone" /\ peerClosed' \in BOOLEAN
      /\ \/ inbox' = inbox
         \/ inbox' = Append(inbox, "disconnect") /\ "disconnect" \in Requests
  BY DEF IInv, TypeInv, ClientLeaves, Send, Requests
<1>2. /\ inbox' \in Seq(Requests)
      /\ inbox' \in SomeUse => inbox \in SomeUse
      /\ inbox \in UsesFirst => inbox' \in UsesFirst
  <2>1. CASE inbox' = inbox
    BY <2>1 DEF IInv, TypeInv
  <2>2. CASE inbox' = Append(inbox, "disconnect")
    <3>1. inbox \in Seq(Requests) /\ "disconnect" \in Requests
      BY DEF IInv, TypeInv, Requests
    <3> QED
      BY <2>2, <3>1, AppendBox DEF Using
  <2> QED
    BY <1>1, <2>1, <2>2
<1>3. TypeInv'
  BY <1>1, <1>2 DEF IInv, TypeInv, ClientLeaves
<1>4. (Present /\ Alive)'
  BY <1>1, <1>2 DEF IInv, Present, Alive, ClientLeaves
<1>5. (Credit /\ Used)'
  BY <1>1, <1>2 DEF IInv, Credit, Used, Resuming, ClientLeaves
<1>6. Step'
  BY <1>1, <1>2 DEF Step
<1> QED
  BY <1>3, <1>4, <1>5, <1>6 DEF IInv

\* A thread on its way out of the session.
LEMMA LeaveStep ==
  ASSUME IInv, NEW th \in {"script", "session"}, pc[th] \in Leaving,
         NEW label, label \in Leaving \/ label = ret[th],
         pc' = [pc EXCEPT ![th] = label],
         ContinueSem' \in Nat, StepInRequest' \in BOOLEAN,
         NextStepFrom' \in Int, StepOutDepth' \in Int,
         UNCHANGED <<wire, ret, request, frames>>
  PROVE  IInv'
<1>1. /\ pc' \in [{"script", "session"} -> Labels]
      /\ pc'[th] = label
      /\ \A u \in {"script", "session"} \ {th} : pc'[u] = pc[u]
  BY DEF IInv, TypeInv, Labels
<1>2. view = "gone" /\ view' = "gone"
  BY DEF IInv, Present
<1>3. TypeInv'
  BY <1>1, <1>2 DEF IInv, TypeInv
<1>4. (Present /\ Alive)'
  BY <1>1, <1>2 DEF IInv, Present, Alive, Leaving, Running
<1>5. (Credit /\ Used)'
  BY <1>1, <1>2 DEF IInv, TypeInv, Credit, Used, Leaving
<1>6. Step'
  BY <1>1, <1>2 DEF Step
<1> QED
  BY <1>3, <1>4, <1>5, <1>6 DEF IInv

\* The steps that end the session run only after the client left.
LEMMA LeaveClearBreakpointsKeeps ==
  ASSUME IInv, NEW th \in {"script", "session"}, LeaveClearBreakpoints(th)
  PROVE  IInv'
BY LeaveStep DEF IInv, TypeInv, LeaveClearBreakpoints, GoTo,
   Leaving

\* Clearing the exception filters.
LEMMA LeaveClearExceptionsKeeps ==
  ASSUME IInv, NEW th \in {"script", "session"}, LeaveClearExceptions(th)
  PROVE  IInv'
BY LeaveStep DEF IInv, TypeInv, LeaveClearExceptions, GoTo, Leaving

\* Clearing the step requests: no step is owed to a client that left.
LEMMA LeaveClearStepsKeeps ==
  ASSUME IInv, NEW th \in {"script", "session"},
  LeaveClearSteps(th) PROVE IInv'
<1>1. StepInRequest' \in BOOLEAN
  BY DEF LeaveClearSteps, ClearStepRequests
<1>2. NextStepFrom' \in Int /\ StepOutDepth' \in Int /\ ContinueSem' \in Nat
  BY SMTT(30) DEF IInv, TypeInv, LeaveClearSteps, ClearStepRequests, NoStep
<1> QED
  BY <1>1, <1>2, LeaveStep DEF LeaveClearSteps, GoTo, Leaving

\* The extra count of the semaphore: nobody is told of stops any more.
LEMMA LeaveNotifyKeeps ==
  ASSUME IInv, NEW th \in {"script", "session"}, LeaveNotify(th) PROVE IInv'
<1>1. StepInRequest' \in BOOLEAN
  BY DEF IInv, TypeInv, LeaveNotify
<1>2. NextStepFrom' \in Int /\ StepOutDepth' \in Int /\ ContinueSem' \in Nat
  BY SMTT(30) DEF IInv, TypeInv, LeaveNotify
<1> QED
  BY <1>1, <1>2, LeaveStep DEF LeaveNotify, GoTo, Leaving

\* Firing DisconnectEvent.
LEMMA LeaveFireKeeps ==
  ASSUME IInv, NEW th \in {"script", "session"}, LeaveFire(th) PROVE IInv'
BY LeaveStep DEF IInv, TypeInv, LeaveFire, GoTo, Leaving

\* The thread goes back to where it sent from.
LEMMA LeaveInactiveKeeps ==
  ASSUME IInv, NEW th \in {"script", "session"}, LeaveInactive(th) PROVE IInv'
BY LeaveStep DEF IInv, TypeInv, LeaveInactive, GoTo, Leaving

\* What a step that neither sends, resumes nor steps leaves alone.
CreditsStay ==
  UNCHANGED <<wire, ret, request, ContinueSem, NextStepFrom, StepInRequest,
              StepOutDepth>>

\* The session thread moves between requests, or past one that resumes
\* nothing.
SessionPasses ==
  /\ pc["session"] \in {"loop", "serve"}
  /\ pc' \in [{"script", "session"} -> Labels]
  /\ pc'["session"] \in {"read", "ended", "respond"}
  /\ pc'["script"] = pc["script"]
  /\ CreditsStay
  /\ UNCHANGED <<DefaultThread, depth, waitSem>>

\* Such a move keeps the invariant.
LEMMA SessionMoves == ASSUME IInv, SessionPasses PROVE IInv'
<1>3. TypeInv'
  BY DEF IInv, TypeInv, SessionPasses, CreditsStay
<1>4. (Present /\ Alive)'
  BY DEF IInv, Present, Alive, Leaving, SessionPasses, CreditsStay
<1>5. (Credit /\ Used)'
  BY DEF IInv, Credit, Used, Resuming, Leaving, SessionPasses, CreditsStay
<1>6. Step'
  BY DEF IInv, Step, Recorded, Resuming, StepOwed, SessionPasses, CreditsStay
<1> QED
  BY <1>3, <1>4, <1>5, <1>6 DEF IInv

\* The loop test of the session thread.
LEMMA SessionLoopsKeeps == ASSUME IInv, SessionLoops PROVE IInv'
<1>1. /\ pc' \in [{"script", "session"} -> Labels]
      /\ pc'["session"] \in {"read", "ended"} /\ pc'["script"] = pc["script"]
  BY DEF IInv, TypeInv, Labels, SessionLoops, GoTo
<1>2. pc["session"] = "loop" /\ CreditsStay
  BY DEF SessionLoops, CreditsStay
<1>3. UNCHANGED <<DefaultThread, depth, waitSem>>
  BY DEF SessionLoops
<1> QED
  BY <1>1, <1>2, <1>3, SessionMoves DEF SessionPasses

\* The session takes a request: a credit moves from the inbox to the handler.
LEMMA SessionReadsKeeps == ASSUME IInv, SessionReads PROVE IInv'
<1> DEFINE r == Head(inbox)
<1>1. /\ inbox \in Seq(Requests) /\ inbox # <<>> /\ inbox' = Tail(inbox)
      /\ request' = r
  BY DEF IInv, TypeInv, SessionReads
<1>2. /\ inbox' \in Seq(Requests) /\ r \in Requests
      /\ inbox \in NoResume => r \notin Resumes /\ inbox' \in NoResume
      /\ r \notin Resumes /\ inbox' \in NoResume => inbox \in NoResume
      /\ inbox \in AtMostOneResume => inbox' \in AtMostOneResume
      /\ inbox \in AtMostOneResume /\ r \in Resumes => inbox' \in NoResume
      /\ inbox \in NoDisconnect => r # "disconnect" /\ inbox' \in NoDisconnect
      /\ inbox' \in SomeUse => inbox \in SomeUse
      /\ r \in Using => inbox \in SomeUse
      /\ inbox \in UsesFirst => inbox' \in UsesFirst
      /\ inbox \in UsesFirst /\ r \in Resumes \cup {"disconnect"} =>
           inbox' \notin SomeUse
      /\ \A w \in Resumes \cup {"none"} :
           inbox \in Only[w] => inbox' \in Only[w] /\ (r \in Resumes => r = w)
  BY <1>1, TailBox
<1> DEFINE h == Handler(r)
<1>3. /\ h \in {"store", "notify", "clearBreakpoints", "serve"}
      /\ h \in {"store", "notify"} <=> r \in Resumes
      /\ h = "notify" <=> r = "continue"
      /\ h = "clearBreakpoints" <=> r = "disconnect"
  BY <1>2, HandlerLabel
<1>4. /\ pc' = [pc EXCEPT !["session"] = h]
      /\ ret' = [ret EXCEPT !["session"] = "respond"]
      /\ pc["session"] = "read" /\ open
      /\ UNCHANGED <<view, peerClosed, open, want, wantDepth, sync, steps,
                     frames>>
  BY DEF SessionReads, GoTo
<1> HIDE DEF r, h
<1>5. /\ pc' \in [{"script", "session"} -> Labels]
      /\ pc'["session"] = h /\ pc'["script"] = pc["script"]
      /\ ret' \in [{"script", "session"} -> Labels]
      /\ ret'["session"] = "respond" /\ ret'["script"] = ret["script"]
  BY <1>3, <1>4 DEF IInv, TypeInv, Labels, Leaving
<1>6. TypeInv'
  BY <1>1, <1>2, <1>3, <1>4, <1>5 DEF IInv, TypeInv
<1>7. (Present /\ Alive)'
  BY <1>1, <1>2, <1>3, <1>4, <1>5 DEF IInv, Present, Alive, Leaving
<1>8. (Credit /\ Used)'
  BY <1>1, <1>2, <1>3, <1>4, <1>5, SMTT(30)
  DEF IInv, TypeInv, Credit, Used, Resuming,
     Leaving
<1>9. Step'
  BY <1>1, <1>2, <1>3, <1>4, <1>5 DEF IInv, TypeInv, Step, Recorded,
     Resuming, StepOwed
<1> QED
  BY <1>6, <1>7, <1>8, <1>9 DEF IInv

\* The read fails: the client has left.
LEMMA SessionFindsClosedKeeps == ASSUME IInv, SessionFindsClosed PROVE IInv'
<1>1. /\ pc' \in [{"script", "session"} -> Labels]
      /\ pc'["session"] = "clearBreakpoints"
      /\ pc'["script"] = pc["script"]
  BY DEF IInv, TypeInv, Labels, Leaving, SessionFindsClosed, GoTo
<1>2. /\ open' \in BOOLEAN /\ ~open'
      /\ ret' \in [{"script", "session"} -> Labels]
      /\ ret'["session"] = "loop" /\ ret'["script"] = ret["script"]
  BY <1>1 DEF IInv, TypeInv, SessionFindsClosed, Labels
<1>3. TypeInv'
  BY <1>1, <1>2 DEF IInv, TypeInv, SessionFindsClosed
<1>4. (Present /\ Alive)'
  BY <1>1, <1>2 DEF IInv, Present, Alive, SessionFindsClosed
<1>5. (Credit /\ Used)'
  BY <1>1, <1>2 DEF IInv, Credit, Used, Resuming, SessionFindsClosed
<1>6. Step'
  BY <1>1, <1>2 DEF IInv, Step, Recorded, Resuming, StepOwed,
     SessionFindsClosed
<1> QED
  BY <1>3, <1>4, <1>5, <1>6 DEF IInv

\* A handler of one step.
LEMMA SessionServesKeeps == ASSUME IInv, SessionServes PROVE IInv'
<1>1. /\ pc' \in [{"script", "session"} -> Labels]
      /\ pc'["session"] = "respond" /\ pc'["script"] = pc["script"]
  BY DEF IInv, TypeInv, Labels, SessionServes, GoTo
<1>2. pc["session"] = "serve" /\ CreditsStay
  BY DEF SessionServes, CreditsStay, HandleSetBreakpoints,
     HandleSetExceptions, HandlePause, HandleConfigurationDone
<1>3. UNCHANGED <<DefaultThread, depth, waitSem>>
  BY DEF SessionServes
<1> QED
  BY <1>1, <1>2, <1>3, SessionMoves DEF SessionPasses

\* The step is recorded with the depth the client saw.
LEMMA SessionStoresStepKeeps == ASSUME IInv, SessionStoresStep PROVE IInv'
<1>1. /\ pc' \in [{"script", "session"} -> Labels]
      /\ pc'["session"] = "notify" /\ pc'["script"] = pc["script"]
  BY DEF IInv, TypeInv, Labels, SessionStoresStep, GoTo
<1>2. /\ pc["session"] = "store"
      /\ NextStepFrom' = IF request = "next" THEN depth ELSE NextStepFrom
      /\ StepInRequest' = (request = "stepIn" \/ StepInRequest)
      /\ StepOutDepth' = IF request = "stepOut" THEN depth - 1
                                                ELSE StepOutDepth
      /\ UNCHANGED <<wire, ret, request, DefaultThread, depth, waitSem,
                     ContinueSem>>
  BY DEF SessionStoresStep
<1>3. TypeInv'
  BY <1>1, <1>2, SMTT(30) DEF IInv, TypeInv
<1>4. (Present /\ Alive)'
  BY <1>1, <1>2 DEF IInv, Present, Alive, Leaving
<1>5. (Credit /\ Used)'
  BY <1>1, <1>2 DEF IInv, Credit, Used, Resuming
<1>6. Step'
  BY <1>1, <1>2 DEF IInv, Step, Credit, Recorded, Resuming
<1> QED
  BY <1>3, <1>4, <1>5, <1>6 DEF IInv

\* The credit moves from the handler to the semaphore.
LEMMA SessionNotifiesKeeps == ASSUME IInv, SessionNotifies PROVE IInv'
<1>1. /\ pc' \in [{"script", "session"} -> Labels]
      /\ pc'["session"] = "respond" /\ pc'["script"] = pc["script"]
  BY DEF IInv, TypeInv, Labels, SessionNotifies, GoTo
<1>2. /\ pc["session"] = "notify" /\ ContinueSem' = ContinueSem + 1
      /\ UNCHANGED <<wire, ret, request, DefaultThread, depth, waitSem>>
      /\ UNCHANGED <<NextStepFrom, StepInRequest, StepOutDepth>>
  BY DEF SessionNotifies
<1>3. TypeInv'
  BY <1>1, <1>2, SMTT(30) DEF IInv, TypeInv
<1>4. (Present /\ Alive)'
  BY <1>1, <1>2 DEF IInv, Present, Alive, Leaving
<1>5. (Credit /\ Used)'
  BY <1>1, <1>2, SMTT(30) DEF IInv, Credit, Used, Resuming
<1>6. Step'
  BY <1>1, <1>2 DEF IInv, Step, Recorded, Resuming, StepOwed
<1> QED
  BY <1>3, <1>4, <1>5, <1>6 DEF IInv

\* The response, perhaps to a closed connection.
LEMMA SessionRespondsKeeps == ASSUME IInv, SessionResponds PROVE IInv'
<1>1. CASE ~open
  <2>1. /\ pc' \in [{"script", "session"} -> Labels]
        /\ pc'["session"] = "clearBreakpoints"
        /\ pc'["script"] = pc["script"]
        /\ ret' \in [{"script", "session"} -> Labels]
        /\ ret'["session"] = "loop" /\ ret'["script"] = ret["script"]
        /\ open' = open /\ view' = view
    BY <1>1, SMTT(30)
    DEF IInv, TypeInv, Labels, Leaving, SessionResponds, SendOn, GoTo
  <2>2. view = "gone" /\ ~open
    BY <1>1 DEF IInv, Present
  <2>3. TypeInv'
    BY <2>1, <2>2 DEF IInv, TypeInv, SessionResponds
  <2>4. (Present /\ Alive)'
    BY <2>1, <2>2 DEF IInv, Present, Alive, SessionResponds
  <2>5. (Credit /\ Used)'
    BY <2>1, <2>2 DEF IInv, Credit, Used, SessionResponds
  <2>6. Step'
    BY <2>1, <2>2 DEF Step
  <2> QED
    BY <2>3, <2>4, <2>5, <2>6 DEF IInv
<1>2. CASE open
  <2>1. /\ pc' \in [{"script", "session"} -> Labels]
        /\ pc'["session"] = "loop"
        /\ pc'["script"] = pc["script"]
        /\ ret' = ret /\ open' \in BOOLEAN
        /\ open' <=> ~peerClosed
        /\ view' = view
    BY <1>2 DEF IInv, TypeInv, Labels, Running, Leaving,
       SessionResponds,
            SendOn, GoTo
  <2>2. open
    BY <1>2
  <2>3. TypeInv'
    BY <2>1, <2>2 DEF IInv, TypeInv, SessionResponds
  <2>4. (Present /\ Alive)'
    BY <2>1, <2>2 DEF IInv, Present, Alive, Leaving, SessionResponds
  <2>5. (Credit /\ Used)'
    BY <2>1, <2>2 DEF IInv, Credit, Used, Resuming, Leaving, SessionResponds
  <2>6. Step'
    BY <2>1, <2>2 DEF IInv, Step, Recorded, Resuming, StepOwed,
       SessionResponds
  <2> QED
    BY <2>3, <2>4, <2>5, <2>6 DEF IInv
<1> QED
  BY <1>1, <1>2 DEF IInv, TypeInv

\* The script thread moves while it is neither stopped nor checking for a
\* stop, and leaves the credits and the step requests alone.
ScriptPasses ==
  /\ pc["script"] \in {"config", "idle", "validated", "exited",
                       "disconnected", "join"}
  /\ pc' \in [{"script", "session"} -> Labels]
  /\ pc'["script"] \in {"started", "idle", "validate", "check", "stop",
                        "exited", "event1", "disconnected", "join",
                        "finished"}
  /\ pc'["session"] = pc["session"]
  /\ pc'["script"] \in Running => DefaultThread'
  /\ depth' \in Int /\ waitSem' \in BOOLEAN
  /\ CreditsStay

\* Such a move keeps the invariant.
LEMMA ScriptMoves == ASSUME IInv, ScriptPasses PROVE IInv'
<1>3. TypeInv'
  BY DEF IInv, TypeInv, ScriptPasses, CreditsStay
<1>4. (Present /\ Alive)'
  BY DEF IInv, Present, Alive, Leaving, ScriptPasses, CreditsStay
<1>5. (Credit /\ Used)'
  BY DEF IInv, Credit, Used, Resuming, ScriptPasses, CreditsStay
<1>6. Step'
  BY DEF IInv, Step, Recorded, ScriptPasses, CreditsStay
<1> QED
  BY <1>3, <1>4, <1>5, <1>6 DEF IInv

\* The script thread is created.
LEMMA ScriptStartsKeeps == ASSUME IInv, ScriptStarts PROVE IInv'
<1>1. DefaultThread' /\ waitSem' \in BOOLEAN /\ depth' \in Int
  BY DEF IInv, TypeInv, ScriptStarts
<1>2. pc["script"] = "config" /\ CreditsStay
  BY DEF ScriptStarts, CreditsStay
<1>3. /\ pc' \in [{"script", "session"} -> Labels]
      /\ pc'["script"] = "started" /\ pc'["session"] = pc["session"]
  BY DEF IInv, TypeInv, Labels, Running, ScriptStarts, GoTo
<1> QED
  BY <1>1, <1>2, <1>3, ScriptMoves DEF ScriptPasses

\* The script thread sends an event.
LEMMA ScriptSends ==
  ASSUME IInv, NEW seen, NEW next, SendOn("script", seen, next),
         \/ pc["script"] = "stop" /\ seen = "stopped" /\ next = "wait"
         \/ /\ pc["script"] \in {"started", "validate"} /\ seen = "running"
            /\ next \in {"idle", "validated"}
         \/ /\ pc["script"] \in {"event1", "event2", "event3"}
            /\ seen = "running"
            /\ next \in {"event2", "event3", "disconnected"},
         UNCHANGED <<inbox, peerClosed, want, wantDepth, request, sync, steps,
                     frames>>
  PROVE  IInv'
<1>1. CASE ~open
  <2>1. /\ pc' \in [{"script", "session"} -> Labels]
        /\ pc'["script"] = "clearBreakpoints"
        /\ pc'["session"] = pc["session"]
        /\ ret' \in [{"script", "session"} -> Labels]
        /\ ret'["script"] = next /\ ret'["session"] = ret["session"]
        /\ open' = open /\ view' = view
    BY <1>1, SMTT(30) DEF IInv, TypeInv, Labels, Running, Leaving, SendOn, GoTo
  <2>2. view = "gone"
    BY <1>1 DEF IInv, Present
  <2>3. TypeInv'
    BY <2>1, <2>2 DEF IInv, TypeInv
  <2>4. (Present /\ Alive)'
    BY <2>1, <2>2 DEF IInv, Present, Alive, Running
  <2>5. (Credit /\ Used)'
    BY <2>1, <2>2 DEF IInv, Credit, Used
  <2>6. Step'
    BY <2>1, <2>2 DEF Step
  <2> QED
    BY <2>3, <2>4, <2>5, <2>6 DEF IInv
<1>2. CASE open
  <2>1. /\ pc' \in [{"script", "session"} -> Labels]
        /\ pc'["script"] = next
        /\ pc'["session"] = pc["session"]
        /\ ret' = ret /\ open' \in BOOLEAN
        /\ open' <=> ~peerClosed
        /\ view' = IF view = "running" THEN seen ELSE view
    BY <1>2 DEF IInv, TypeInv, Labels, Running, Leaving, SendOn,
       GoTo
  <2>2. open
    BY <1>2
  <2>3. TypeInv'
    BY <2>1, <2>2 DEF IInv, TypeInv
  <2>4. (Present /\ Alive)'
    BY <2>1, <2>2 DEF IInv, Present, Alive, Leaving, Running
  <2>5. (Credit /\ Used)'
    BY <2>1, <2>2 DEF IInv, Credit, Used, Resuming
  <2>6. Step'
    BY <2>1, <2>2 DEF IInv, Step, Recorded
  <2> QED
    BY <2>3, <2>4, <2>5, <2>6 DEF IInv
<1> QED
  BY <1>1, <1>2 DEF IInv, TypeInv

\* The started event.
LEMMA ScriptAnnouncesKeeps == ASSUME IInv, ScriptAnnounces PROVE IInv'
BY ScriptSends DEF ScriptAnnounces

\* A frame is pushed without a stop.
LEMMA OnBeginFileParseKeeps == ASSUME IInv, OnBeginFileParse PROVE IInv'
<1>1. DefaultThread' /\ waitSem' \in BOOLEAN /\ depth' \in Int
  BY SMTT(30) DEF IInv, TypeInv, Alive, Running, OnBeginFileParse
<1>2. pc["script"] = "idle" /\ CreditsStay
  BY DEF OnBeginFileParse, CreditsStay
<1>3. /\ pc' \in [{"script", "session"} -> Labels]
      /\ pc'["script"] = "idle" /\ pc'["session"] = pc["session"]
  BY DEF IInv, TypeInv, OnBeginFileParse
<1> QED
  BY <1>1, <1>2, <1>3, ScriptMoves DEF ScriptPasses

\* A frame is popped.
LEMMA OnEndCallKeeps == ASSUME IInv, OnEndCall PROVE IInv'
<1>1. DefaultThread' /\ waitSem' \in BOOLEAN /\ depth' \in Int
  BY SMTT(30) DEF IInv, TypeInv, Alive, Running, OnEndCall
<1>2. pc["script"] = "idle" /\ CreditsStay
  BY DEF OnEndCall, CreditsStay
<1>3. /\ pc' \in [{"script", "session"} -> Labels]
      /\ pc'["script"] = "idle" /\ pc'["session"] = pc["session"]
  BY DEF IInv, TypeInv, OnEndCall
<1> QED
  BY <1>1, <1>2, <1>3, ScriptMoves DEF ScriptPasses

\* The script takes the breakpoint mutex or goes on.
LEMMA OnFileParsedSuccessfullyKeeps ==
  ASSUME IInv, OnFileParsedSuccessfully PROVE IInv'
<1>1. DefaultThread' /\ waitSem' \in BOOLEAN /\ depth' \in Int
  BY DEF IInv, TypeInv, Alive, Running, OnFileParsedSuccessfully
<1>2. pc["script"] = "idle" /\ CreditsStay
  BY DEF OnFileParsedSuccessfully, CreditsStay
<1>3. /\ pc' \in [{"script", "session"} -> Labels]
      /\ pc'["script"] \in {"idle", "validate"} /\ pc'["session"] = pc["session"]
  BY DEF IInv, TypeInv, Labels, Running, OnFileParsedSuccessfully, GoTo
<1> QED
  BY <1>1, <1>2, <1>3, ScriptMoves DEF ScriptPasses

\* The event of a pending breakpoint.
LEMMA ScriptValidatesKeeps == ASSUME IInv, ScriptValidates PROVE IInv'
BY ScriptSends DEF ScriptValidates

\* The breakpoint mutex is given back.
LEMMA ScriptValidatedKeeps == ASSUME IInv, ScriptValidated PROVE IInv'
<1>1. DefaultThread' /\ waitSem' \in BOOLEAN /\ depth' \in Int
  BY DEF IInv, TypeInv, Alive, Running, ScriptValidated
<1>2. pc["script"] = "validated" /\ CreditsStay
  BY DEF ScriptValidated, CreditsStay
<1>3. /\ pc' \in [{"script", "session"} -> Labels]
      /\ pc'["script"] = "idle" /\ pc'["session"] = pc["session"]
  BY DEF IInv, TypeInv, Labels, Running, ScriptValidated, GoTo
<1> QED
  BY <1>1, <1>2, <1>3, ScriptMoves DEF ScriptPasses

\* A function call begins.
LEMMA OnBeginFunctionCallKeeps == ASSUME IInv, OnBeginFunctionCall PROVE IInv'
<1>1. waitSem' \in BOOLEAN
  BY DEF OnBeginFunctionCall
<1>2. DefaultThread' /\ depth' \in Int
  BY SMTT(30) DEF IInv, Alive, Running, OnBeginFunctionCall
<1>3. pc["script"] = "idle" /\ CreditsStay
  BY DEF OnBeginFunctionCall, CreditsStay
<1>4. /\ pc' \in [{"script", "session"} -> Labels]
      /\ pc'["script"] = "check" /\ pc'["session"] = pc["session"]
  BY DEF IInv, TypeInv, Labels, Running, OnBeginFunctionCall, GoTo
<1> QED
  BY <1>1, <1>2, <1>3, <1>4, ScriptMoves DEF ScriptPasses

\* If no step is reached here, none is owed here: Recorded says so.
LEMMA ScriptChecksStepsKeeps == ASSUME IInv, ScriptChecksSteps PROVE IInv'
<1>1. /\ pc' \in [{"script", "session"} -> Labels]
      /\ pc'["script"] = "checkPause"
      /\ pc'["session"] = pc["session"]
  BY DEF IInv, TypeInv, Labels, Running, ScriptChecksSteps, GoTo
<1>2. /\ StepInRequest' \in BOOLEAN /\ waitSem' \in BOOLEAN
      /\ NextStepFrom' \in Int /\ StepOutDepth' \in Int
  <2>1. StepInRequest' \in BOOLEAN
    BY DEF IInv, TypeInv, ClearStepRequests, NoStep,
       ScriptChecksSteps
  <2>2. waitSem' \in BOOLEAN
    BY DEF IInv, TypeInv, ClearStepRequests, NoStep,
       ScriptChecksSteps
  <2>3. NextStepFrom' \in Int /\ StepOutDepth' \in Int
    BY SMTT(30) DEF IInv, TypeInv, ClearStepRequests, NoStep, ScriptChecksSteps
  <2> QED
    BY <2>1, <2>2, <2>3
<1>3. /\ pc["script"] = "check"
      /\ UNCHANGED <<wire, ret, request, ContinueSem, DefaultThread, depth>>
  BY DEF ScriptChecksSteps
<1>4. TypeInv'
  BY <1>1, <1>2, <1>3 DEF IInv, TypeInv
<1>5. (Present /\ Alive)'
  BY <1>1, <1>3 DEF IInv, Present, Alive, Leaving, Running
<1>6. (Credit /\ Used)'
  BY <1>1, <1>3 DEF IInv, Credit, Used, Resuming
<1>7. Step'
  <2>1. \/ waitSem'
        \/ /\ UNCHANGED <<NextStepFrom, StepInRequest, StepOutDepth, waitSem>>
           /\ ~StepReached
    BY DEF ScriptChecksSteps
  <2> QED
    BY <1>1, <1>2, <1>3, <2>1 DEF IInv, Step, Recorded, StepOwed, StepReached
<1> QED
  BY <1>4, <1>5, <1>6, <1>7 DEF IInv

\* The script goes on with its step requests, or stops.
LEMMA ScriptChecksPauseKeeps == ASSUME IInv, ScriptChecksPause PROVE IInv'
<1>1. /\ pc' \in [{"script", "session"} -> Labels]
      /\ pc'["script"] = (IF waitSem \/ PauseRequest THEN "stop" ELSE "idle")
      /\ pc'["session"] = pc["session"]
  BY DEF IInv, TypeInv, Labels, Running, ScriptChecksPause, GoTo
<1>2. /\ StepInRequest' \in BOOLEAN /\ waitSem' \in BOOLEAN
      /\ NextStepFrom' \in Int /\ StepOutDepth' \in Int
  <2>1. StepInRequest' \in BOOLEAN
    BY DEF IInv, TypeInv, ClearStepRequests, NoStep,
       ScriptChecksPause
  <2>2. waitSem' \in BOOLEAN
    BY DEF IInv, TypeInv, ClearStepRequests, NoStep,
       ScriptChecksPause
  <2>3. NextStepFrom' \in Int /\ StepOutDepth' \in Int
    BY SMTT(30) DEF IInv, TypeInv, ClearStepRequests, NoStep, ScriptChecksPause
  <2> QED
    BY <2>1, <2>2, <2>3
<1>3. /\ pc["script"] = "checkPause"
      /\ UNCHANGED <<wire, ret, request, ContinueSem, DefaultThread, depth>>
  BY DEF ScriptChecksPause
<1>4. TypeInv'
  BY <1>1, <1>2, <1>3 DEF IInv, TypeInv
<1>5. (Present /\ Alive)'
  BY <1>1, <1>3 DEF IInv, Present, Alive, Leaving, Running
<1>6. (Credit /\ Used)'
  BY <1>1, <1>3 DEF IInv, Credit, Used, Resuming
<1>7. Step'
  <2>1. \/ pc'["script"] = "stop"
        \/ /\ UNCHANGED <<NextStepFrom, StepInRequest, StepOutDepth>>
           /\ ~waitSem
    BY <1>1 DEF ScriptChecksPause
  <2> QED
    BY <1>1, <1>2, <1>3, <2>1 DEF IInv, Step, Recorded
<1> QED
  BY <1>4, <1>5, <1>6, <1>7 DEF IInv

\* A message stops the script; its step requests stay.
LEMMA OnMessageOutputKeeps == ASSUME IInv, OnMessageOutput PROVE IInv'
<1>1. DefaultThread' /\ waitSem' \in BOOLEAN /\ depth' \in Int
  BY DEF IInv, TypeInv, Alive, Running, OnMessageOutput
<1>2. pc["script"] = "idle" /\ CreditsStay
  BY DEF OnMessageOutput, CreditsStay
<1>3. /\ pc' \in [{"script", "session"} -> Labels]
      /\ pc'["script"] = "stop" /\ pc'["session"] = pc["session"]
  BY DEF IInv, TypeInv, Labels, Running, OnMessageOutput, GoTo
<1> QED
  BY <1>1, <1>2, <1>3, ScriptMoves DEF ScriptPasses

\* The client learns of the stop when no credit is left.
LEMMA ScriptStopsKeeps == ASSUME IInv, ScriptStops PROVE IInv'
BY ScriptSends DEF ScriptStops

\* The script takes the credit.
LEMMA ScriptContinuesKeeps == ASSUME IInv, ScriptContinues PROVE IInv'
<1>1. /\ pc' \in [{"script", "session"} -> Labels]
      /\ pc'["script"] = "idle" /\ pc'["session"] = pc["session"]
  BY DEF IInv, TypeInv, Labels, Running, ScriptContinues, GoTo
<1>2. /\ pc["script"] = "wait" /\ ContinueSem > 0
      /\ ContinueSem' = ContinueSem - 1
      /\ UNCHANGED <<wire, ret, request, DefaultThread, depth, waitSem>>
      /\ UNCHANGED <<NextStepFrom, StepInRequest, StepOutDepth>>
  BY DEF ScriptContinues
<1>3. view # "gone" =>
        view = "running" /\ inbox \in NoResume /\ ContinueSem = 1 /\ ~Resuming
  BY <1>2, SMTT(30) DEF IInv, TypeInv, Credit
<1>4. TypeInv'
  BY <1>1, <1>2, SMTT(30) DEF IInv, TypeInv
<1>5. (Present /\ Alive)'
  BY <1>1, <1>2 DEF IInv, Present, Alive, Leaving, Running
<1>6. (Credit /\ Used)'
  BY <1>1, <1>2, <1>3, SMTT(30) DEF IInv, Credit, Used, Resuming
<1>7. Step'
  BY <1>1, <1>2, <1>3 DEF IInv, Step, Recorded, Resuming
<1> QED
  BY <1>4, <1>5, <1>6, <1>7 DEF IInv

\* The script thread ends.
LEMMA ReportExitCodeKeeps == ASSUME IInv, ReportExitCode PROVE IInv'
<1>1. waitSem' \in BOOLEAN /\ depth' \in Int
  BY DEF IInv, TypeInv, ReportExitCode
<1>2. pc["script"] = "idle" /\ CreditsStay
  BY DEF ReportExitCode, CreditsStay
<1>3. /\ pc' \in [{"script", "session"} -> Labels]
      /\ pc'["script"] = "exited" /\ pc'["session"] = pc["session"]
  BY DEF IInv, TypeInv, Labels, ReportExitCode, GoTo
<1> QED
  BY <1>1, <1>2, <1>3, ScriptMoves DEF ScriptPasses, Running

\* The test before the exit events.
LEMMA ScriptReportsExitKeeps == ASSUME IInv, ScriptReportsExit PROVE IInv'
<1>1. waitSem' \in BOOLEAN /\ depth' \in Int
  BY DEF IInv, TypeInv, ScriptReportsExit
<1>2. pc["script"] = "exited" /\ CreditsStay
  BY DEF ScriptReportsExit, CreditsStay
<1>3. /\ pc' \in [{"script", "session"} -> Labels]
      /\ pc'["script"] \in {"event1", "disconnected"} /\ pc'["session"] = pc["session"]
  BY DEF IInv, TypeInv, Labels, ScriptReportsExit, GoTo
<1> QED
  BY <1>1, <1>2, <1>3, ScriptMoves DEF ScriptPasses, Running

\* An exit event.
LEMMA ScriptSendsExitKeeps == ASSUME IInv, ScriptSendsExit PROVE IInv'
BY ScriptSends DEF ScriptSendsExit

\* The wait for DisconnectEvent.
LEMMA ScriptDisconnectsKeeps == ASSUME IInv, ScriptDisconnects PROVE IInv'
<1>1. waitSem' \in BOOLEAN /\ depth' \in Int
  BY DEF IInv, TypeInv, ScriptDisconnects
<1>2. pc["script"] = "disconnected" /\ CreditsStay
  BY DEF ScriptDisconnects, CreditsStay
<1>3. /\ pc' \in [{"script", "session"} -> Labels]
      /\ pc'["script"] = "join" /\ pc'["session"] = pc["session"]
  BY DEF IInv, TypeInv, Labels, ScriptDisconnects, GoTo
<1> QED
  BY <1>1, <1>2, <1>3, ScriptMoves DEF ScriptPasses, Running

\* The join.
LEMMA ScriptJoinsKeeps == ASSUME IInv, ScriptJoins PROVE IInv'
<1>1. waitSem' \in BOOLEAN /\ depth' \in Int
  BY DEF IInv, TypeInv, ScriptJoins
<1>2. pc["script"] = "join" /\ CreditsStay
  BY DEF ScriptJoins, CreditsStay
<1>3. /\ pc' \in [{"script", "session"} -> Labels]
      /\ pc'["script"] = "finished" /\ pc'["session"] = pc["session"]
  BY DEF IInv, TypeInv, Labels, ScriptJoins, GoTo
<1> QED
  BY <1>1, <1>2, <1>3, ScriptMoves DEF ScriptPasses, Running


\* The initial state.
LEMMA InitIInv == ASSUME Init PROVE IInv
<1>1. /\ pc["script"] = "config" /\ pc["session"] = "loop"
      /\ TypeInv
  <2>1. /\ open \in BOOLEAN /\ peerClosed \in BOOLEAN
        /\ StepInRequest \in BOOLEAN /\ waitSem \in BOOLEAN
    BY DEF Init
  <2>2. /\ pc \in [{"script", "session"} -> Labels]
        /\ pc["script"] = "config" /\ pc["session"] = "loop"
    BY SMTT(30) DEF Init, Labels
  <2>3. /\ ret \in [{"script", "session"} -> Labels]
        /\ ret["session"] = "loop"
    BY SMTT(30) DEF Init, Labels, Running
  <2> QED
    BY <2>1, <2>2, <2>3, SMTT(30) DEF Init, TypeInv, NoStep
<1>2. /\ inbox \in NoResume /\ inbox \in NoDisconnect /\ inbox \in UsesFirst
      /\ inbox \notin SomeUse
  BY SMTT(30) DEF Init, NoResume, NoDisconnect, UsesFirst, SomeUse
<1>3. Present
  BY <1>1, <1>2 DEF Init, Present, Leaving
<1>4. Credit
  BY <1>1, <1>2 DEF Init, Credit, Resuming
<1>5. Used
  BY <1>1, <1>2 DEF Used
<1>6. Alive
  BY <1>1 DEF Alive, Running, Leaving
<1>7. Step
  BY <1>1 DEF Init, Step
<1> QED
  BY <1>1, <1>3, <1>4, <1>5, <1>6, <1>7 DEF IInv

\* A step of any actor, or none.
LEMMA NextIInv == ASSUME IInv, [Next]_vars PROVE IInv'
<1>1. CASE Client
  BY <1>1, ClientConfiguredKeeps, ClientLeavesKeeps, ClientResumesKeeps,
     ClientAsksKeeps DEF Client
<1>2. ASSUME NEW th \in {"script", "session"}, Leave(th) PROVE IInv'
  BY <1>2, LeaveClearBreakpointsKeeps, LeaveClearExceptionsKeeps,
     LeaveClearStepsKeeps, LeaveNotifyKeeps, LeaveFireKeeps,
     LeaveInactiveKeeps DEF Leave
<1>3. CASE Session
  BY <1>2, <1>3, SessionLoopsKeeps, SessionReadsKeeps, SessionFindsClosedKeeps,
     SessionServesKeeps, SessionStoresStepKeeps, SessionNotifiesKeeps,
     SessionRespondsKeeps DEF Session
<1>4. CASE Script
  BY <1>2, <1>4, ScriptStartsKeeps, ScriptAnnouncesKeeps,
     OnBeginFileParseKeeps,
     OnEndCallKeeps, OnFileParsedSuccessfullyKeeps, ScriptValidatesKeeps,
     ScriptValidatedKeeps, OnBeginFunctionCallKeeps, ScriptChecksStepsKeeps,
     ScriptChecksPauseKeeps, OnMessageOutputKeeps, ScriptStopsKeeps,
     ScriptContinuesKeeps, ReportExitCodeKeeps, ScriptReportsExitKeeps,
     ScriptSendsExitKeeps, ScriptDisconnectsKeeps, ScriptJoinsKeeps DEF Script
<1>5. CASE UNCHANGED vars
  <2>1. /\ CreditsStay
        /\ UNCHANGED <<pc, DefaultThread, depth, waitSem>>
    BY <1>5 DEF vars, CreditsStay
  <2>2. (TypeInv /\ Present /\ Alive)'
    BY <2>1 DEF IInv, TypeInv, Present, Alive, CreditsStay
  <2>3. (Credit /\ Used)'
    BY <2>1 DEF IInv, Credit, Used, Resuming, CreditsStay
  <2>4. Step'
    BY <2>1 DEF IInv, Step, Recorded, Resuming, StepOwed, CreditsStay
  <2> QED
    BY <2>2, <2>3, <2>4 DEF IInv
<1> QED
  BY <1>1, <1>3, <1>4, <1>5 DEF Next

---------------------------------------------------------------------------
(* The theorems                                                            *)

\* The invariant holds throughout.
THEOREM InvariantHolds == Spec => []IInv
BY InitIInv, NextIInv, PTL DEF Spec

\* A stop the client was told of holds until the client resumes the script,
\* and the requests that use DefaultThread find it: for every client, every
\* number of calls and requests, and in every interleaving of the threads.
THEOREM StopAlwaysHolds == Spec => []StopHolds
<1>1. IInv => StopHolds
  BY DEF IInv, Credit, Used, Alive, Running, Using, StopHolds
<1> QED
  BY <1>1, InvariantHolds, PTL

\* The script never runs past the end of the step the client asked for.
THEOREM StepsNeverMissed == Spec => StepNotMissed
<1>1. ASSUME IInv, [Next]_vars
      PROVE  [pc["script"] = "checkPause" /\ pc'["script"] = "idle"
                => ~StepOwed]_vars
  <2>1. SUFFICES ASSUME pc["script"] = "checkPause", pc'["script"] = "idle"
                 PROVE  ~StepOwed
    OBVIOUS
  <2>2. pc \in [{"script", "session"} -> Labels]
    BY <1>1 DEF IInv, TypeInv
  <2>3. CASE ScriptChecksPause
    <3>1. ~waitSem
      BY <2>1, <2>2, <2>3 DEF ScriptChecksPause, GoTo
    <3> QED
      BY <1>1, <2>1, <3>1 DEF IInv, Step, StepOwed
  <2>4. CASE pc'["script"] = pc["script"]
    BY <2>1, <2>4
  <2>5. ASSUME Client \/ UNCHANGED vars PROVE pc'["script"] = pc["script"]
    BY <2>5 DEF Client, ClientConfigured, ClientLeaves, ClientResumes,
       ClientAsks, vars
  <2>6. ASSUME Session PROVE pc'["script"] = pc["script"]
    BY <2>2, <2>6 DEF Session, SessionLoops, SessionReads,
       SessionFindsClosed,
       SessionServes, SessionStoresStep, SessionNotifies, SessionResponds,
       SendOn, Leave, LeaveClearBreakpoints, LeaveClearExceptions,
       LeaveClearSteps, LeaveNotify, LeaveFire, LeaveInactive, GoTo
  <2>7. ASSUME Script, ~ScriptChecksPause PROVE FALSE
    BY <2>1, <2>2, <2>7 DEF Script, ScriptStarts, ScriptAnnounces,
       OnBeginFileParse, OnEndCall, OnFileParsedSuccessfully, ScriptValidates,
       ScriptValidated, OnBeginFunctionCall, ScriptChecksSteps,
       OnMessageOutput, ScriptStops, ScriptContinues, ReportExitCode,
       ScriptReportsExit, ScriptSendsExit, ScriptDisconnects, ScriptJoins,
       Leave, LeaveClearBreakpoints, LeaveClearExceptions, LeaveClearSteps,
       LeaveNotify, LeaveFire, LeaveInactive
  <2> QED
    BY <1>1, <2>3, <2>4, <2>5, <2>6, <2>7 DEF Next
<1> QED
  BY <1>1, InvariantHolds, PTL DEF Spec, StepNotMissed
===========================================================================
