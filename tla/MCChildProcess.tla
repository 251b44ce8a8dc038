--------------------------- MODULE MCChildProcess ---------------------------
(* Configurations of a test for the runs of ChildProcess.                  *)
EXTENDS ChildProcess

\* A test with nothing set.
Plain == [Timeout |-> NoTime, GlobalTimeout |-> 0, TestTimeOut |-> 2,
          TimeLimit |-> NoTime, StopTime |-> NoTime,
          TimeoutSignal |-> FALSE, GracePeriod |-> NoTime,
          AlternateTimeout |-> NoTime, WillFail |-> FALSE,
          Required |-> FALSE, Forbidden |-> FALSE, SkipRegex |-> FALSE,
          SkipReturnCode |-> -1, RepeatMode |-> "Never", RunCount |-> 1]

\* Where the timeout comes from, with and without the custom signal.
Timed ==
  {[Plain EXCEPT !.Timeout = t[1], !.GlobalTimeout = t[2], !.TimeLimit = l,
                 !.StopTime = s, !.TimeoutSignal = sig, !.GracePeriod = grace,
                 !.AlternateTimeout = alt] :
     t \in {<<NoTime, 0>>, <<NoTime, 1>>, <<0, 1>>, <<3, 1>>},
     l \in {NoTime, 2}, s \in {NoTime, 1, 3}, sig \in BOOLEAN,
     grace \in {NoTime, 2}, alt \in {NoTime, 1, 2}}

\* How the verdict is reached.
Judged ==
  {[Plain EXCEPT !.WillFail = w, !.Required = r, !.Forbidden = f,
                 !.SkipRegex = sr, !.SkipReturnCode = sc,
                 !.AlternateTimeout = alt] :
     w \in BOOLEAN, r \in BOOLEAN, f \in BOOLEAN, sr \in BOOLEAN,
     sc \in {-1, 1}, alt \in {NoTime, 2}}

\* Repeated tests.
Repeated ==
  {[Plain EXCEPT !.RepeatMode = m, !.RunCount = 2, !.TimeoutSignal = sig,
                 !.AlternateTimeout = alt] :
     m \in {"UntilFail", "UntilPass", "AfterTimeout"}, sig \in BOOLEAN,
     alt \in {NoTime, 2}}

\* Repeated tests that meet the stop time.
Stopped == {[c EXCEPT !.StopTime = 1] : c \in Repeated}

AllConfigs == Timed \cup Judged \cup Repeated \cup Stopped

\* Only the end of a timeout repeats the test.
StoppedAfterTimeout == {c \in Stopped : c.RepeatMode = "AfterTimeout"}
=============================================================================
