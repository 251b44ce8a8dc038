------------------------ MODULE MCJobServerScheduling ------------------------
(* Small test suites for JobServerScheduling.                              *)
EXTENDS JobServerScheduling

Plain == [Depends |-> {}, RequireSuccessDepends |-> {}, RunSerial |-> FALSE,
          Processors |-> 1, ProjectResources |-> {}, WantAffinity |-> FALSE,
          Disabled |-> FALSE]

\* ctest -j 3 under make
J3(p, events) ==
  [Properties |-> p, RepeatGroups |-> {}, TestsRunOnce |-> {},
   ParallelLevel |-> 3, HaveAffinity |-> 0, TestLoad |-> 0,
   StopOnFailure |-> FALSE, Failover |-> FALSE, JobServer |-> TRUE,
   RepeatMode |-> "Never", RepeatCount |-> 1, Events |-> events,
   MaxSessions |-> 1]

\* A serial test or not, a disabled one or not, a dependency or not.
Three(s, d, e) == <<Plain, [Plain EXCEPT !.RunSerial = s, !.Disabled = d],
                    [Plain EXCEPT !.Depends = e]>>

\* No test ends, and none is cancelled, while its token is handed out.
EnabledSuites ==
  {J3(Three(s, FALSE, e), {}) : s \in BOOLEAN, e \in {{}, {1}}}

TokenSuites ==
  EnabledSuites
    \cup {J3(Three(FALSE, TRUE, e), {}) : e \in {{}, {1}}}
    \cup {J3(Three(FALSE, FALSE, {}), {"interrupt", "start failure"})}
==============================================================================
