------------------------ MODULE MCMultiProcessHandler ------------------------
(* Small test suites, and the ways ctest is run on them.                   *)
EXTENDS MultiProcessHandler

Plain == [Depends |-> {}, RequireSuccessDepends |-> {}, RunSerial |-> FALSE,
          Processors |-> 1, ProjectResources |-> {}, WantAffinity |-> FALSE,
          Disabled |-> FALSE]
Locking == [Plain EXCEPT !.ProjectResources = {"a"}]
Serial == [Plain EXCEPT !.RunSerial = TRUE]
Wide(n) == [Plain EXCEPT !.Processors = n]
After(p, d) == [p EXCEPT !.Depends = d]

\* ctest -j 2
J2(p) == [Properties |-> p, RepeatGroups |-> {}, TestsRunOnce |-> {},
          ParallelLevel |-> 2, HaveAffinity |-> 0, TestLoad |-> 0,
          StopOnFailure |-> FALSE, Failover |-> FALSE, JobServer |-> FALSE,
          RepeatMode |-> "Never", RepeatCount |-> 1, Events |-> {},
          MaxSessions |-> 1]

\* Four tests: two share a lock, one is serial, one may be too wide.
Mixed ==
  {[J2(<<Locking, After(Locking, d), Serial, After(Wide(p), e)>>)
      EXCEPT !.Events = {"interrupt"}] :
     d \in {{}, {3}}, e \in {{1}, {2, 3}}, p \in {1, 3}}

\* Three of these, to be queued for tokens.
Queue ==
  {[J2(<<Locking, After(Locking, d), x>>)
      EXCEPT !.JobServer = TRUE,
             !.Events = {"interrupt", "start failure", "stop time"}] :
     d \in {{}, {1}, {3}}, x \in {Serial, Wide(2)}}

\* A fixture: setup 1, tests 2 and maybe 3, cleanup 4.  A test outside the
\* fixture may depend on one inside.
FixtureProps(inside, disabled) ==
  [t \in 1 .. 4 |->
     CASE t = 1 -> Plain
       [] t \in inside -> [After(Plain, {1}) EXCEPT
                             !.RequireSuccessDepends = {1}]
       [] t = 4 -> After(Plain, {1} \cup inside)
       [] OTHER -> [After(Plain, {2}) EXCEPT !.Disabled = disabled]]

\* --repeat mode:2, each test on its own, the fixture around all, or as one.
Repeat(mode, insides) ==
  {[J2(FixtureProps(i, d)) EXCEPT !.TestsRunOnce = o, !.RepeatMode = mode,
                                  !.RepeatCount = 2] :
     i \in insides, d \in BOOLEAN, o \in {{}, {1, 4}}}
  \cup {[J2(FixtureProps(i, FALSE)) EXCEPT !.RepeatGroups = {{1, 4} \cup i},
           !.RepeatMode = mode, !.RepeatCount = 2] : i \in insides}

\* The same while processes cannot be created and so on.
Faults(mode, insides) ==
  {[s EXCEPT !.Events = {"start failure", "spawn failure", "rerun failure",
                         "stop time"}] : s \in Repeat(mode, insides)}

\* Small and wide tests for the load check and affinity.
Load ==
  {[J2([t \in 1 .. 3 |-> [Wide(p[t]) EXCEPT !.WantAffinity = t \in a,
                                            !.RunSerial = t \in s]])
      EXCEPT !.ParallelLevel = 3, !.HaveAffinity = 3, !.TestLoad = 3] :
     p \in {<<1, 1, 2>>, <<1, 2, 3>>, <<2, 2, 3>>}, a \in {{1, 2}, 1 .. 3},
     s \in {{}, {3}}}

\* -F after an interrupt or a crash, with and without dependencies.
Failing(p, n) == [J2(p) EXCEPT !.Failover = TRUE, !.MaxSessions = n,
                               !.Events = {"interrupt", "crash"}]

SafetySuites ==
  Mixed \cup Queue \cup Load \cup {Failing(<<Locking, Locking, Plain>>, 3)}
    \cup Repeat("UntilPass", {{2}}) \cup Repeat("UntilFail", {{2, 3}})

LivenessSuites ==
  Load \cup Faults("AfterTimeout", {{2}}) \cup Repeat("UntilPass", {{2, 3}})
    \cup Repeat("UntilFail", {{2}})

ResumeSuites == {Failing(<<Plain, After(Plain, {1}), After(Plain, {2})>>, 2)}

AffinitySuites ==
  {[J2([t \in 1 .. 3 |-> [Wide(p[t]) EXCEPT !.WantAffinity = TRUE]])
      EXCEPT !.ParallelLevel = 4, !.HaveAffinity = 2] :
     p \in {<<1, 1, 2>>, <<2, 2, 3>>}}
==============================================================================
