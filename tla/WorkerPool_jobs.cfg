SPECIFICATION FairSpec
CONSTANTS
  ThreadCount = 3
  MaxJobs = 3
  MaxProcesses = 1
CHECK_DEADLOCK FALSE
INVARIANTS NoWorkerForgotten JoinIsSafe ObjectOutlivesHandles
PROPERTIES IsJobQueue NoJobStranded Returns
