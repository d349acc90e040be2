SPECIFICATION FairSpec
CONSTANTS
  MaxTasks = 3
  Delays = {0, 1}
  MaxTime = 3
  MaxDepth = 2
  MaxStarts = 2
INVARIANTS QueuesConsistent PumpWakesUp DrainedBeforeExit LoopOutlivesPosts
PROPERTIES TasksInOrder EveryTaskRuns StopReturns
\* The owner need not start the thread again.
CHECK_DEADLOCK FALSE
