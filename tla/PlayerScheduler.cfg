CONSTANTS
  owner = owner
  caller = caller
  Clients <- TwoControllers
  Controllers <- TwoControllers
  MaxId = 3
  MaxTasks = 3
SPECIFICATION FairSpec
CHECK_DEADLOCK FALSE
INVARIANTS TypeOK ExactlyOnce DrainedIsQuiet
PROPERTIES RunsTasksInOrder StopReturns QueueServed
