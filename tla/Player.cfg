CONSTANTS
  h1 = h1
  h2 = h2
  h3 = h3
  w1 = w1
  s1 = s1
  s2 = s2
  b1 = b1
  c1 = c1
  c2 = c2
  bus = bus
  sink = sink
  d1 = d1
  Handlers <- ThreeHandlers
  Waiters <- OneWaiter
  SyncHandlers <- TwoSync
  BusHandlers <- OneBus
  SignalHandlers <- TwoSignals
  Notifiers <- OneNotifier
  MaxTasks = 3
  FrameNotifiers <- OneSink
  MaxIdleTasks = 4
  Decoders <- OneDecoder
  MaxCount = 1
  MaxPts = 1
  MaxOps = 2
  Volumes <- AllVolumes
SPECIFICATION MCFairSpec
CHECK_DEADLOCK FALSE
INVARIANTS NothingAfterDone BusHandlersDone PendingNotStuck  IdsAreLive  SettingsReachSinks
PROPERTIES ReturnsWithoutExpiry ProgressStarts  UnderflowReachesEos
