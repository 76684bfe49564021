CONSTANTS
  i1 = i1
  Injectors <- OneInjector
  Streams <- AudioStreams
  MaxWaits = 1
  Disciplines <- ConfigureOrQuiet
SPECIFICATION FairSpec
INVARIANTS PushesAsAllowed EventsBeforeData
PROPERTIES EveryCallReturns
