CONSTANTS
  i1 = i1
  Injectors <- OneInjector
  Streams <- AudioStreams
  MaxWaits = 1
  Disciplines <- StopToo
SPECIFICATION FairSpec
PROPERTY StopReturns
CHECK_DEADLOCK FALSE
