CONSTANTS
  None = None
  s1 = s1
  s2 = s2
  keyA = keyA
  keyB = keyB
  Backend = "thunder"
  Slots <- TwoSlots
  Inputs <- TwoInputs
  Speeds <- TwoSpeeds
  MaxSessions = 2
  MaxAttempts = 2
  MaxCalls = 3
  MaxLicences = 2
  Graphics <- TwoGraphics
  MaxEvents = 3
  MaxDestroys = 1
  MaxOcdmSessions = 2
  MaxOcdmRequests = 3
  MaxChanges = 1
  Users <- AudioAndVideo
  Urls <- TwoUrls
  MaxAesCalls = 5
  Resolutions <- TwoResolutions
  MaxDisplayChanges = 3
  MaxInterfaceChanges = 2
  MaxSources = 1
  Ports = {0, 1}
  Languages <- TwoLanguages
  Screens = {0, 1, 2}
  MaxThunderCalls = 4
SPECIFICATION Spec
CHECK_DEADLOCK FALSE
INVARIANT JoinsEndedThread
