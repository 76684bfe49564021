CONSTANTS
  manager = manager
  decoder = decoder
  application = application
  streaming = streaming
  h1 = h1
  h2 = h2
  Clients <- AllClients
  Channels <- TwoChannels
  ChannelOf <- OwnChannels
  Handles <- TwoHandles
  MaxFailures = 1
  MaxRestarts = 1
  MaxCommands = 3
  MaxCalls = 4
  Segments <- MCSegments
  Written <- MCWritten
  WORD = 1024
  MaxEdits = 3
  Tracks <- MCTracks
  Inits <- MCInits
  Fragments <- MCFragments
  Uninitialized = {0, 7}
  Positions = {0, 2, 4}
  StartTime = 10
  Styles <- MCStyles
  Texts <- MCTexts
  Lines <- MCLines
  FragmentDuration = 6
  MaxSettings = 2
  MaxTextFragments = 2
  Platforms = {"amlogic", "realtek", "brcm", "default"}
  MaxPlaybacks = 2
  MaxChanges = 1
  Rates <- TwoRates
  SeekTo = {3}
  Ahead = 1
  Behind <- MinusOne
  MaxShown = 2
  MaxFlushes = 2
  MaxSamples = 3
SPECIFICATION Spec
CHECK_DEADLOCK FALSE
INVARIANTS  SubtecFollows
INVARIANTS BufferFollowsObjects ReadAsLaid 
  
PROPERTIES SendsAllInOrder ToldAsPlayed
