CONSTANTS
  audio = audio
  video = video
  a1 = a1
  v1 = v1
  v2 = v2
  w1 = w1
  Streams <- AudioAndVideo
  Keys <- FourKeys
  KeysOf <- ThreePsshs
  MaxDRMSessions = 2
  MaxRequests = 3
SPECIFICATION Spec
INVARIANTS  NoVainWait
