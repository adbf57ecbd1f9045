CONSTANTS
  Byte <- MCOctet
  Pad = 204
  FrameBytes = 8
  Header = 0
  SnModulus = 4
  ClassicMax = 20
  CountModulus = 4
  PadFrames = TRUE
  UseCanFd = FALSE
  N_Bs = 4
  N_Cr = 4
  N_Br = 0
  N_Cs = 0
  BlockSize = 1
  StMinRaw = 0
  WftMax = 2
  MaxReceive = 40
  PeerFrames = {}
  Requests <- MCRequests
  Clock = {20}
  SeedAt <- MCSeedAt
  KeyOf <- MCKeyOf
  Word = 64
  BlockModulus = 3
  FlashBase = 8
  FlashSize = 2
  EraseTicks = 13
  PendingPerBlock = 1
  Identifiers <- MCIdentifiers
  StoredDtcs <- MCStoredDtcs
  P2 = 12
  P2Star = 14
  MaxResponsePending = 3
  S3 = 10
  Keepalive = TRUE
  Asks <- MCAsks
SPECIFICATION FairSpec
INVARIANTS AnswersThisRequest HandledAsAsked LosslessNeverFails SessionIsShared
PROPERTIES EveryRequestEnds
