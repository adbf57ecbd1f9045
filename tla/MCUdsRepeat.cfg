CONSTANTS
  Byte <- MCOctet
  Pad = 204
  FrameBytes = 8
  Header = 0
  SnModulus = 4
  ClassicMax = 20
  CountModulus = 4
  PadFrames = TRUE
  UseCanFd = FALSE
  N_Bs = 2
  N_Cr = 2
  N_Br = 0
  N_Cs = 0
  BlockSize = 0
  StMinRaw = 0
  WftMax = 1
  MaxReceive = 20
  P2 = 3
  P2Star = 4
  MaxResponsePending = 2
  S3 = 5
  Keepalive = TRUE
  PeerFrames <- MCPeerFrames
  Requests <- MCRequests
  Clock <- MCClock
  SeedAt <- MCSeedAt
  KeyOf <- MCKeyOf
  Word <- MCWord
  BlockModulus = 3
  FlashBase = 8
  FlashSize = 3
  EraseTicks = 0
  PendingPerBlock = 0
  Identifiers <- MCIdentifiers
  StoredDtcs <- MCStoredDtcs
  NewDtcs <- MCNewDtcs
  MaxDtcs = 3
SPECIFICATION MCSpec
INVARIANT RepeatIsAccepted
