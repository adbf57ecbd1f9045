\* The default addressing: 8 byte frames, padded, 2 tolerated WAITs, blocks of
\* two frames and a buffer of 42 bytes; separation times every 50 us up to a
\* little beyond the slowest rate, and one nanosecond either side, where the
\* walk stops.
CONSTANTS
  Byte <- MCByte
  Pad = 0
  FrameBytes = 8
  Header = 0
  SnModulus = 4
  ClassicMax = 24
  CountModulus = 4
  PadFrames = TRUE
  UseCanFd = FALSE
  N_Bs = 3
  N_Cr = 3
  N_Br = 1
  N_Cs = 1
  BlockSize = 2
  StMinRaw = 0
  WftMax = 2
  MaxReceive = 42
  Messages <- MCMessages
  PeerFrames <- MCPeerFrames
  WatchCap = 4
  MaxControls = 2
  Stride = 50000
  Longest = 128500000
SPECIFICATION Spec
INVARIANTS
  OkMeansAllSent
  WireCarriesMessage
  ReceivedWhole
  EncodingIsQuickest
PROPERTIES
  FlowControlObeyed
  EndsOnTime
CHECK_DEADLOCK FALSE
