\* Extended addressing without padding; blocks of two frames.
CONSTANTS
  Byte <- MCByte
  Pad = 0
  FrameBytes = 8
  Header = 1
  SnModulus = 4
  ClassicMax = 30
  CountModulus = 8
  PadFrames = FALSE
  UseCanFd = FALSE
  N_Bs = 3
  N_Cr = 3
  N_Br = 1
  N_Cs = 1
  BlockSize = 2
  StMinRaw = 241
  WftMax = 2
  MaxReceive = 38
  PeerFrames = {}
  Messages <- MCMessages
  MaxTransfers = 3
SPECIFICATION FairSpec
PROPERTIES
  EveryMessageArrives
  ImplementsMailbox
  BothSidesFinish
