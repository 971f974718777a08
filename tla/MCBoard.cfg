SPECIFICATION BoardSpec
CONSTANTS
  Half = 5
  MaxUnseen = 1
  HeartbeatPeriod = 2
  PositionTimeout = 2
  HeartbeatTimeout = 6
  BootTicks = 7
  MaxLives = 3
  MaxLosses = 2
  Delay = 4
  TxDepth = 3
  StopFails = 0
  StartFails = 3
  RingFrames <- TwoFrames
  RingDepth = 4
  IndexMod = 8
  FifoDepth = 1
  LogDepth = 3
  AbortFails = 1
  ReportSlaves = 3
  ReportBuffers = 2
  Tries = 3
  SeqMod = 6
  MaxCaptures = 2
  N = 2
  Objects <- OneObject
  PoolSize = 6
  SmallPoolSize = 2
  Noisy <- FirstDrive
  MaxCalls = 2
  MaxLost = 2
INVARIANTS
  HeardAgain
  ReadyIsReal
  BoardSafe
  MailboxSafe
PROPERTIES
  ImplementsFifo
  GivenUpIsGone
  NothingIsStuck
