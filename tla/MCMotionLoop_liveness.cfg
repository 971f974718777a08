SPECIFICATION FairSpec
CONSTANTS
  Capacity = 2
  Prefill = 1
  Grace = 1
  SeqMod = 3
  GenMod = 2
  CmdTimeout = 1
  HbTimeout = 1
  EcatPeriod = 2
  PollTicks = 2
  AnswerTicks = 0
  RollbackLimit = 1
  FaultLimit = 2
  MaxFrames = 1
  HostSends = {"RESET", "QUICK_STOP", "HEARTBEAT"}
  ResetSeqs = {0}
PROPERTIES
  LatchStopsDrives
