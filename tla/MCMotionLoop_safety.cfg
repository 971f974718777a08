SPECIFICATION Spec
CONSTANTS
  Capacity = 2
  Prefill = 2
  Grace = 0
  SeqMod = 3
  GenMod = 2
  CmdTimeout = 1
  HbTimeout = 2
  EcatPeriod = 2
  PollTicks = 2
  AnswerTicks = 0
  RollbackLimit = 3
  FaultLimit = 4
  MaxFrames = 1
  HostSends = {"HOLD", "RESET", "APPLY", "QUICK_STOP", "HEARTBEAT"}
  ResetSeqs = {0}
INVARIANTS
  LoopSafe
  
PROPERTIES
  
  StopIsFinal
CONSTRAINT MayStillPlay
VIEW View
