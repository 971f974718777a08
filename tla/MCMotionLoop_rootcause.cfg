SPECIFICATION Spec
CONSTANTS
  Capacity = 2
  Prefill = 2
  Grace = 0
  SeqMod = 3
  GenMod = 2
  CmdTimeout = 2
  HbTimeout = 2
  EcatPeriod = 2
  PollTicks = 2
  AnswerTicks = 0
  RollbackLimit = 2
  FaultLimit = 3
  MaxFrames = 1
  HostSends = {"HOLD", "RESET", "APPLY", "HEARTBEAT"}
  ResetSeqs = {0}
PROPERTIES
  RootCauseReported
