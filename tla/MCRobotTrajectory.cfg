SPECIFICATION Spec
CONSTANTS
  Capacity = 2
  Prefill = 2
  Grace = 1
  SeqMod = 3
  GenMod = 2
  Targets = {0}
  ZeroTarget = 0
  Validities = {1}
  TickMod = 4
  MaxAge = 2
INVARIANTS
  BufferSafe
  PlaybackConsecutive
PROPERTIES
  ExecutedStepsByOne
  HoldUntilReset
  FirstReasonKept
  OnlyFreshPoints
  ImplementsStream
