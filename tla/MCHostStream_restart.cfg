SPECIFICATION Spec
CONSTANTS
  Capacity = 3
  Prefill = 2
  Grace = 0
  SeqMod = 16
  GenMod = 8
  CountMod = 16
  Reserve = 1
  High = 2
  StartPrefill = 1
  LocalCapacity = 1
  Services = {"hold", "reset"}
  Overlap = {}
  Troubles = {"send", "command", "device", "link"}
  WireLimit = 1
  StatusLife = 2
INVARIANTS
  NoResetWhileRunning
PROPERTIES
  FaultNeverDowngraded
  RestartNeedsReset
VIEW View
