SPECIFICATION Spec
CONSTANTS
  Capacity = 2
  Prefill = 1
  Grace = 0
  SeqMod = 16
  GenMod = 8
  CountMod = 16
  Reserve = 1
  High = 1
  StartPrefill = 1
  LocalCapacity = 1
  Services = {"hold"}
  Overlap = {"hold"}
  Troubles = {}
  WireLimit = 1
  StatusLife = 2
PROPERTIES
  RestartNeedsReset
VIEW View
