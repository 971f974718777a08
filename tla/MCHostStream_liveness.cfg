SPECIFICATION FairSpec
CONSTANTS
  Capacity = 2
  Prefill = 1
  Grace = 0
  SeqMod = 16
  GenMod = 4
  CountMod = 5
  Reserve = 1
  High = 1
  StartPrefill = 1
  LocalCapacity = 1
  Services = {"hold"}
  Overlap = {}
  Troubles = {"loss", "send", "device", "link"}
  WireLimit = 1
  StatusLife = 2
PROPERTIES
  PhaseEnds
VIEW View
