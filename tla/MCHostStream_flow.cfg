SPECIFICATION Spec
CONSTANTS
  Capacity = 3
  Prefill = 2
  Grace = 0
  SeqMod = 16
  GenMod = 8
  CountMod = 16
  Reserve = 1
  High = 2
  StartPrefill = 2
  LocalCapacity = 2
  Services = {"hold", "quickStop"}
  Overlap = {}
  Troubles = {"loss", "send", "link"}
  WireLimit = 2
  StatusLife = 2
INVARIANTS
  FlowSafe
PROPERTIES
  StreamEndsWithHold
VIEW View
