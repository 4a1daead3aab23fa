SPECIFICATION Spec
CONSTANTS
  ARCH_S5P4418 = TRUE
  Formats = {"OPAQUE", "BLOB", "ZSL"}
  Requests <- ClientRequests
  MaxQueued = 1
  AfterRace = FALSE
  MaxStreams = 2
  Polls = 1
  WaitCount = 1
INVARIANTS TypeOK NoRequestLost RegistryConsistent StateIsHonest NothingGoneIsUsed
CHECK_DEADLOCK FALSE
