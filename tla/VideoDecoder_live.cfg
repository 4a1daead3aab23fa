SPECIFICATION FairSpec
CONSTANTS
  InBufs = {i1}
  OutBufs = {o1, o2}
  MinBuffers = 1
  ChangeMax = 2
  AllocMax = 3
  Modes = {FALSE}
  ClientTransitions <- WithPause
  FlushArgs = {"out", "all"}
  PortArgs = {}
  Reconfigures = FALSE
INVARIANTS LoadedIsUnpopulated SemaphoresOutliveThread
PROPERTY CommandsComplete
CHECK_DEADLOCK FALSE
