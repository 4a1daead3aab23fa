SPECIFICATION Spec
CONSTANTS
  InBufs = {i1, i2}
  OutBufs = {o1, o2}
  MinBuffers = 1
  ChangeMax = 2
  AllocMax = 3
  Modes = {FALSE}
  ClientTransitions <- LifeCycle
  FlushArgs = {}
  PortArgs = {"out"}
  Reconfigures = TRUE
INVARIANT LoadedIsUnpopulated
SYMMETRY Symmetric
CHECK_DEADLOCK FALSE
