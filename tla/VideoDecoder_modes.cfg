SPECIFICATION Spec
CONSTANTS
  InBufs = {i1}
  OutBufs = {o1, o2}
  MinBuffers = 1
  ChangeMax = 1
  AllocMax = 2
  Modes = {TRUE, FALSE}
  ClientTransitions <- WithMistake
  FlushArgs = {"all"}
  PortArgs = {"in", "out"}
  Reconfigures = TRUE
INVARIANTS TypeOK BufferOwnership IdleHoldsNothing
  NoLostControl StopIsNoticed RegistersExistingBuffers
SYMMETRY Symmetric
CHECK_DEADLOCK FALSE
