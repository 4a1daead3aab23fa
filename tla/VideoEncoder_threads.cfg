SPECIFICATION Spec
CONSTANTS
  InBufs = {i1, i2}
  OutBufs = {o1, o2}
  ChangeMax = 2
  AllocMax = 3
  Modulus = 4
  EncodeFails = TRUE
  PrefillsOutput = TRUE
  ClientTransitions <- LifeCycle
  CtrlCommands = {"PortEnable"}
INVARIANTS TypeOK BufferOwnership IdleHoldsNothing EncodesWithCodec StopIsNoticed
SYMMETRY Symmetric
CHECK_DEADLOCK FALSE
