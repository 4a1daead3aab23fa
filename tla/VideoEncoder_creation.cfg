SPECIFICATION FairSpec
CONSTANTS
  InBufs = {i1, i2}
  OutBufs = {o1, o2}
  ChangeMax = 2
  AllocMax = 3
  Modulus = 4
  EncodeFails = FALSE
  PrefillsOutput = TRUE
  ClientTransitions <- LifeCycle
  CtrlCommands = {}
PROPERTY CreationCompletes
CHECK_DEADLOCK FALSE
