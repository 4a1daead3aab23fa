SPECIFICATION Spec
CONSTANTS
  Buffers = {b1, b2, b3}
  MaxBuffers = 2
  ARCH_S5P6818 = FALSE
  Fails = TRUE
  Polls = 2
  WaitCount = 1
  SkipFrames = 1
INVARIANTS TypeOK EachBufferOnce FrameOrder RemovedWhenStopped RemovedHoldsNothing
  RunningHasThread StoppedIsOff
SYMMETRY Symmetric
