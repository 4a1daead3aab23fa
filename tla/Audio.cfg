SPECIFICATION Spec
CONSTANTS
  Outs = {deep, low}
  Ins = {in1, in2}
  deep = deep
  low = low
  in1 = in1
  in2 = in2
  OutDevices <- OutputSets
  InDevices <- InputSets
  Sources = {"MIC"}
  MaxRefused = 1
SYMMETRY StreamSymmetry
INVARIANTS TypeOK CardHeldOnce RouteFollowsActive NothingFreedIsUsed
