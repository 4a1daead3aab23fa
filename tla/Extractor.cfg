SPECIFICATION FairSpec
CONSTANTS
  Tracks = {"video", "audio"}
  File <- AvFile
  Keys = {3}
  Unreadable = {3}
  SeekTargets = {1}
  MIN_FRAMES = 0
  MIN_AUDIOQ_SIZE = 0
  MAX_QUEUE_SIZE = 0
  MaxSeeks = 2
  MaxEos = 1
INVARIANTS TypeOK SeekIsHonoured FlushSeparates
  NobodyWaitsForDeadReader
PROPERTIES ReadsReturn StopsReturn
CHECK_DEADLOCK FALSE
