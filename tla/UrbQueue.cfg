CONSTANTS
  ReadFrames = {"r1", "r2"}
  WriteFrames = {"w1"}
  Buffers = 2
  Size = 2
  MaxPackets = 3
  MaxFaults = 2
SPECIFICATION Spec
INVARIANT NothingPilesUp
PROPERTIES ReadsAreChannel WritesAreChannel
CHECK_DEADLOCK FALSE
