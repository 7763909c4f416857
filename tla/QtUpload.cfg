CONSTANTS
  Worlds <- MCWorlds
  Jobs <- MCJobs
  Cover = "albumart.jpg"
  Names = {"B"}
  Longer <- MCLonger
  MaxTurns = 2
  MaxFaults = 1
SPECIFICATION Spec
INVARIANTS FilesInPlace JobsComplete Uninterrupted
PROPERTY JobEnds
