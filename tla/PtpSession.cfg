CONSTANTS
  MaxIds = 5
  MaxChunks = 2
  MaxFaults = 2
SPECIFICATION FairSpec
INVARIANT AnswersWhole
PROPERTY Recovers
