CONSTANTS
  Loads <- MCLoads
  Stored <- Folder
  MaxObjects = 3
  MaxSize = 1
  MaxWrites = 1
  PropertyList = TRUE
SPECIFICATION Spec
INVARIANT CachesMirror
PROPERTIES RmdirOnlyEmpty ReadsCurrent
