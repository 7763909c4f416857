CONSTANTS
  Bus <- MCBus
  Worlds <- MCWorlds
  Processes = {"gvfs", "other"}
  NoDevice = NoDevice
  MaxFaults = 2
SPECIFICATION Spec
INVARIANTS SearchFinds ClaimsAccounted UsersNamed
PROPERTY SearchEnds
