SPECIFICATION Spec
CONSTANTS
    Devices <- MCDevices
    Worlds <- MCWorlds
    Local <- MCLocal
    Lines <- MCLines
    Typed <- MCTyped
    Storages <- MCStorages
    TransferSize = 8
    MaxCommands = 2
    MaxObjects = 7
    MaxFaults = 1
INVARIANTS TypeOK PutLands PutReplaces ReadsTrue DeletesThat NamesSurvive
CHECK_DEADLOCK FALSE
