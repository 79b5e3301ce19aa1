SPECIFICATION Spec
CONSTANTS
    Thread = {"app", "cell"}
    Traffics <- MCTraffics
    CountRange = 8
    MaxPayload = 1024
    RecSize = 21
    AppSize = 5
    Crc <- ipc_p1_crc
    MaxFaults = 1
    Garbled <- MCGarbled
INVARIANTS
    NothingInvented
    CleanLineInOrder
    SurvivesShortWrites
    ChecksumIsModbus
    BoundedLoss
PROPERTIES
    LineDrains
CHECK_DEADLOCK FALSE
