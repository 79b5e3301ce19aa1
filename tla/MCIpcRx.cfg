SPECIFICATION LineSpec
CONSTANTS
    Byte <- MCByte
    StartByte = 170
    StopByte = 85
    MaxPayload = 3
    RecSize = 2
    AppSize = 1
    Crc <- MCCrc
    MallocMayFail = TRUE
INVARIANTS
    TypeOK
    StoresInBounds
    NoLeak
    FaultOnlyOnEmptyFrame
PROPERTIES
    ReturnsToIdle
    ImplementsFraming
CHECK_DEADLOCK FALSE
