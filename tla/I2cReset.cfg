SPECIFICATION Spec
CONSTANTS
    ByteSize = 3
    StateSize = 2
    Defaults <- SmallDefaults
    Clamp <- Limit
    Data <- LowByte
PROPERTY OffOnceReceived
