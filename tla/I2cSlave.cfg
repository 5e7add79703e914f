SPECIFICATION FairSpec
CONSTANTS
    ByteSize = 3
    StateSize = 2
    Defaults <- SmallDefaults
    Clamp <- Limit
    Data <- LowByte
INVARIANTS TypeOK RegistersAsWritten FlagBeforeShown NothingLost
PROPERTIES Implements EventuallyShown
