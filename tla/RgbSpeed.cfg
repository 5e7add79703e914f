CONSTANTS
    Configs <- LinkConfigs
    Samples <- ZeroOne
    RawWrites <- NoRaw
    Disturbances = {}
SPECIFICATION LinkSpec
PROPERTY SpeedInRangeKept
