CONSTANTS
    Configs <- Temperature
    Samples <- ZeroOne
    RawWrites <- NoRaw
    Disturbances = {}
SPECIFICATION Spec
PROPERTY TemperatureScaled
