CONSTANTS
    Configs <- MonitorModes
    Samples <- NoSamples
    RawWrites <- NoRaw
    Disturbances = {}
SPECIFICATION Spec
INVARIANT OldModeDeactivated
