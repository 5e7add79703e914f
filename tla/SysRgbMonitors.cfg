CONSTANTS
    Configs <- MonitorModes
    Samples <- NoSamples
    RawWrites <- NoRaw
    Disturbances = {"sleep", "edit"}
SPECIFICATION Spec
INVARIANTS MonitorsServeMode ImageFollowsConfig
