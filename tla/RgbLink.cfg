CONSTANTS
    Configs <- LinkConfigs
    Samples <- ZeroOne
    RawWrites <- RawMode
    Disturbances = {"sleep", "bus", "session"}
SPECIFICATION LinkSpec
INVARIANTS LinkTypeOK StripFollowsConfig StripDark EffectsDefined
PROPERTIES ModeComesLast
CONSTRAINT FewLost
