CONSTANTS
    Configs <- Autonomous
    Samples <- NoSamples
    RawWrites <- NoRaw
    Disturbances = {"power", "sleep", "edit", "coarse", "card", "session"}
SPECIFICATION FairSpec
INVARIANT SettingsSafe
PROPERTY EventuallySettled
