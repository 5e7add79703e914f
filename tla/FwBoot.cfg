SPECIFICATION FairSpec
CONSTANTS
    good = good
    better = better
    weak = weak
    hanging = hanging
    broken = broken
    Torn = torn
    Images <- SomeImages
    Valid = {good, better, weak, hanging}
    Starting = {good, better, weak}
    Glitching = {good, better}
    ImageBlocks = 2
    MaxBlocks = 3
    Sizes = {0, 1, 2, 3, 4}
    FuseCap = 4
INVARIANTS TypeOK NeverBricked HaltsOnlyWhenLost
PROPERTIES SwitchAsked Implements Progress NoBootLoop
