CONSTANTS
    c1 = c1
    c2 = c2
    Consoles = {c1, c2}
    None = None
    OffsetCnt = 3
    PagesPerSector = 2
    RecordMax = 2
    RecordEdges = 0
    RandomEdges = 1
    StartWidth = 3
    MaxWidth = 6
    FirstStep = 2
    NextStep = 1
    MissingLimit = 2
SPECIFICATION FairSpec
INVARIANTS TypeOK RecordsOwn LockedWhenFull
PROPERTIES BestFirst RoundsComplete Implements Progress ComesToRest
