SPECIFICATION FairSpec
CONSTANT Size <- SmallSize
INVARIANTS TypeOK PassComplete BackupKept
PROPERTIES Progress ComesToRest
