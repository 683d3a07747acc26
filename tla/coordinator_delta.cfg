SPECIFICATION FairSpec
CONSTANTS
    MaxVersion = 1
    MaxActions = 2
    MaxReleases = 0
INVARIANT InstallsFullBinary
CHECK_DEADLOCK FALSE
