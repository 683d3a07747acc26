SPECIFICATION FairSpec
CONSTANTS
    MaxVersion = 2
    MaxInstalls = 1
    Pids = {1, 2, 3}
    Bad = {2}
    Armed = FALSE
    MayFail = FALSE
PROPERTY BadVersionRolledBack
