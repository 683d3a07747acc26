SPECIFICATION FairSpec
CONSTANTS
    MaxVersion = 2
    MaxInstalls = 2
    Pids = {1, 2, 3}
    Bad = {2}
    Armed = TRUE
    MayFail = FALSE
PROPERTY FailingVersionLeaves
