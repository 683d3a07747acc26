SPECIFICATION Spec
CONSTANTS
    MaxVersion = 3
    MaxInstalls = 2
    Pids = {1, 2}
    Bad = {}
    Armed = TRUE
    MayFail = TRUE
INVARIANTS TypeOK RollbackNeedsThreeBoots  BackupIsPrevious
PROPERTY RollbackRestoresPrevious
