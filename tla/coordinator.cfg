SPECIFICATION FairSpec
CONSTANTS
    MaxVersion = 2
    MaxActions = 3
    MaxReleases = 1
INVARIANTS TypeOK InstallHasFile InstallsWhatIsShown
PROPERTIES TransientPhasesEnd ActionsAreServed
CHECK_DEADLOCK FALSE
