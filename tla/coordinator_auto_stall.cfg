SPECIFICATION FairSpec
CONSTANTS
    MaxVersion = 1
    MaxActions = 0
    MaxReleases = 0
PROPERTY DetectedUpdatesProceed
CHECK_DEADLOCK FALSE
