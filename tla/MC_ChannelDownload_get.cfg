CONSTANTS
    MaxChannels = 3
    RetryLimit = 1
    Attempts = 2
    MaxDownloads = 2
    MaxAsked = 3
SPECIFICATION FairSpec
CHECK_DEADLOCK FALSE
INVARIANTS InstalledInOrder ChainUnbroken
PROPERTIES GetNodeReturns
