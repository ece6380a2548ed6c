SPECIFICATION Spec
CONSTANTS
    MaxChannels = 4
    Names = {"prim", "x", "a"}
    Table0 <- McTable0
    Url <- McUrl
    UrlLora = TRUE
    MaxAttempts = 2
    MaxReloads = 2
    MaxEdits = 1
    MaxJobs = 2
    NoList = NoList
CHECK_DEADLOCK FALSE
INVARIANTS CacheMatchesDevice
PROPERTIES ReplacementIsWhole AdminSlotUsed 
