\* Recorder mode: one frequency channel whose captures tell their cycles apart.
CONSTANTS
    FChannels = {"P"}
    AChannels = {}
    QueueSize = 2
    StartCount = 1
    HighPerformance = FALSE
    WrapedCaptures = {TRUE, FALSE}
    CycleNames = 4
    Free = Free
SPECIFICATION FairSpec
INVARIANTS TypeOK RunningChannelIsWatched ResultIsOneCycle
PROPERTIES RunningChannelIsServed
