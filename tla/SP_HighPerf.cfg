\* High-performance mode: one frequency and one ADC channel.
\* The settings mutex against the full queue may stop the system.
CONSTANTS
    FChannels = {"P"}
    AChannels = {"A"}
    QueueSize = 2
    StartCount = 2
    HighPerformance = TRUE
    WrapedCaptures = {TRUE, FALSE}
    CycleNames = 1
    Free = Free
SPECIFICATION FairSpec
INVARIANTS EnabledChannelLives
 
CHECK_DEADLOCK FALSE
