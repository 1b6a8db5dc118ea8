\* Sectors of two packets, clusters of two sectors, five files at most; one
\* command at a time, with resets, erases and foreign events between any steps.
CONSTANTS
    Sect = 4
    SectPerClust = 2
    FatEntry = 1
    DirEntry = 1
    BootLba = 3
    BlockBytes = 4
    PacketSize = 2
    CswBytes = 1
    ReplyBytes = 1
    ReadmeBytes = 9
    ConfigBytes = 4
    InfoBytes = 2
    InfoMax = 8
    PageBytes = 8
    FlashPages = 3
    Full = Full
    Undefined = Undefined
    MemoryStates = {2, Full}
    Commands <- HostCommands
SPECIFICATION FairSpec
INVARIANTS  CommandsAreUnderstood
 
CHECK_DEADLOCK FALSE
