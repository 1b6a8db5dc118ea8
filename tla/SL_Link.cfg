\* Three requests, not one of them waiting for the answer to another; the read
\* buffer holds them all.
CONSTANTS
    Magic = 9
    MaxSize = 7
    Bodies <- HostBodies
    PacketSize = 4
    RxSize = 27
    TxSize = 1
    ResponseSize = 2
    MaxRequests = 3
SPECIFICATION FairSpec
INVARIANTS NoSleepOnEvent ExecutedAsSent
 
CHECK_DEADLOCK FALSE
