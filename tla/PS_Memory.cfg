\* Power lost at any step, and up to two faults.
\* The system stops when the bound on boots is reached.
CONSTANTS
    Size = 3
    ChunkCount = 2
    MaxBlocks = 4
    MaxBoots = 4
    MaxFaults = 2
SPECIFICATION FairSpec
INVARIANTS NoEmptyPageSkipped UsedFileCovers SeriesInOrder
PROPERTIES LogSpec EraseEnds
CHECK_DEADLOCK FALSE
