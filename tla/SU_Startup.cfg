\* Three segments, two dies, pages of two chunks; both modes, restarts at any step.
CONSTANTS
    Segments = {0, 1, 2}
    DieSegments <- TwoDies
    Chunks = 2
    NoSegment = NoSegment
SPECIFICATION StartupSpec
INVARIANTS HandlersAreServed ClockTreeFits CommandsAreHeard MappedUntilTaken
PROPERTIES  BootEnds
CHECK_DEADLOCK FALSE
